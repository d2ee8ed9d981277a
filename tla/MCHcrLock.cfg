SPECIFICATION ReadySpec
CONSTANTS
    r1 = r1
    r2 = r2
    NodeTypes <- WholeNodes
    FirstNode = "ARCHITECT"
    RepairNode = "REPAIR"
    NextNodes <- WholeGraph
    Order <- GraphOrder
    ToolNodes <- Engineers
    MaxExecutions = 3
    MaxAttempts = 1
    Requests = {r1, r2}
    Kinds = {"start", "retry"}
    MaxFaults = 0
SYMMETRY Symmetric
INVARIANTS
    ResumeHasInput
PROPERTIES
    LockIsKept
CHECK_DEADLOCK FALSE
