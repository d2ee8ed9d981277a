SPECIFICATION ReadySpec
CONSTANTS
    r1 = r1
    r2 = r2
    NodeTypes <- ForkNodes
    FirstNode = "PLANNER"
    RepairNode = "REPAIR"
    NextNodes <- ForkGraph
    Order <- GraphOrder
    ToolNodes <- Engineers
    MaxExecutions = 2
    MaxAttempts = 1
    Requests = {r1}
    Kinds = {"start", "retry"}
    MaxFaults = 0
INVARIANTS
    ResumedBuildIsWhole
CHECK_DEADLOCK FALSE
