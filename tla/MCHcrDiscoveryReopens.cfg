SPECIFICATION Spec
CONSTANTS
    r1 = r1
    r2 = r2
    NodeTypes <- ChainNodes
    FirstNode = "PLANNER"
    RepairNode = "REPAIR"
    NextNodes <- ChainGraph
    Order <- GraphOrder
    ToolNodes <- Engineers
    MaxExecutions = 2
    MaxAttempts = 1
    Requests = {r1, r2}
    Kinds = {"discover", "start"}
    MaxFaults = 0
SYMMETRY Symmetric
INVARIANTS
    OneActiveBuild
CHECK_DEADLOCK FALSE
