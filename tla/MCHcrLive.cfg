SPECIFICATION FairReadySpec
CONSTANTS
    r1 = r1
    r2 = r2
    NodeTypes <- ChainNodes
    FirstNode = "PLANNER"
    RepairNode = "REPAIR"
    NextNodes <- ChainGraph
    Order <- GraphOrder
    ToolNodes <- Engineers
    MaxExecutions = 2
    MaxAttempts = 1
    Requests = {r1}
    Kinds = {"start", "retry", "cancel"}
    MaxFaults = 0
PROPERTIES
    BuildsEnd
CHECK_DEADLOCK FALSE
