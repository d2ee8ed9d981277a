SPECIFICATION FairReadySpec
CONSTANTS
    r1 = r1
    r2 = r2
    NodeTypes <- ChainNodes
    FirstNode = "PLANNER"
    RepairNode = "REPAIR"
    NextNodes <- ChainGraph
    Order <- GraphOrder
    ToolNodes <- Engineers
    MaxExecutions = 1
    MaxAttempts = 1
    Requests = {r1}
    Kinds = {"start"}
    MaxFaults = 1
PROPERTIES
    ClosedRunIsOver
CHECK_DEADLOCK FALSE
