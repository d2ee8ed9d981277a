SPECIFICATION Spec
CONSTANTS
    r1 = r1
    r2 = r2
    NodeTypes <- ForkNodes
    FirstNode = "PLANNER"
    RepairNode = "REPAIR"
    NextNodes <- ForkGraph
    Order <- GraphOrder
    ToolNodes <- Engineers
    MaxExecutions = 1
    MaxAttempts = 2
    Requests = {r1}
    Kinds = {"discover", "start", "retry", "cancel"}
    MaxFaults = 1
INVARIANTS
    TypeOK
    CompletedRunIsWhole
    FailureAttribution
    WaitUnreachable
    AnnouncedOnce
PROPERTIES
    SeamSpec
CHECK_DEADLOCK FALSE
