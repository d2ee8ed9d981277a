SPECIFICATION Spec
CONSTANTS
    NodeTypes = {"ARCHITECT", "REPAIR"}
    FirstNode = "ARCHITECT"
    RepairNode = "REPAIR"
    MaxExecutions = 2
    MaxReports = 2
    MaxAttempts = 2
    MaxVersions = 2
    c1 = c1
    Clients = {c1}
    MaxFaults = 0
INVARIANT
    StoppedIsResumable
CHECK_DEADLOCK FALSE
