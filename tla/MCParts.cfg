SPECIFICATION Spec
CONSTANTS
    Checked = {"seam", "router", "context", "turn", "sandbox", "page", "editor"}
    NodeTypes = {"ARCHITECT", "REPAIR"}
    FirstNode = "ARCHITECT"
    RepairNode = "REPAIR"
    MaxExecutions = 2
    Requests = {1, 2}
    RouterSettings <- Walks
    PromptLimit <- PromptLimits
    PromptSizes = {2}
    FailureThreshold = 2
    Cooldown = 1
    MaxAttempts = 2
    Limits = {4, 6}
    Required <- Framing
    MessageKinds <- Messages
    Retrievals <- Found
    SourceLimits <- Retrieved
    StepKinds <- TurnSteps
    MaxMessages = 3
    MaxSteps = 3
    HistoryLimit = 2
    MaxFacts = 1
    ScratchWindow = 2
    StructuredNodes = {"s"}
    ToolNodes = {"t"}
    MaxStructured = 2
    MaxIterations = 2
    TurnAttempts = 2
    TokenBudget = 2
    MaxUsage = 1
    MaxCalls = 1
    MaxOverlaps = 1
    SandboxRuns = {1}
    MaxSandboxFaults = 1
    Loads = {1, 2}
    MaxNews = 1
    ViewFiles = {"f", "g"}
    FileCalls = {1, 2}
INVARIANTS
    PartsTypeOK
    EventsMatchRows
    
    WalkIsWhole
    
    ToolResultsAnswered
    Overdraft
    VerdictEarned
    
    
    OwnText
PROPERTIES
    NoResurrection
    NodesAnswered
    
CHECK_DEADLOCK FALSE
