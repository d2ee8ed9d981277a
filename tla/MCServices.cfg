SPECIFICATION Spec
CONSTANTS
    r1 = r1
    r2 = r2
    r3 = r3
    r4 = r4
    s1 = s1
    s2 = s2
    MaxPushes = 2
    MaxContents = 2
    MaxHeads = 2
    PushRequests <- TwoOf
    MaxPushFaults = 1
    Writers <- FourCalls
    ArtifactNodes = {n1}
    CallKeys <- TwoOf
    Attempts <- ThreeCalls
    Texts <- TwoTexts
    MaxFileFaults = 2
    Processes <- TwoOf
    CacheKeys <- TwoOf
    CacheRequests <- TwoOf
    HotLimit = 1
    TimeToLive = 2
    MaxTime = 2
    MaxInvalidations = 1
    MaxEntries = 3
    Memories <- ThreeCalls
    MemoryTasks <- TwoOf
SYMMETRY Alike
INVARIANTS
    ServicesTypeOK
    AccountedFor
    NodeIsIdempotent
    MirrorAgrees
    SingleFlight
    HitsAreFresh
    SlotOfSubject
    Forgotten
PROPERTIES
    PushesReviewed
    RevisionsGrow
    SuccessMeansDone
CHECK_DEADLOCK FALSE
