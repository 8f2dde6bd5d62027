SPECIFICATION EntrySpec
CONSTANTS
    m1 = m1 r1 = r1 c1 = c1 c2 = c2 p1 = p1 p2 = p2 p3 = p3
    o1 = o1 k1 = k1 k2 = k2 e1 = e1 e2 = e2 w1 = w1 w2 = w2
    NoOne = NoOne
    Managers <- OneManager
    Reps <- OneRep
    Users <- OneRep
    Cookies <- TwoCookies
    Requests <- TwoRequests
    MaxVersion = 1
    MaxSecret = 1
    MaxLinks = 1
    MaxEpoch = 1
    Clients <- TwoRequests
    Callers <- ThreeRequests
    AttemptsOf <- FewAttempts
    WindowOf <- ShortWindows
    BaseHold = 1
    MaxHold = 2
    Outcomes <- AsWired
    MaxAttempts = 2
    Threshold = 2
    CallTicks = 1
    RecoveryTicks = 3
    Desks <- TwoRequests
    Staff <- OneOperator
    Keys <- TwoKeys
    Nobody = Nobody
    Steps = 5
    ReplaySteps = 4
    StallSteps = 1
    Entries = 3
    Lists <- EveryList
    ExportIds <- TwoExports
    Workers <- TwoWorkers
    Surfaces <- EverySurface
SYMMETRY Alike
CHECK_DEADLOCK FALSE
INVARIANTS
    EndedStaysEnded
    OneCodeOneSession
    WindowsEnd
    ProbeIsOne
    ListsExact
    BundlesAgree
