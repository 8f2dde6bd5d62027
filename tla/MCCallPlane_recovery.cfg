SPECIFICATION FairSpec
CONSTANTS
    r1 = r1 r2 = r2 k1 = k1 c1 = c1 c2 = c2 c3 = c3 s1 = s1 s2 = s2
    NoCall = NoCall NoSlot = NoSlot NoOne = NoOne
    Reps <- OneRep
    Candidates <- NoCandidates
    Calls <- OneCall
    Slots <- OneSlot
    Allowed = 1
    MaxGrants = 0
    LastStage = 1
    JoinSecs = 1
    MaxCallSecs = 1
    RecoverSecs = 2
    LeaseSecs = 2
    SlotSecs = 2
    Modes <- AllModes
    OrderlyClients = TRUE
    Prompt <- RequestsAndBundles
    CrashSites <- SweeperSurvives
    AckLost = FALSE
    Paths <- AllPaths
CHECK_DEADLOCK FALSE
PROPERTIES
    EveryCallEnds
