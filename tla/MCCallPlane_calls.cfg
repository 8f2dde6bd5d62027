SPECIFICATION Spec
CONSTANTS
    r1 = r1 r2 = r2 k1 = k1 c1 = c1 c2 = c2 c3 = c3 s1 = s1 s2 = s2
    NoCall = NoCall NoSlot = NoSlot NoOne = NoOne
    Reps <- OneRep
    Candidates <- OneCandidate
    Calls <- TwoCalls
    Slots <- TwoSlots
    Allowed = 1
    MaxGrants = 0
    LastStage = 1
    JoinSecs = 1
    MaxCallSecs = 1
    RecoverSecs = 2
    LeaseSecs = 3
    SlotSecs = 3
    Modes <- AllModes
    OrderlyClients = TRUE
    Prompt <- Everyone
    CrashSites <- NoCrash
    AckLost = FALSE
    Paths <- AllPaths
SYMMETRY CallsAlike
CHECK_DEADLOCK FALSE
INVARIANTS
    OneLiveCall
    VerdictStands
    PlanClosedOnce
    
