SPECIFICATION FairWorkSpec
CONSTANTS
    r1 = r1 k1 = k1 c1 = c1 c2 = c2
    NoOne = NoOne
    Reps <- OneRep
    Candidates <- OneCandidate
    Calls <- OneCall
    Allowed = 1
    MaxGrants = 1
    LastStage = 1
    Redrives = 1
    MaxAttempts = 0
    Notify = FALSE
    Policies <- DefaultPolicy
    Mishaps <- NoErasure
    MaxMishaps = 1
CHECK_DEADLOCK FALSE
PROPERTIES
    WorkSettles
