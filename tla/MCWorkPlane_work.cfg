SPECIFICATION WorkSpec
CONSTANTS
    r1 = r1 k1 = k1 c1 = c1 c2 = c2
    NoOne = NoOne
    Reps <- Nobody
    Candidates <- OneCandidate
    Calls <- OneCall
    Allowed = 0
    MaxGrants = 0
    LastStage = 1
    Redrives = 1
    MaxAttempts = 1
    Notify = FALSE
    Policies <- AllPolicies
    Mishaps <- AllMishaps
    MaxMishaps = 2
CHECK_DEADLOCK FALSE
INVARIANTS
    NothingForgotten
    SentStands
PROPERTIES
    FenceHolds
