SPECIFICATION FairSpec
CONSTANTS
    Egresses <- OneEgressOnly
    Paths <- CallbackAndSweeper
    Fates <- AnyFate
    Mishaps <- AllButRollback
    EraseLive = TRUE
    Redrives = TRUE
CHECK_DEADLOCK FALSE
INVARIANTS
    AvailablePlays
    UnavailableSurfaced
PROPERTIES
    PendingResolves
