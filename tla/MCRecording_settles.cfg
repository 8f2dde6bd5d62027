SPECIFICATION Spec
CONSTANTS
    Egresses <- TwoEgresses
    Paths <- AllPaths
    Fates <- CompleteOrVoid
    Mishaps <- Rollback
    EraseLive = FALSE
    Redrives = FALSE
CHECK_DEADLOCK FALSE
INVARIANTS
    NothingLeftBehind
    OutcomeApplied
