SPECIFICATION RestoreSpec
CONSTANTS
    Setups <- FirstSetups
    Commands = {c1, c2}
    Handlers = {h1}
    Sweep = Sweep
    Purger = Purger
    None = None
    Kinds <- ServiceKinds
    Subjects <- HoldOrErasure
    Ends <- OneEnd
    Periods <- OnePeriod
    Horizon = 2
    Batches = 1
    MaxFailures = 2
    MaxEpoch = 1
    Mishaps = 1
    Disasters = {0, 1}
    LostKinds <- PurgeKinds
    LostSubjects <- JustErasure
    Reruns = 1
SYMMETRY Symmetric
CHECK_DEADLOCK FALSE
INVARIANTS
    FenceHolds
    NoCallOutlivesService
    ArmedNeverClosed
    RestoreIsComplete
    HeldForAReason
PROPERTIES
    ImplementsHistory
