SPECIFICATION FairSpec
CONSTANTS
    Setups <- AllSetups
    Commands = {c1}
    Handlers = {h1}
    Sweep = Sweep
    Purger = Purger
    None = None
    Kinds <- AllKinds
    Subjects <- JustExport
    Ends <- OneEnd
    Periods <- OnePeriod
    Horizon = 2
    Batches = 1
    MaxFailures = 2
    MaxEpoch = 2
    Mishaps = 1
CHECK_DEADLOCK FALSE
INVARIANTS
    PurgeIsDue
PROPERTIES
    DecisionsSettle
    DeadlinesAreMet
