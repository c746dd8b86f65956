SPECIFICATION FairJobSpec
CONSTANTS
    t1 = t1
    t2 = t2
    j1 = j1
    j2 = j2
    TaskIDs = {t1, t2}
    Workers = {w1}
    NoWorker = NoWorker
    LeaseDuration = 1
    MaxAttempts = 2
    Jobs = {j1, j2}
    Manifests <- Batches
    Watched = {j1}
    MaxRestarts = 1
INVARIANTS
    WholeJobInOrder
    FinalViewIsTrue
    ExitTellsOutcome
    ScreensAgree
PROPERTIES
    ProgressNeverRetracted
    CommandReturns
    JobsKeepPromise
CHECK_DEADLOCK FALSE
