SPECIFICATION JobSpec
CONSTANTS
    t1 = t1
    t2 = t2
    j1 = j1
    j2 = j2
    TaskIDs = {t1, t2}
    Workers = {w1}
    NoWorker = NoWorker
    LeaseDuration = 1
    MaxAttempts = 2
    Jobs = {j1, j2}
    Manifests <- OneJob
    Watched = {j1}
    MaxRestarts = 0
INVARIANTS
    StoppedWaitingWasUnfinished
CHECK_DEADLOCK FALSE
