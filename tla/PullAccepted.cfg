SPECIFICATION PoolSpec
CONSTANTS
    s1 = s1
    s2 = s2
    w1 = w1
    w2 = w2
    TaskIDs = {t1}
    Workers = {w1, w2}
    NoWorker = NoWorker
    NoTask = NoTask
    LeaseDuration = 1
    MaxAttempts = 2
    Slots = {s1, s2}
    Owners <- TwoWorkers
    Mortal = {w1}
    MaxFaults = 0
    MaxInFlight = 2
    MaxRestarts = 0
INVARIANTS
    AcceptedIsRecorded
CHECK_DEADLOCK FALSE
