SPECIFICATION PoolSpec
CONSTANTS
    s1 = s1
    s2 = s2
    w1 = w1
    w2 = w2
    TaskIDs = {t1}
    Workers = {w1, w2}
    NoWorker = NoWorker
    NoTask = NoTask
    LeaseDuration = 1
    MaxAttempts = 2
    Slots = {s1, s2}
    Owners <- AnyWorkers
    Mortal = {w1}
    MaxFaults = 1
    MaxInFlight = 2
    MaxRestarts = 1
INVARIANTS
    PoolTypeOK
    RecordedWasProduced
    RenewedWhileHeld
    CompletedAsTold
PROPERTIES
    LeaseEndsByHolderOrTime
