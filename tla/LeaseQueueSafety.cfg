SPECIFICATION Spec
CONSTANTS
    TaskIDs = {t1, t2, t3}
    Workers = {w1, w2}
    NoWorker = NoWorker
    LeaseDuration = 2
    MaxAttempts = 2
SYMMETRY Symmetry
INVARIANTS
    TypeOK
    QueueConsistent
    OrderConsistent
    LeaseConsistent
    RetryPolicy
PROPERTIES
    TerminalIsFinal
    ResultFromLiveLease
    LiveLeaseKept
    FirstComeFirstServed
    LifecyclePromise
