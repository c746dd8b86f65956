SPECIFICATION TimingSpec
CONSTANTS
    LeaseDuration = 2
    MinInterval = 2
    MaxInterval = 20
    Networks <- Instant
INVARIANTS
    HeldWhileExecuting
CHECK_DEADLOCK FALSE
