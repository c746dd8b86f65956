SPECIFICATION TimingSpec
CONSTANTS
    LeaseDuration = 24
    MinInterval = 2
    MaxInterval = 20
    Networks <- DefaultNetworks
INVARIANTS
    TimingTypeOK
    HeldWhileExecuting
CHECK_DEADLOCK FALSE
