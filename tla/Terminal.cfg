SPECIFICATION FairTerminalSpec
CONSTANTS
    QueueCap = 2
    EventsCap = 2
    MaxKeys = 7
INVARIANTS
    KeysInOrder
PROPERTIES
    CommandExits
CHECK_DEADLOCK FALSE
