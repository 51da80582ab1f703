SPECIFICATION Spec
CONSTANTS
    KeepaliveLimit = 3
    RoundLimit = 3
    MaxInput = 3
    MaxWindow = 2
INVARIANTS
    SecretOnlyToAcceptedHost
    NoLostWakeup
PROPERTIES
    CloseSticks
CHECK_DEADLOCK FALSE
