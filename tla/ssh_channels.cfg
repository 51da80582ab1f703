SPECIFICATION Spec
CONSTANTS
    MaxChannels = 2
    MaxPendingKills = 2
INVARIANTS
    NoUnknownRecipient
    NoOrphanChannel
    KillAnsweredOnce
    NothingStuck
CHECK_DEADLOCK FALSE
