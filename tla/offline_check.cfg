SPECIFICATION FairSpec
CONSTANTS
    Node = {n1}
    Run = {r1, r2}
    Grace = 2
    NotifyNeverReported = TRUE
    CanFail = TRUE
    Outcomes = {TRUE, FALSE}
INVARIANTS AlertOncePerFault RecoveryOnlyAfterAlert
PROPERTIES AlertsQuiesce LastingFaultTold LastingRecoveryTold
