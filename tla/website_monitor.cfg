SPECIFICATION FairMonitorSpec
CONSTANT Budget = 3
INVARIANTS AlertOncePerOutage SiteRecoveryOnlyAfterAlert
PROPERTIES LastingOutageTold LastingSiteRecoveryTold
