SPECIFICATION FairSpec
CONSTANTS
    MaxOps = 2
    MaxClock = 2
    MaxSeqClock = 1
    MaxPassAttempts = 2
    MaxFaults = 1
    Slack = 0
    Skew = 0
    Sequencing = {TRUE, FALSE}
    Admit = {"ownDelete", "intentExpires", "lost", "opFails", "unleased", "intentFails",
             "staleRead", "inactive", "protected"}
PROPERTY OwnClaimsExact
PROPERTY RowsSettle
CHECK_DEADLOCK FALSE
