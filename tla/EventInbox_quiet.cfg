SPECIFICATION Spec
CONSTANTS
    MaxOps = 3
    MaxClock = 3
    MaxSeqClock = 2
    MaxPassAttempts = 2
    MaxFaults = 1
    Slack = 0
    Skew = 0
    Sequencing = {TRUE, FALSE}
    Admit = {"ownDelete", "intentExpires", "lost"}
INVARIANT TypeOK
INVARIANT InboxInv
INVARIANT AgreeInv
INVARIANT QuietAgrees
PROPERTY RemovalIsReal
CHECK_DEADLOCK FALSE
