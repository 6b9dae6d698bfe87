SPECIFICATION FairSpec
CONSTANTS
    Strategies = {"cache", "sync", "mirror"}
    Policies = {"keep_local", "keep_remote", "keep_newest", "ask"}
    Encrypted = TRUE
    MaxEvents = 3
    Admit = {"listing"}
INVARIANT TypeOK
INVARIANT WholeInv
INVARIANT SyncInv
INVARIANT InSyncIsSame
PROPERTY NoUndecidedOverwrite
PROPERTY Converges
