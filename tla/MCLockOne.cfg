\* One rid, three transactions: two shared holders, one of them upgrading, and a
\* waiter at once.  Every granted lock is released by its holder, so every blocked
\* call must return.  No symmetry: the run checks liveness too.
SPECIFICATION FairSpec
CONSTANTS
    Txns = {t1, t2, t3}
    Rids = {r}
    NoCall = NoCall
    Relock = FALSE
    ReleaseFirst = TRUE
    ExternalAbort = FALSE
INVARIANTS
    QueuesMatchLockSets
    SingleUpgrader
    NoLostWakeup
PROPERTIES
    CallsReturn
