\* One transaction that commits while holding locks on two rids.
SPECIFICATION FairSpec
CONSTANTS
    Txns = {t1}
    Rids = {r1, r2}
    NoCall = NoCall
    Relock = FALSE
    ReleaseFirst = FALSE
    ExternalAbort = FALSE
PROPERTIES
    CommitReleasesLocks
CHECK_DEADLOCK FALSE
