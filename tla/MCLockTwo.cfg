\* Two rids, three transactions: lock-order deadlocks are reachable (the code has no
\* deadlock detection), so the run does not check for deadlock.
SPECIFICATION Spec
CONSTANTS
    Txns = {t1, t2, t3}
    Rids = {r1, r2}
    NoCall = NoCall
    Relock = TRUE
    ReleaseFirst = FALSE
    ExternalAbort = FALSE
SYMMETRY Symmetry
INVARIANTS
    LockExclusion
PROPERTIES
    ImplementsTwoPhaseLocking
CHECK_DEADLOCK FALSE
