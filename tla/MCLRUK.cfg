\* Three frames, K = 2, six accesses: frames with complete and incomplete
\* histories meet in one Evict, and a frame is re-tracked after an eviction.
SPECIFICATION LogSpec
CONSTANTS
    Frames = {f1, f2, f3}
    NoFrame = NoFrame
    K = 2
    MaxTime = 6
INVARIANTS
    TypeOK
    SizeCountsEvictable
    HistoryIsLastK
    ScanFindsVictim
    VictimIsUnique
PROPERTIES
    ImplementsReplacer
    ImplementsLRUK
