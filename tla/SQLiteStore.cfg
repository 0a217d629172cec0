CONSTANTS
    Writes = {w1, w2}
    Callbacks = {c1, c2}
    LateWriters = TRUE
SPECIFICATION FairSpec
INVARIANTS
    TypeOK
    CleanMeansSaved
    DirtyMeansFlushComing
    ShutdownLosesOnly
PROPERTIES
    SnapshotNeverRegresses
    SavedEventually
    ImplementsDurableStore
    ImplementsStoreLife
