SPECIFICATION SchemaSpec
CONSTANTS
    NULL = NULL
    Opener = {p1, p2}
    NumShards = 2
    MaxCount = 1
SYMMETRY Symmetry
INVARIANTS
    SchemaInv
    ReadyIsComplete
    CountedUnlessOrphaned
    VersionTellsMigrated
