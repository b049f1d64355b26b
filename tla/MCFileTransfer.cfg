SPECIFICATION FairSpec
CONSTANTS
    Shells = {s1}
    Files = {f1}
    Paths = {p1, p2}
    NoPath = nopath
    MaxOffset = 2
    DumpLine = 2
    FileChunk = 1
    MaxApdu = 2
INVARIANTS
    TypeOK
    OutputContiguous
    ExportComplete
    NoForeignBytes
    ReadsInRange
    SnapshotOwned
PROPERTIES
    TransferEnds
