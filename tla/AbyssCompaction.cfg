SPECIFICATION Spec
CONSTANTS
    Key = {1, 2, 3}
    Value = {2}
    Nil = Nil
    MaxLevel = 2
    MaxInserts = 4
    H1 <- MCH1
    H2 <- MCH2
    HashRange = 8
    NumBits = 4
    NumHashes = 2
    SparseInterval = 2
    RecordHeaderSize = 2
    NotFound = NotFound
    Corrupted = Corrupted
    Panicked = Panicked
    Changed = Changed
    Sentinel = 9
    MaxFlushes = 1
CHECK_DEADLOCK FALSE
INVARIANTS
    TypeOK
    SizeIsExact
    IteratorMissesNothing
    CompactionKeepsIndexed
PROPERTIES
    ImplementsMap
    TableAnswersExactly
    FlushAnswersAsMemTable
    RotNeverAnswersWrongly
    RotInRecordIsReported
