SPECIFICATION Spec
CONSTANTS
    Key = {1, 2, 3}
    Value = {2}
    Nil = Nil
    MaxLevel = 2
    MaxInserts = 0
    H1 <- MCH1
    H2 <- MCH2
    HashRange = 8
    NumBits = 4
    NumHashes = 2
    SparseInterval = 2
    RecordHeaderSize = 2
    NotFound = NotFound
    Corrupted = Corrupted
    Panicked = Panicked
    Changed = Changed
    Sentinel = 9
    MaxFlushes = 0
CHECK_DEADLOCK FALSE
INVARIANT
    CompactionKeepsLive
