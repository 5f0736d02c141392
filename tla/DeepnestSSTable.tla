--------------------------- MODULE DeepnestSSTable ---------------------------
(***************************************************************************)
(* The table file of pkg/storage/sstable.go: records in key order at byte  *)
(* offsets, each under a CRC; every SparseInterval-th key with its offset  *)
(* in the index; the filter; the footer.  A file is a record of its        *)
(* blocks.  Of a data record in the file the model keeps its offset, the   *)
(* length its header gives for its body and whether its CRC matches.       *)
(*                                                                         *)
(* A lookup yields the set of the answers it may give: at an offset where  *)
(* no record starts it reads other bytes as a header, which gives a body   *)
(* past the end of the block or a CRC that does not match.                 *)
(***************************************************************************)
EXTENDS LumaflyBloom

CONSTANTS
    SparseInterval,   \* SSTableOptions.SparseInterval
    RecordHeaderSize, \* 13 in the code
    NotFound,         \* found is false and there is no error
    Corrupted,        \* ErrSSTableCorrupted
    Panicked,         \* make with a negative length, or a division by zero
    Changed           \* the value of a record with changed bytes

ASSUME SSTableConstants == SparseInterval \in Nat \ {0} /\ RecordHeaderSize \in Nat \ {0}

BodyLen(r) == 1 + r.value

\* Mutant: the index gives the offset after the record.
OffsetsAfter(recs) ==
    LET at[i \in 1..Len(recs) + 1] ==
            (IF i = 1 THEN 0 ELSE at[i - 1])
            + IF i > Len(recs) THEN 0 ELSE RecordHeaderSize + BodyLen(recs[i])
    IN  at
\* currentOffset before each record, and after the last one.
Offsets(recs) ==
    LET at[i \in 1..Len(recs) + 1] ==
            IF i = 1 THEN 0 ELSE at[i - 1] + RecordHeaderSize + BodyLen(recs[i - 1])
    IN  at

\* The sparse index: the first of every SparseInterval records.
Index(recs) ==
    [j \in 1..((Len(recs) + SparseInterval - 1) \div SparseInterval) |->
        LET i == (j - 1) * SparseInterval + 1
        IN  [key |-> recs[i].key, offset |-> Offsets(recs)[i]]]

BuildSSTable(recs) ==
    [data |-> [i \in DOMAIN recs |->
                [rec |-> recs[i], offset |-> Offsets(recs)[i],
                 len |-> BodyLen(recs[i]), crcMatches |-> TRUE]],
     index |-> Index(recs),
     indexOffset |-> Offsets(recs)[Len(recs) + 1],
     filter |-> lumafly_serialize(
                    FoldLeft(LAMBDA f, r : lumafly_add(f, r.key), lumafly_create, recs))]

\* The reader of a file; a file whose filter does not load is refused.
OpenSSTable(file) == [file EXCEPT !.filter = lumafly_deserialize(@)]
Opens(file) == lumafly_deserialize(file.filter) # <<>>
-----------------------------------------------------------------------------
\* sort.Search: how many entries of the index come before the first beyond key,
\* by halving, whether or not the entries are in order.
SortSearch(index, key) ==
    LET search[lo, hi \in 0..Len(index)] ==
            LET mid == (lo + hi) \div 2
            IN  IF lo >= hi THEN lo
                ELSE IF index[mid + 1].key > key THEN search[lo, mid]
                ELSE search[mid + 1, hi]
    IN  search[0, Len(index)]

\* Mutant: the CRC is not compared.
RecordAnswerNoCRC(d, key, rest) ==
    CASE d.rec.key = key -> {d.rec}
      [] d.rec.key > key -> {NotFound}
      [] OTHER -> rest
\* What one whole record of the scan answers, or the answers of the rest of it.
RecordAnswer(d, key, rest) ==
    CASE ~d.crcMatches -> {Corrupted}
      [] d.crcMatches /\ d.rec.key = key -> {d.rec}
      [] d.crcMatches /\ d.rec.key > key -> {NotFound}
      [] OTHER -> rest

\* The scan of the block from start to end: a record cut off ends it.
Scan(reader, key, start, end) ==
    LET scan[o \in start..end] ==
            LET here == {i \in DOMAIN reader.data : reader.data[i].offset = o}
            IN  IF end - o < RecordHeaderSize THEN {NotFound}
                ELSE IF here = {} THEN {NotFound, Corrupted}
                ELSE LET d == reader.data[CHOOSE i \in here : TRUE]
                         next == o + RecordHeaderSize + d.len
                     IN  IF next > end THEN {NotFound} ELSE RecordAnswer(d, key, scan[next])
    IN  scan[start]

Get(reader, key) ==
    LET idx == SortSearch(reader.index, key)
        start == IF idx > 0 THEN reader.index[idx].offset ELSE 0
        end == IF idx < Len(reader.index) THEN reader.index[idx + 1].offset ELSE reader.indexOffset
    IN  IF reader.filter # <<>> /\ reader.filter.num_bits = 0 THEN {Panicked}
        ELSE IF ~lumafly_contains(reader.filter, key) \/ reader.index = <<>> THEN {NotFound}
        ELSE IF end < start THEN {Panicked}
        ELSE Scan(reader, key, start, end)
-----------------------------------------------------------------------------
(* Bit rot: the ways one part of a file can differ from what was written.    *)

\* Bytes of a record other than its two lengths.
RotContents(file) ==
    {[file EXCEPT !.data[i].crcMatches = FALSE, !.data[i].rec.value = Changed] : i \in DOMAIN file.data}
\* The lengths of a record.
RotLengths(file) ==
    {[file EXCEPT !.data[i].crcMatches = FALSE, !.data[i].rec.value = Changed, !.data[i].len = n] :
        i \in DOMAIN file.data, n \in 0..(2 * RecordHeaderSize)}
\* The key, not its length, or the offset of an entry of the index.
RotIndex(file, keys) ==
    {[file EXCEPT !.index[j].key = k] : j \in DOMAIN file.index, k \in keys}
    \cup {[file EXCEPT !.index[j].offset = o] :
            j \in DOMAIN file.index, o \in 0..(file.indexOffset + RecordHeaderSize)}
\* The filter's numbers and bits.
RotFilter(file) ==
    {[file EXCEPT !.filter[1] = n] : n \in 0..(2 * NumBits)}
    \cup {[file EXCEPT !.filter[2] = n] : n \in 0..(2 * NumHashes)}
    \cup {[file EXCEPT !.filter[4] = (@ \ {b}) \cup ({b} \ @)] : b \in 0..(NumBits - 1)}
=============================================================================
