------------------------------ MODULE BenchWAL ------------------------------
(***************************************************************************)
(* The write-ahead log (pkg/bench/wal.go): one file, opened with O_APPEND, *)
(* written under WAL.mu, read back by Recover and ReplayWAL.               *)
(*                                                                         *)
(* The file is a sequence of cells.  A record is HeaderSize cells (the CRC *)
(* in the first, the lengths and the tombstone flag in the second) and one *)
(* cell per unit of key and value; cell p of the s-th append is            *)
(* [seq |-> s, pos |-> p].  A checksum is taken to match exactly when the  *)
(* cells it covers are those of one record, in order.                      *)
(*                                                                         *)
(* The operating system keeps what was synced and some prefix of what was  *)
(* written after it; a write may be cut short by an error.                 *)
(***************************************************************************)
EXTENDS Integers, Sequences, SequencesExt

CONSTANTS
    MaxBody,        \* bound: the longest key and value, in cells
    MaxAppends,     \* bound: how many records are appended
    MaxCrashes      \* bound: how many crashes

ASSUME WALBounds == MaxBody \in Nat \ {0} /\ MaxAppends \in Nat /\ MaxCrashes \in Nat

HeaderSize == 2

VARIABLES
    syncOnWrite,    \* WALOptions.SyncOnWrite
    file,           \* bench_0.wal
    synced,         \* how many cells fsync has put on disk
    appends,        \* the body length and the answer of every Append so far
    pending,        \* the append that has written and not yet synced, or 0
    status,         \* of the WAL object: "open", "closed", or "down" with its process
    replayErr,      \* whether the last ReplayWAL or Recover returned an error
    crashes

vars == <<syncOnWrite, file, synced, appends, pending, status, replayErr, crashes>>

\* An append whose process died under it is never answered.
Answer == {"none", "ok", "error", "lost"}
Cell == [seq : 1..MaxAppends, pos : 1..(HeaderSize + MaxBody)]

TypeOK ==
    /\ syncOnWrite \in BOOLEAN
    /\ file \in Seq(Cell)
    /\ synced \in 0..Len(file)
    /\ appends \in Seq([body : 1..MaxBody, answer : Answer])
    /\ pending \in 0..Len(appends)
    /\ status \in {"open", "closed", "down"}
    /\ replayErr \in BOOLEAN
    /\ crashes \in 0..MaxCrashes

Init ==
    /\ syncOnWrite \in BOOLEAN
    /\ file = <<>> /\ synced = 0
    /\ appends = <<>> /\ pending = 0
    /\ status = "open" /\ replayErr = FALSE /\ crashes = 0

Size(s) == HeaderSize + appends[s].body
EncodeRecord(s, body) == [p \in 1..(HeaderSize + body) |-> [seq |-> s, pos |-> p]]
-----------------------------------------------------------------------------
(* Reading the log back. *)

\* The header at offset o holds the lengths of a record.
LengthsAt(f, o) == f[o + HeaderSize].pos = HeaderSize
\* The end of the record whose header is at offset o.
EndAt(f, o) == o + Size(f[o + HeaderSize].seq)

\* Mutant: the checksum is not compared.
RecordAtNoCRC(f, o) ==
    /\ o + HeaderSize <= Len(f)
    /\ LengthsAt(f, o)
    /\ EndAt(f, o) <= Len(f)
\* A whole record with a matching checksum is at offset o.
RecordAt(f, o) ==
    /\ o + HeaderSize <= Len(f)
    /\ LengthsAt(f, o)
    /\ EndAt(f, o) <= Len(f)
    /\ SubSeq(f, o + 1, EndAt(f, o)) =
         EncodeRecord(f[o + HeaderSize].seq, appends[f[o + HeaderSize].seq].body)

\* The records ReplayWAL hands to applyFn, and where it stops.
ReplayWAL(f) ==
    LET from[o \in 0..Len(f)] ==
          IF RecordAt(f, o)
          THEN LET rest == from[EndAt(f, o)]
               IN  [records |-> <<f[o + HeaderSize].seq>> \o rest.records, stop |-> rest.stop]
          ELSE [records |-> <<>>, stop |-> o]
    IN  from[0]

\* Mutant: io.EOF on the header is not told from a failed read.
ErrorsAtAlways(f, o) ==
    IF o + HeaderSize > Len(f) THEN {TRUE} ELSE BOOLEAN
\* Whether the loop may stop at offset o with an error.  A short header or
\* body is the end of the log; lengths read from other bytes ask for a body
\* that either ends within the file and fails its checksum, or does not.
ErrorsAt(f, o) ==
    CASE o + HeaderSize > Len(f) -> {FALSE}
      [] o + HeaderSize <= Len(f) /\ ~LengthsAt(f, o) -> BOOLEAN
      [] o + HeaderSize <= Len(f) /\ LengthsAt(f, o) -> {EndAt(f, o) <= Len(f)}
-----------------------------------------------------------------------------
\* Mutant: the record counts as written before the fsync.
AppendNoSync(body) ==
    LET s == Len(appends) + 1
    IN  /\ status = "open" /\ pending = 0 /\ s <= MaxAppends
        /\ file' = file \o EncodeRecord(s, body)
        /\ appends' = Append(appends, [body |-> body, answer |-> "ok"])
        /\ UNCHANGED <<pending, syncOnWrite, synced, status, replayErr, crashes>>
\* Mutant: the file is opened without O_APPEND, and written from its start.
AppendAtStart(body) ==
    LET s == Len(appends) + 1
    IN  /\ status = "open" /\ pending = 0 /\ s <= MaxAppends
        /\ file' = EncodeRecord(s, body) \o SubSeq(file, HeaderSize + body + 1, Len(file))
        /\ appends' = Append(appends, [body |-> body,
                                       answer |-> IF syncOnWrite THEN "none" ELSE "ok"])
        /\ pending' = IF syncOnWrite THEN s ELSE 0
        /\ UNCHANGED <<syncOnWrite, synced, status, replayErr, crashes>>
\* Append, up to the fsync.
AppendRecord(body) ==
    LET s == Len(appends) + 1
    IN  /\ status = "open" /\ pending = 0 /\ s <= MaxAppends
        /\ file' = file \o EncodeRecord(s, body)
        /\ appends' = Append(appends, [body |-> body,
                                       answer |-> IF syncOnWrite THEN "none" ELSE "ok"])
        /\ pending' = IF syncOnWrite THEN s ELSE 0
        /\ UNCHANGED <<syncOnWrite, synced, status, replayErr, crashes>>

\* Append when the write is cut short: the part that was written stays.
AppendCut(body) ==
    LET s == Len(appends) + 1
    IN  /\ status = "open" /\ pending = 0 /\ s <= MaxAppends
        /\ \E n \in 0..(HeaderSize + body - 1) :
               file' = file \o SubSeq(EncodeRecord(s, body), 1, n)
        /\ appends' = Append(appends, [body |-> body, answer |-> "error"])
        /\ UNCHANGED <<syncOnWrite, synced, pending, status, replayErr, crashes>>

\* The fsync of Append, and what it answers.
AppendSync ==
    /\ pending # 0
    /\ pending' = 0
    /\ \/ /\ synced' = Len(file)
          /\ appends' = [appends EXCEPT ![pending].answer = "ok"]
       \/ /\ UNCHANGED synced
          /\ appends' = [appends EXCEPT ![pending].answer = "error"]
    /\ UNCHANGED <<syncOnWrite, file, status, replayErr, crashes>>

Sync ==
    /\ status = "open" /\ pending = 0
    /\ synced' = Len(file)
    /\ UNCHANGED <<syncOnWrite, file, appends, pending, status, replayErr, crashes>>

\* Recover, on a log in use: it reads as ReplayWAL does and leaves the log as it
\* was, but returns no record at all with an error.  That it then leaves the file
\* position where the error was is of no effect, since O_APPEND ignores it.
Recover ==
    /\ status = "open" /\ pending = 0
    /\ replayErr' \in ErrorsAt(file, ReplayWAL(file).stop)
    /\ UNCHANGED <<syncOnWrite, file, synced, appends, pending, status, crashes>>

\* Close syncs; a second Close, and Append or Sync after it, change nothing.
Close ==
    /\ status = "open" /\ pending = 0
    /\ status' = "closed"
    /\ synced' \in {synced, Len(file)}
    /\ UNCHANGED <<syncOnWrite, file, appends, pending, replayErr, crashes>>

\* The process or the machine dies.
Crash ==
    /\ status # "down" /\ crashes < MaxCrashes
    /\ crashes' = crashes + 1
    /\ status' = "down"
    /\ \E n \in synced..Len(file) : file' = SubSeq(file, 1, n) /\ synced' = n
    /\ appends' = IF pending = 0 THEN appends ELSE [appends EXCEPT ![pending].answer = "lost"]
    /\ pending' = 0
    /\ UNCHANGED <<syncOnWrite, replayErr>>

\* Mutant: the file is opened with O_TRUNC.
OpenWALTruncated ==
    /\ status # "open"
    /\ status' = "open"
    /\ replayErr' \in ErrorsAt(file, ReplayWAL(file).stop)
    /\ file' = <<>>
    /\ UNCHANGED <<syncOnWrite, synced, appends, pending, crashes>>
\* OpenWAL and the replay that follows it: the file is left as it was found.
OpenWAL ==
    /\ status # "open"
    /\ status' = "open"
    /\ replayErr' \in ErrorsAt(file, ReplayWAL(file).stop)
    /\ UNCHANGED <<syncOnWrite, file, synced, appends, pending, crashes>>

Next ==
    \/ \E body \in 1..MaxBody : AppendRecord(body)
    \/ \E body \in 1..MaxBody : AppendCut(body)
    \/ AppendSync
    \/ Sync
    \/ Recover
    \/ Close
    \/ Crash
    \/ OpenWAL

Spec == Init /\ [][Next]_vars
-----------------------------------------------------------------------------
Cells(s) == {k \in DOMAIN file : file[k].seq = s}
\* Some of the s-th record is in the file and some of it is missing.
Torn(s) == Cells(s) # {} /\ \E p \in 1..Size(s) : \A k \in Cells(s) : file[k].pos # p

\* ReplayWAL returns, in the order of the appends, the records in the file up
\* to the first one of which a part is missing, and nothing that was never
\* appended, however many torn writes and crashes there were.
ReplayUpToTear ==
    ReplayWAL(file).records =
        SetToSortSeq({s \in DOMAIN appends :
                        Cells(s) # {} /\ \A t \in 1..s : ~Torn(t)}, <)

\* With SyncOnWrite, a record Append has answered for is replayed after any
\* crash, provided no earlier write was torn.
AckedBeforeTear ==
    syncOnWrite =>
        \A s \in DOMAIN appends :
            appends[s].answer = "ok" /\ (\A t \in 1..(s - 1) : ~Torn(t))
                => s \in ToSet(ReplayWAL(file).records)

\* ReplayWAL and Recover return an error only for a log that was written past a
\* torn record: the plain end of the log, and a record cut short there by a crash
\* or by a failed write, are not errors.
ErrorMeansTear ==
    [][(OpenWAL \/ Recover) /\ replayErr' =>
        \E s, t \in DOMAIN appends : s < t /\ Torn(s) /\ Cells(t) # {}]_vars

\* The log as its readers see it: what was synced is never lost, and an append
\* adds its own record at the end or nothing.
Log == INSTANCE DurableLog WITH
          Entry <- 1..MaxAppends,
          entries <- ReplayWAL(file).records,
          durable <- Len(ReplayWAL(SubSeq(file, 1, synced)).records)
ImplementsLog == Log!Spec

\* "Zero data loss guarantee even on abrupt power loss": with SyncOnWrite, and
\* no write failing, a record Append has answered for is replayed.
AckedIsDurable ==
    syncOnWrite /\ (\A s \in DOMAIN appends : appends[s].answer # "error") =>
        \A s \in DOMAIN appends :
            appends[s].answer = "ok" => s \in ToSet(ReplayWAL(file).records)
=============================================================================
