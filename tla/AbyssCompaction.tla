--------------------------- MODULE AbyssCompaction ---------------------------
(***************************************************************************)
(* The storage engine put together: a MemTable that is walked into table   *)
(* files (BuildSSTable over an Iterator) while it takes inserts, and the   *)
(* compaction of those files (pkg/storage/compaction.go).                  *)
(*                                                                         *)
(* CompactL0ToL1 builds the new table and then removes the old files one   *)
(* by one; l0, l1 and left are the whole files on disk, so that what holds *)
(* of them after every step holds after a crash at any point.  A build     *)
(* that fails leaves a file that nothing refers to, and no table.          *)
(***************************************************************************)
EXTENDS SoulMemTable, DeepnestSSTable

CONSTANTS
    Sentinel,   \* the key "__abyss_compaction_sentinel__"
    MaxFlushes  \* bound: the tables built from the MemTable, and no insert after them

ASSUME CompactionConstants == Sentinel \in Nat \ Key /\ MaxFlushes \in Nat

VARIABLES
    l0,         \* the Level 0 files, oldest first
    l1,         \* the Level 1 files, oldest first
    left,       \* Level 0 files that were compacted and could not be removed
    toRemove,   \* how many files CompactL0ToL1 has still to remove
    flushes,    \* how many tables were built from the MemTable
    newest,     \* for each key, its record in the last table that had one, or Nil
    unkept      \* the keys whose newest record a compaction did not carry over

diskVars == <<l0, l1, left, toRemove, flushes, newest, unkept>>
vars == <<memVars, iter, diskVars>>

TypeOK ==
    /\ node \in [Key -> Node \cup {Nil}]
    /\ forward \in [{head} \cup Key -> [1..MaxLevel -> Key \cup {Nil}]]
    /\ level \in 1..MaxLevel /\ sizeBytes \in Nat
    /\ \A n \in {head} \cup Key, i \in 1..MaxLevel : forward[n][i] # Nil => i <= level
    /\ flushes \in 0..MaxFlushes /\ toRemove \in 0..Len(l0)
    /\ unkept \subseteq Key

Keys(recs) == {recs[i].key : i \in DOMAIN recs}
RecordOf(recs, k) == recs[CHOOSE i \in DOMAIN recs : recs[i].key = k]
Records(file) == [i \in DOMAIN file.data |-> file.data[i].rec]
InKeyOrder(recs) == SetToSortSeq(recs, LAMBDA a, b : a.key < b.key)

\* The records of a table: some keys, some of them deleted, with values of one length.
Recs(keys, deleted, len) ==
    InKeyOrder({[key |-> k, value |-> IF k \in deleted THEN 0 ELSE len, tombstone |-> k \in deleted] : k \in keys})

NoTables ==
    /\ l0 = <<>> /\ l1 = <<>> /\ newest = [k \in Key |-> Nil]
    /\ flushes = 0 /\ inserts = 0

\* Two Level 0 tables from earlier MemTables, and a Level 1 table if there was
\* an earlier compaction, beside a MemTable that takes no more inserts.
EarlierTables ==
    /\ \E keys1, keys2, keys3 \in SUBSET Key :
        \E deleted2 \in SUBSET keys2, deleted3 \in SUBSET keys3 :
            LET recs == <<Recs(keys1, {}, 1), Recs(keys2, deleted2, 2), Recs(keys3, deleted3, 3)>>
                has(k) == {j \in 1..3 : k \in Keys(recs[j])}
            IN  /\ l1 = IF keys1 = {} THEN <<>> ELSE <<BuildSSTable(recs[1])>>
                /\ l0 = <<BuildSSTable(recs[2]), BuildSSTable(recs[3])>>
                /\ newest = [k \in Key |-> IF has(k) = {} THEN Nil ELSE RecordOf(recs[Max(has(k))], k)]
    /\ flushes = MaxFlushes /\ inserts = MaxInserts

Init ==
    /\ MemInit
    /\ left = <<>> /\ toRemove = 0 /\ unkept = {}
    /\ NoTables \/ EarlierTables
-----------------------------------------------------------------------------
\* HasNext is false, or reads so, and BuildSSTable ends the table.
Flush ==
    /\ iter # Nil /\ iter.read = "node" /\ Nil \in ReadLink
    /\ l0' = Append(l0, BuildSSTable(iter.walked))
    /\ flushes' = flushes + 1
    /\ newest' = [k \in Key |-> IF k \in Keys(iter.walked) THEN RecordOf(iter.walked, k) ELSE newest[k]]
    /\ unkept' = unkept \ Keys(iter.walked)
    /\ iter' = Nil
    /\ UNCHANGED <<memVars, l1, left, toRemove>>

\* BuildSSTable fails to create, write or sync the file.
FlushFails ==
    /\ iter # Nil
    /\ iter' = Nil
    /\ UNCHANGED <<memVars, diskVars>>
-----------------------------------------------------------------------------
IndexKeys(file) == {file.index[j].key : j \in DOMAIN file.index}

\* entryMap: each key of the indexes with the answer of the last reader to find
\* it; a lookup that fails is skipped.
Entries(readers) ==
    LET finders(k) == {j \in DOMAIN readers : k \in IndexKeys(readers[j])
                                              /\ Get(readers[j], k) \cap {NotFound, Corrupted} = {}}
    IN  UNION {Get(readers[Max(finders(k))], k) : k \in {q \in Key : finders(q) # {}}}

\* What goes into the Level 1 table: no tombstones, and never nothing.
Retained(readers) ==
    LET kept == {r \in Entries(readers) : ~r.tombstone}
        sentinel == [key |-> Sentinel, value |-> 2, tombstone |-> FALSE]
    IN  InKeyOrder(IF kept = {} THEN {sentinel} ELSE kept)

\* The keys whose newest record the merge misses: it is not in the index of its
\* table, or it is a tombstone and an earlier Level 1 file, not read, has the key.
NotCarried ==
    LET holders(k) == {j \in DOMAIN l0 : k \in Keys(Records(l0[j]))}
        last(k) == l0[Max(holders(k))]
    IN  {k \in Key : /\ holders(k) # {}
                     /\ \/ k \notin IndexKeys(last(k))
                        \/ /\ RecordOf(Records(last(k)), k).tombstone
                           /\ \E f \in ToSet(l1) : k \in Keys(Records(f))}

\* CompactL0ToL1 up to the Level 1 table, built and synced.  A build that fails
\* returns before any file is removed and changes nothing.
CompactBuild ==
    /\ toRemove = 0 /\ l0 # <<>>
    /\ l1' = Append(l1, BuildSSTable(Retained([j \in DOMAIN l0 |-> OpenSSTable(l0[j])])))
    /\ toRemove' = Len(l0)
    /\ unkept' = unkept \cup NotCarried
    /\ UNCHANGED <<memVars, iter, l0, left, flushes, newest>>

\* Mutant: the files are removed from the newest to the oldest.
CompactRemoveNewestFirst ==
    /\ toRemove > 0
    /\ l0' = RemoveAt(l0, toRemove)
    /\ toRemove' = toRemove - 1
    /\ UNCHANGED <<memVars, iter, l1, left, flushes, newest, unkept>>
\* One reader is closed and its file removed.  The error of os.Remove is dropped:
\* a file that could not be removed stays, without a reader, and the loop goes on.
CompactRemove ==
    /\ toRemove > 0
    /\ l0' = Tail(l0)
    /\ left' \in {left, Append(left, Head(l0))}
    /\ toRemove' = toRemove - 1
    /\ UNCHANGED <<memVars, iter, l1, flushes, newest, unkept>>

Next ==
    \/ Insert /\ ~(ins = Nil /\ flushes = MaxFlushes) /\ UNCHANGED diskVars
    \/ Iterator /\ flushes < MaxFlushes /\ UNCHANGED diskVars
    \/ IteratorNext /\ UNCHANGED diskVars
    \/ ReadValue /\ UNCHANGED diskVars
    \/ ReadTombstone /\ UNCHANGED diskVars
    \/ Flush
    \/ FlushFails
    \/ CompactBuild
    \/ CompactRemove

Spec == Init /\ [][Next]_vars
-----------------------------------------------------------------------------
\* The one answer a table should give for a key.
Stored(recs, k) == IF k \in Keys(recs) THEN RecordOf(recs, k) ELSE NotFound

\* A lookup in a table just built finds exactly the records the build was given:
\* the filter loses no key on its way through the file, and the index and the
\* scan from it meet at the ends of blocks, before the first key and after the last.
TableAnswersExactly ==
    [][flushes' > flushes =>
        \A k \in Key : Get(OpenSSTable(Last(l0')), k) = {Stored(iter.walked, k)}]_vars

\* A table built beside inserts answers for every key that no insert touched during
\* the walk as the MemTable did when the walk began, found or not, and holds every
\* other key that was there.  Only if the walk read the link of a new node before it
\* was set, and so took that node for the last, are the keys after it missing.
FlushAnswersAsMemTable ==
    [][flushes' > flushes =>
        LET was(k) == IF iter.since[k] = Nil THEN NotFound
                      ELSE [key |-> k, value |-> iter.since[k].value,
                            tombstone |-> iter.since[k].tombstone]
            cut == iter.curr \in iter.touched /\ forward[iter.curr][1] # Nil
            answers(k) == Get(OpenSSTable(Last(l0')), k)
        IN  \A k \in Key :
                \/ cut /\ k > iter.curr
                \/ k \in iter.touched /\ (iter.since[k] # Nil => answers(k) # {NotFound})
                \/ answers(k) = {was(k)}]_vars

\* A table is built from a walk beside which there was no insert.  Bit rot is looked
\* at in such tables only: one built beside inserts has no other kinds of records.
QuietFlush == flushes' > flushes /\ iter.touched = {}

\* With a record's contents or lengths, the key or the offset of an entry of the index
\* or the filter changed, a lookup may fail or miss the key but never answers with a
\* record that was not stored under it.
RotNeverAnswersWrongly ==
    [][QuietFlush =>
        LET file == Last(l0')
        IN  \A f \in RotContents(file) \cup RotLengths(file) \cup RotIndex(file, Key) \cup RotFilter(file) :
                Opens(f) =>
                    LET reader == OpenSSTable(f)
                    IN  \A k \in Key : Get(reader, k) \subseteq
                            {Stored(iter.walked, k), NotFound, Corrupted, Panicked}]_vars

\* "Full-Stack CRC32 Bit-Rot Protection": bytes changed in a record, other than
\* its lengths, make a lookup of a stored key fail or leave it right; the key is
\* never reported absent.
RotInRecordIsReported ==
    [][QuietFlush =>
        \A f \in RotContents(Last(l0')), k \in Keys(iter.walked) :
            Get(OpenSSTable(f), k) \subseteq {Stored(iter.walked, k), Corrupted}]_vars

Live(r) == IF r = Nil \/ r.tombstone THEN Nil ELSE r
\* What a sequence of files answers for a key, the last file first.
Answer(files, k) ==
    LET finders == {j \in DOMAIN files : Get(OpenSSTable(files[j]), k) # {NotFound}}
    IN  IF finders = {} THEN Nil
        ELSE CHOOSE r \in Get(OpenSSTable(files[Max(finders)]), k) : TRUE
\* What the files on disk answer, Level 0 before Level 1.
View(k) == Answer(l1 \o left \o l0, k)

\* "latest entry per key wins": at every step of a compaction, and so after a
\* crash in it, the files answer with the newest record of a key, or with nothing
\* if that is a tombstone, for every key whose newest record the merge reads.  Only
\* a key in a file that could not be removed may be answered from that file.
CompactionKeepsIndexed ==
    \A k \in Key \ unkept :
        \/ Live(View(k)) = Live(newest[k])
        \/ Answer(left, k) # Nil /\ View(k) = Answer(left, k)

\* "merges multiple overlapping Level 0 SSTable files into a single
\* non-overlapping Level 1 SSTable, purging obsolete tombstones": a key whose
\* newest record is not a tombstone keeps it through a compaction.
CompactionKeepsLive == \A k \in Key : Live(newest[k]) # Nil => View(k) = newest[k]
=============================================================================
