# HallownestKV in TLA+

TLA+ models of HallownestKV, the TLC configurations that check them on small
instances, and theorems about them with proofs checked by TLAPS. `PROJECT.json`
lists the components, the runs, the lines each definition models, the hazards
of the code and the theorems.

## The system

| part | code | state | operations that change it |
|---|---|---|---|
| Radiance, consensus | `pkg/consensus` | term, vote, role, log, commit and apply index, a leader's `nextIndex` and `matchIndex` | election timer, heartbeat timer, `RequestVote`, `AppendEntries`, the two reply handlers, `Submit`, `Kill` |
| Bench, write-ahead log | `pkg/bench/wal.go` | one file, the closed flag | `OpenWAL`, `Append`, `Sync`, `Close`; `ReplayWAL` and `Recover` read it |
| Soul, MemTable | `pkg/storage/memtable.go` | a skip list of keys, its size | `Put`, `Delete`; `Get` and the iterator read it |
| Deepnest, SSTable | `pkg/storage/sstable.go` | an immutable file with sparse index and filter | `BuildSSTable`, `OpenSSTable`, `Close`; `Get` |
| Lumafly, Bloom filter | `cpp/src/lumafly_bloom.cpp` | a bit array | add, serialise, load; contains |
| Abyss, compaction | `pkg/storage/compaction.go` | a set of tables | `CompactL0ToL1` |
| Stagway, server | `pkg/network/server.go` | `running`, the listener | `Start`, `Stop`, `PutGeo`, `FocusTombstone`; `GetGeo` |
| hallownestd | `cmd/hallownestd/main.go` | the process | start with replay, HTTP gateway, apply goroutine, shutdown |
| hallownest-cli | `cmd/hallownest-cli` | none | one request over the TCP protocol |

A write goes from a connection (or the HTTP gateway) to `PutGeo` or
`FocusTombstone`, which under the shared lock of the server calls
`RaftNode.Submit`, `WAL.Append` and `MemTable.Put` or `Delete` one after the
other and answers. Raft replicates in the background and hands committed entries
to a goroutine of the daemon that writes the same MemTable. Reads go to the
MemTable. On start the daemon replays the log into a new MemTable. SSTables and
compaction are a library that the daemon does not use yet.

What makes this hard: every remote call is three critical sections with other
handlers in between; replies come late and out of order and overwrite
`nextIndex` and `matchIndex`; nothing of Raft's state is on disk; a crash can
stop a write in the middle of a record; three structures are written one after
the other with only a shared lock; the shutdown closes the log while the HTTP
gateway is still serving; committed entries are sent on a bounded channel with
the Raft lock held; and a table is built by a walk that takes no lock.

## Modules

- `RadianceRaft`: the consensus layer. One action for each critical section of
  `RaftNode.mu`.
- `MCRadianceRaft`: symmetry and a view of it for TLC.
- `RadianceRaftRestart`: `RadianceRaft` with nodes that crash and start again
  through `NewRaftNode`.
- `RadianceRaftInvariant`: the inductive invariant of `RadianceRaft`.
  `RadianceRaftLinks`: lemmas about it. `RadianceRaftElection`, `RadianceRaftLog`,
  `RadianceRaftChoice`, `RadianceRaftCommit`: every step keeps its parts.
  `RadianceRaftProofs`: the theorems.
- `DurableLog`: what a write-ahead log promises.
- `BenchWAL`: the log file, with torn writes, fsync and crashes; implements
  `DurableLog`.
- `StagwayServer`: the request handlers and the life of the daemon around them.
  `StagwayServerProofs`: its invariants, proved.
- `NodeLog`: what one Raft node promises the daemon around it. `RadianceRaftNode`:
  every node of `RadianceRaft` keeps that promise.
- `HallownestNode`: handlers, Raft node, apply channel, its reader and the
  shutdown, composed over `NodeLog`. `HallownestNodeProofs`: what the reader puts and
  what the MemTable settles on, proved.
- `SortedMap`: a map in which an insert changes its own key to its own record in one
  step. `SoulMemTable`: the skip list, store by store, and its iterator; implements
  `SortedMap`.
- `LumaflyBloom`, `DeepnestSSTable`: the filter and the table file, as operators.
- `AbyssCompaction`: a MemTable walked into tables, and their compaction, over the
  three modules above. `MCAbyssCompaction`: hash values for TLC.

### RadianceRaft

| action | code |
|---|---|
| `runElectionLoop(i)` | a tick after the deadline: `startElection` and, for a node without peers, `becomeLeader` |
| `RequestVote(m, j)` | the handler at `j` |
| `RequestVoteReplied(m)` | the critical section after `SendRequestVote`, with `becomeLeader` and its first broadcast |
| `runHeartbeatLoop(i)` | a heartbeat tick: `broadcastHeartbeats` |
| `Submit(i, cmd)` | `Submit`, broadcast included |
| `AppendEntriesStale(m)`, `AppendEntries(m)` | the handler, for a call of an old term and otherwise |
| `AppendEntriesReplied(m)` | the critical section after `SendAppendEntries`, with `checkAdvanceCommitIndex` and `applyLogs` |
| `Kill(i)` | `Kill`: it stops the timers and nothing else |

Calls and replies are kept in sets and never removed. Not handling one is losing
it. Handling an `AppendEntries` call again is what one of the identical calls
`runHeartbeatLoop` sends does; handling a reply again is handling the reply of such
a call. So the sets have every loss, delay, repetition and reordering the
goroutines can produce. A vote request goes to each peer once in an election and
is answered once; a vote counted twice is the same vote, because the votes are
kept as the set of voters.

The code keeps a dummy entry at index 0; the model's logs start at 1. `log`
therefore has `r.log` without its first element, and `lastApplied` is the length
of `applied`, the entries sent on `applyCh`. The clock is left out: any node that
is not a leader may time out at any time. Here the send in `applyLogs` does not
block; what happens when it does is in `HallownestNode`.

### BenchWAL

The file is a sequence of cells. A record has one cell for its checksum, one for
its lengths and flag, and one for each unit of key and value. A cell knows the
append it comes from and its place there. The checksum is taken to be perfect: it
matches exactly when the cells it covers are those of one record. When a replay
reads cells of a body as lengths, what they ask for is anything, and it either
fails its checksum or reaches the end of the file.

`AppendRecord` writes; with `SyncOnWrite`, `AppendSync` follows and may fail;
`AppendCut` is a write cut short. `WAL.mu` is held throughout, so no other
operation is between the two; a crash can be. `Crash` keeps what was synced and
any prefix of what was written after it. `OpenWAL` includes the replay that
`main` makes next, and leaves the file alone, as the code does. `Recover` reads
the file of an open log in the same way; of its answer the model keeps whether it
is an error.

### StagwayServer

A connection has one request at a time, because `handleConnection` reads the next
one after answering. A request's place is `pc`: `lock` once it has been read
(`RequestWrite`, `RequestRead`), then `submit`, `append`, `insert`, `return` for a
write, `get` for a read; the handler holds the read side of the server's mutex in
all but the first. `Begin` is the part `PutGeo` and `FocusTombstone` share, with
its early return, and `sendWriteResponse` the answer.
`Signal`, `Stop`, `WalClose`, `Exit` are the deferred calls of `main` in their
order; `Kill` is between them and changes nothing a handler sees. `sync.RWMutex`
keeps new readers out once a writer waits. `raft = "nil"` is the standalone mode
of the tests. The log is `BenchWAL` with `SyncOnWrite`, seen from outside: a
failed append, or one the process died in, leaves its record, part of it
(`Torn`), or nothing.

`before`, `acked`, `refused` and `ioFailed` are history variables: what had been
answered when a write began, what has been answered with success and with failure,
and what the disk refused.

The handlers and the replay are all that writes the MemTable here. The goroutine of
`main` that applies committed entries writes it without the log. It receives nothing
from the node without peers that `main` creates (`raft_single`), but with peers
`VisibleIsLogged` and `NeverOlderThanAcked` would not hold of what it puts; it is in
`HallownestNode`.

### HallownestNode

| action | code |
|---|---|
| `PutGeo(c)`, `Submit(c)`, `Insert(c)` | a write handler: the check of `running`, `RaftNode.Submit`, `MemTable.Put` with the answer |
| `Replicate`, `Commit`, `RoleChange` | `AppendEntries`, `checkAdvanceCommitIndex`, elections, as `NodeLog` allows them |
| `ApplySend` | one round of the loop of `applyLogs`, which waits while `applyCh` is full |
| `Receive`, `Apply` | the goroutine of `main` that reads `applyCh` |
| `Signal`, `Stop`, `Kill` | the shutdown |

`RaftNode.mu` is held from the moment the commit index moves until everything up
to it has been sent; `MuFree` says that it is not. The steps of the Raft node are
those of `NodeLog`: any node of any cluster, and not only the node without peers
that `main` creates today, whose channel stays empty (see `raft_single`). `Replicate`
is one new entry of another leader at a time, where one call may bring several, and a
write of this node that was cut does not come back from another leader. `put` and
`late` are history variables. `late` is set by a handler that puts its write in the
MemTable after the reader has put it, or after it was cut from the log. The code does
this, and the write then stays over newer ones for good: `SettlesOnLog` speaks of the
other histories only.

### Storage

In `SoulMemTable` an insert has a step for every store that a goroutine without the
lock can see: `UpdateValue` then `UpdateTombstone` for a key that is there; for one
that is not, `NewNode`, then its lowest link (`SetForward`), then the link to it
(`Link`), and last the links above, the size and the end (`LinkAbove`). `Get` waits for
the lock and is an operator. `ins` has the key, value and tombstone of the insert that
holds the lock; `SortedMap` has them as `pending`, so that an insert that is lost,
applied in part or applied to another key is no step of it.

The iterator has no lock after its creation. `IteratorNext`, `ReadValue` and
`ReadTombstone` are the reads of the loop of `BuildSSTable` in their order, with
stores of inserts in between, so that a record may have the value of one insert and
the tombstone of another. The reads race with the stores: of a new node whose insert
still has the lock, a walk may also find the value, the tombstone or the link not yet
stored. A walk that reads the link so takes the node for the last one. `Flush` ends
the table of any walk, this one included. `since` and `touched` are history: what `Get`
answered when the walk began, and the keys inserted under since. What a table then
owes is `FlushAnswersAsMemTable`: the keys not touched are answered as they were, and
only the keys after a link read too early may be missing.

`DeepnestSSTable` keeps the byte offsets, because the sparse index, the ends of
blocks and the scan depend on them. `Get` gives the set of the answers a lookup
may have. `RotContents`, `RotLengths`, `RotIndex` and `RotFilter` are the ways one
part of a file can differ from what was written; they are looked at in tables of walks
with no insert beside them. The hashes of `LumaflyBloom` are
given numbers; what is made of them is as in the code.

In `AbyssCompaction`, `CompactBuild` is `CompactL0ToL1` up to the new table, and
`CompactRemove` the removal of one old file. `os.Remove` may fail, which the code
does not notice: the file is then in `left`, on disk and without a reader. The files
are whole after every step, so an invariant of them is one of the disk after a crash
there. No code reads tables of several levels together; `View` reads them newest
first, Level 0 before Level 1. `unkept` is a history variable: the keys whose newest
record the merge did not read, or whose purged tombstone an earlier Level 1 file
needed. A file in `left` is older than the others of Level 0 and may be older than
Level 1, and still comes before Level 1: a key in it may be answered from it, with
an old record or one that was deleted. `CompactionKeepsIndexed` allows that and
nothing else.

## Runs

| run | instance | what it checks |
|---|---|---|
| `raft_three` | 3 nodes, 2 elections, 1-entry logs, heartbeats, 1 killed node | election safety, state machine safety, committed entries on a majority, `matchIndex` sound, commit index monotonic |
| `raft_logs` | 3 nodes, 2 elections, 2-entry logs | log matching, leader completeness, applied entries in the log, `nextIndex` in bounds, every node implements `NodeLog` |
| `raft_live` | 2 nodes, 2 elections, 2-entry logs, heartbeats, fairness | an accepted entry is committed everywhere or the leader is deposed; a call's commit index is covered by its entries |
| `raft_single` | 1 node, fairness | violated: an accepted entry is never committed |
| `raft_restart` | 3 nodes, 1 restart | violated: a committed entry is lost |
| `wal` | 3 appends of 1 or 2 cells, 2 crashes | replay returns the records up to the first tear; acknowledged records before a tear survive; errors, of a replay or of `Recover`, only for a tear with a record behind it; refinement of `DurableLog` |
| `wal_durable` | 2 appends, 1 crash | violated: a record acknowledged after a crash is unreadable |
| `server` | 2 connections, 2 writes, 1 crash, any number of reads, shutdowns and restarts | log before MemTable, nothing acknowledged goes unlogged through the shutdown (writes the disk refused are exempt: the handler drops the error and acknowledges them), no older write over an acknowledged one, a refused write leaves no trace, every request is answered, a shutdown ends |
| `server_replay` | 2 connections, 2 writes | violated: a replay yields another value than the one that was served |
| `storage` | 3 keys, 2 levels, 4 inserts, 1 table from a walk; or 2 tables over at most 1 earlier one, compacted | the skip list is a sorted map, its size is exact, a walk misses no key, a table answers with what it was built from, as the MemTable did for keys no insert touched, and never wrongly with one part changed, compaction keeps what it reads through a crash and failed removals |
| `compaction_keys` | 2 tables over at most 1 earlier one | violated: a key outside the sparse index is lost |
| `node` | 2 connections, 2 writes, 2 writes of other leaders, a channel of 1, fairness | the reader puts the committed log, the MemTable settles on it, every handler returns, a shutdown ends |

Bounds. Two elections are enough for two leaders with different logs, hence for
conflicts, truncation, stale leaders and replies of an earlier term; two entries
for a log to be ahead by more than one and for a leader to back up `nextIndex`;
one command value, because entries differ by term and index. Two elections are
not enough for the rule that a leader commits by counting only entries of its own
term: the shortest history that needs it has four, and `raft_logs` passes with
the rule dropped. Three nodes with four elections and one entry ran for ten
minutes without finishing, so no run shows that rule to matter; the proofs use it.
`MaxCalls` limits the heartbeats. In `raft_logs` and `raft_restart` it is 0, so calls
come from `becomeLeader` and `Submit` only; in the other runs it is never reached.

In `wal`, two crashes let a record be torn, the log be written behind the tear, and
another crash follow; three appends put a record before, in and after a tear. In
`server` one crash can tear the log, the other write then goes behind the tear, and
the next orderly restart replays it. What more writes and crashes could do is left to
the proofs.

In `storage`, three keys with an index entry for every second one give a block of
two, a block of one and lookups before, between and after their keys; two levels
and four inserts give every shape of a list of three and one overwrite; the hashes
are chosen so that the filter has false positives. The inserts and the compaction
start from different initial states, since a compaction does not touch the
MemTable in use; no insert begins after the last flush, for the same reason. The
earlier tables are every choice of keys and tombstones. In
`node` a channel of one is full after one send, so that the sender blocks with the
lock held; a longer channel only blocks later.

`Symmetry` permutes the nodes, which no definition tells apart, and is used in
runs with no liveness property. `LiveView` (see the comment there) leaves out
what no later step and no property of those runs can read.

Deadlock is not checked in the Raft runs: with the bounds of the model used up, and
nothing left to deliver, a cluster may be at rest. Nor is it in `storage` and
`compaction_keys`, which rest when the inserts and tables are used up, and in `node`, which ends
with the process. It is checked in the others.

### Fairness

`raft_live` and `raft_single` assume that timers tick, that the transport
delivers the calls a leader is sending now, and that replies are handled. The
heartbeat and the delivery need strong fairness: in the model the reply of an old
call can be handled over and over, each time moving `nextIndex` back, so that the
state in which the newest call can be delivered comes and goes. In the program
every old call has one reply, so it comes and stays. Elections have no fairness:
nothing forces a timeout.

`server` assumes that a handler whose request has been read goes on when it can,
the wait for the lock included, and that `main` goes on when it can. Both are
goroutines of one process, and `sync.RWMutex` starves neither side. Requests have
no fairness, and may come for ever.

`node` assumes that handlers, the sender, the reader and `main` go on when they
can, which the Go scheduler gives them, and that a lock that is free is granted.
Elections, replication and commits have no fairness.

### What the violated runs show

- `raft_single`: `checkAdvanceCommitIndex` is called only for a peer's reply. The
  daemon's node has no peers, so its commit index stays 0 and its apply
  goroutine receives nothing; clients see their writes because the handlers
  write the MemTable themselves.
- `raft_restart`: `PRD.md` asks for term, vote and log on disk; the code keeps
  them in memory.
- `wal_durable`: `OpenWAL` does not cut off a torn record.
- `server_replay`: `WAL.Append` and `MemTable.Put` are two critical sections, and
  the lock around them is shared.
- `compaction_keys`: the merge loops over `reader.index`, the sparse index, where
  its comment speaks of scanning the data block, and then deletes the tables.

## Proofs

### RadianceRaft

The theorems hold for every finite set of nodes, any commands and any bounds
(`ServerAssumption`, `BoundAssumption`). All of them follow from one inductive
invariant, `SafetyInv` (`RadianceRaftInvariant`), whose parts are proved in order,
each with those before it:

- `IndexInv` (`RadianceRaftElection`). The new `nextIndex` comes from a reply, the
  reply from a call, and the call from the log the leader had when it sent it. So the
  last index a call or a reply speaks of is within the log of the leader that made
  the call for as long as it leads in that term. `Evolves` states what every step
  keeps: terms do not decrease, a leader's log does not shrink within its term.
- `VoteInv` (`RadianceRaftElection`). `Voted(j, i, t)` says that `j` has given its vote
  of term `t` to `i`: a reply says so, or `j` is `i` and asked for votes. A vote is
  remembered in `votedFor` while the voter stays in the term; a voter gave one vote
  in a term; every leader, and the sender of every call, had a majority. Two
  majorities meet (`Majorities`, the only use of cardinalities).
- `LogInv` (`RadianceRaftLog`). A link is an entry with its index and the term of the
  entry below it. Logs and calls are made of links, and only `Submit` makes one,
  because `AppendEntries` joins a call to a log where the terms agree. Index and term
  determine a link (`Unique`), since one leader made all links of a term one after the
  other at the end of its log; so two logs that share an entry share all below it. A
  call ends where its leader's log ended (`CallInv`), and what a success reports is
  in the peer's log while the peer is in the term, even if older calls of the term
  come later (`ReplyInv`).
- `ChoiceInv` (`RadianceRaftChoice`). A link is chosen when a majority has acknowledged
  it in its own term, and choosable while that can still happen: a node that has left
  the term without acknowledging never will. As long as a link is choosable, no
  link, call or log of a later term passes it by: a later leader has a voter that had
  acknowledged the link, and `logUpToDate` made that voter compare.
- `CommitInv` (`RadianceRaftCommit`). A commit index, in a node or in a call, is at or
  below a chosen link that the log, or the end of the call, reaches. For a leader
  this is what the rule to count only entries of its own term gives (`CommitsChosen`).

Where a proof goes down from an index to a smaller one it uses that every non-empty set
of naturals has a least element. `WellOrdered` says so; it is a conjunct of the
invariant, because it is proved once, from the library's theorem that `<` is well-founded on the
naturals, in `RadianceRaftProofs` (`Smallest`). The facts about sequences the proofs need, such as
`SubSeqProperties` and `SeqEqual`, are stated at the head of `RadianceRaftLinks`.

| theorem | property |
|---|---|
| `TypeCorrect`, `NextIndexSafe` | `TypeOK`, `NextIndexInBounds` |
| `OneLeaderPerTerm` | `ElectionSafety` |
| `LogsMatch`, `MatchIndexHolds` | `LogMatching`, `MatchIndexSound` |
| `AppliedIsFront`, `AnnouncedIsCovered`, `CommitNeverBack` | `AppliedInLog`, `CommitWithinCall`, `CommitMonotonic` |
| `StateMachinesAgree`, `LeadersAreComplete`, `MajorityKeeps` | `StateMachineSafety`, `LeaderCompleteness`, `CommittedOnMajority` |
| `NodesImplementNodeLog` | `ImplementsNodeLog`, and the initial states |

These are all the safety properties the Raft runs check. For the refinement,
`AcceptReplicates` shows that a follower never cuts at or below its commit index and
only replaces entries by others; the other steps of a node are those of `NodeLog` as
they stand. `RadianceRaftRestart`, where nodes forget their state, is not covered: the
property it checks does not hold.

### StagwayServer

For any connections and keys and any numbers of writes and crashes. The assumptions
are `ServerBounds` and `NotWrites`: the two markers are not writes.

`AcknowledgedIsLogged`, `WhatIsReadIsLogged`, `RefusedIsNowhere`. None of the three is
inductive. `ServerInv` adds that a handler past its check keeps the log open, because
`WalClose` comes after `Stop` had the mutex alone (`LockKeepsLogOpen`); that a write
past `WAL.Append` is logged or was refused by the disk (`PastAppend`); that writes
under way differ from each other and from refused ones (`Unique`); and that one before
its `Append` is nowhere yet (`Fresh`). For a restart, `ReplayFromLog` shows that a
replay yields only what is in the log.

`AnswersNeverGoBack` (`NeverOlderThanAcked`) and `ServerTypes` (`TypeOK`). `OrderInv`,
inductive together with `ServerInv`, adds what had been answered when a write began
(`History`); that the log has a record after those of all writes answered before its
own began (`LogOrdered`), because what is being appended has not been answered yet;
and the property itself from the moment a write is in the MemTable
(`Shown`). A restart keeps it because a replay yields, for the key of a record, that
record or one behind it (`ReplayNotBefore`).

### HallownestNode

For any connections, writes and capacity of the channel (`NodeAssumption`).

`ReaderFollowsLog` (`PutIsLogPrefix`) and `NodeTypes` (`TypeOK`) are inductive
together: a step of another leader keeps the log up to the commit index, `lastApplied`
is not above it, and each of `ApplySend`, `Receive` and `Apply` moves one entry along
the way from log to MemTable. `MemTableSettles` (`SettlesOnLog`) adds `LastPutShows`:
once the reader has put as much as the log has, the MemTable holds the last entry
unless a handler was late. What was put is the front of the log (`PutIsFront`), so a
handler whose write is in the log and not yet put comes before the put of that write.

### Model-checked only

- Liveness: `AcceptedIsCommitted`, `ShutdownCompletes`, `RequestAnswered`,
  `EveryHandlerReturns`, `NodeStops`. Fairness and `ENABLED` are beyond the prover.
- The log file (`BenchWAL`) and its refinement of `DurableLog`, the skip list and its
  refinement of `SortedMap`, tables, filter and compaction. Their properties say what
  `ReplayWAL`, the searches of the skip list, the walk and the scan of a table compute;
  these are recursive functions, and what they compute for every input takes an
  induction the prover cannot do.

## Not modelled

- The bytes of the wire protocol, the accept loop, the answer to an HTTP/2 preface
  and a request with an unknown operation code, which is read and dropped; the HTTP
  texts, the dashboard and the command-line client: no state of their own.
- `WAL.size`, `SegmentSize`, `L0Trigger`: nothing reads them.
- Changed bytes in the log file; in a table, changed bytes in the footer and in the
  key lengths of the index, and the refusals of `OpenSSTable` for a file that is too
  short or an index that does not parse; a lookup in a table that was closed.
- On a machine that reorders stores, a new node read without its key or without any
  links by a walk, which then writes an empty key or panics.
- The arithmetic of MurmurHash, and the sizes of a filter computed from logarithms.
- Compaction of tables with changed bytes: a record that fails its checksum is
  skipped and its table deleted.
- Election deadlines as times, and the number of heartbeat goroutines of a node that
  lost leadership and has it again: one action is any of them.
