---------------------------- MODULE StagwayServer ----------------------------
(***************************************************************************)
(* The request handlers of StagwayServer (pkg/network/server.go) and the   *)
(* life of the daemon around them (cmd/hallownestd/main.go).               *)
(*                                                                         *)
(* A handler holds the read side of StagwayServer.mu from its first line   *)
(* to its return, and between the two makes up to three calls, each atomic *)
(* under the callee's own lock and each a step of its own here: Submit,    *)
(* WAL.Append, MemTable.Put or Delete.  PutGeo and FocusTombstone differ   *)
(* in the flag they write.  Requests come over the connections of the TCP  *)
(* server (handleConnection) and from the HTTP gateway; a connection has   *)
(* one request at a time: read, handled and answered in a loop.  A request *)
(* with an unknown operation is read and dropped, and changes nothing.     *)
(*                                                                         *)
(* The log is what BenchWAL shows it to be with SyncOnWrite, one entry for *)
(* a record: an Append that succeeds adds its record; one that fails, or   *)
(* that the process dies in, adds its record, a torn one or nothing; and a *)
(* replay ends at the first torn record.  Raft is seen as Submit shows it: *)
(* absent, following or leading.  The MemTable is written by the handlers  *)
(* and the replay.  The goroutine of main that applies committed entries,  *)
(* to which a node without peers sends nothing, is in HallownestNode.      *)
(***************************************************************************)
EXTENDS Integers, Sequences, FiniteSets, SequencesExt

CONSTANTS
    Client,     \* the connections
    Key,
    Nothing,    \* a key that is not in the MemTable
    Torn,       \* a part of a record in the log
    MaxWrites,  \* bound: the writes begun
    MaxCrashes  \* bound: how often the daemon dies

ASSUME ServerBounds == MaxWrites \in Nat /\ MaxCrashes \in Nat

VARIABLES
    up,         \* the process runs and has started its servers
    running,    \* StagwayServer.running
    raft,       \* what Submit finds: "nil", "follower" or "leader"
    wal,        \* the log file
    walOpen,
    memTable,   \* the last write to each key, or Nothing
    pc, op,     \* each connection's place in its handler, and its request
    shutdown,   \* main after the signal: "no", "waiting" for mu, "stopped", "closed"
    writes,     \* how many writes have begun
    before,     \* for each write begun, the writes answered by then
    acked,      \* the writes answered with success
    refused,    \* the writes answered with failure
    ioFailed,   \* the writes whose Append failed to write or sync
    crashes

handlerVars == <<pc, op>>
history == <<writes, before, acked, refused, ioFailed>>
vars == <<up, running, raft, wal, walOpen, memTable, handlerVars, shutdown, history, crashes>>

Write == [n : 1..MaxWrites, key : Key, tombstone : BOOLEAN]
ASSUME NotWrites == Nothing \notin Write /\ Torn \notin Write

TypeOK ==
    /\ up \in BOOLEAN /\ running \in BOOLEAN /\ walOpen \in BOOLEAN
    /\ running => up /\ walOpen
    /\ raft \in {"nil", "follower", "leader"}
    /\ wal \in Seq(Write \cup {Torn})
    /\ memTable \in [Key -> Write \cup {Nothing}]
    /\ pc \in [Client -> {"idle", "lock", "submit", "append", "insert", "return", "get"}]
    /\ \A c \in Client : op[c] \in IF pc[c] \in {"idle", "get"} THEN {Nothing}
                                  ELSE IF pc[c] = "lock" THEN Write \cup {Nothing} ELSE Write
    /\ shutdown \in {"no", "waiting", "stopped", "closed"}
    /\ writes \in 0..MaxWrites
    /\ acked \subseteq Write /\ refused \subseteq Write \ acked /\ ioFailed \subseteq Write
    /\ DOMAIN before \subseteq Write /\ \A w \in DOMAIN before : before[w] \subseteq Write
    /\ crashes \in 0..MaxCrashes

Init ==
    /\ up = TRUE /\ running = TRUE /\ walOpen = TRUE
    /\ raft \in {"nil", "follower"}
    /\ wal = <<>> /\ memTable = [k \in Key |-> Nothing]
    /\ pc = [c \in Client |-> "idle"] /\ op = [c \in Client |-> Nothing]
    /\ shutdown = "no"
    /\ writes = 0 /\ before = <<>>
    /\ acked = {} /\ refused = {} /\ ioFailed = {}
    /\ crashes = 0

\* The handlers that hold mu for reading.
Readers == {c \in Client : pc[c] \notin {"idle", "lock"}}
\* sync.RWMutex: a Lock that waits keeps new readers out.
CanRLock == shutdown # "waiting"

\* What one Append of w can leave behind when it does not succeed.
AppendLeft(w) == {wal, Append(wal, Torn), Append(wal, w)}

\* Where the records are that ReplayWAL returns: before the first torn one.
ReplayWAL(log) == {i \in DOMAIN log : \A j \in 1..i : log[j] # Torn}

\* Mutant: the first record of a key is kept.
ReplayFirst(log) ==
    [k \in Key |->
        LET at == {i \in ReplayWAL(log) : log[i].key = k}
        IN  IF at = {} THEN Nothing ELSE log[Min(at)]]
\* The MemTable main builds from the log: the last record of a key wins.
Replay(log) ==
    [k \in Key |->
        LET at == {i \in ReplayWAL(log) : log[i].key = k}
        IN  IF at = {} THEN Nothing ELSE log[Max(at)]]
-----------------------------------------------------------------------------
\* handleConnection, or the HTTP gateway, has read a whole request.
RequestWrite(c, key, tombstone) ==
    /\ up /\ pc[c] = "idle" /\ writes < MaxWrites
    /\ op' = [op EXCEPT ![c] = [n |-> writes + 1, key |-> key, tombstone |-> tombstone]]
    /\ pc' = [pc EXCEPT ![c] = "lock"]
    /\ writes' = writes + 1
    /\ UNCHANGED <<up, running, raft, wal, walOpen, memTable, shutdown, before, acked, refused,
                   ioFailed, crashes>>
RequestRead(c) ==
    /\ up /\ pc[c] = "idle"
    /\ pc' = [pc EXCEPT ![c] = "lock"]
    /\ UNCHANGED <<up, running, raft, wal, walOpen, memTable, op, shutdown, history, crashes>>

\* The handler has returned and the client is told whether its write was taken.
sendWriteResponse(c, success) ==
    /\ pc' = [pc EXCEPT ![c] = "idle"] /\ op' = [op EXCEPT ![c] = Nothing]
    /\ acked' = IF success THEN acked \cup {op[c]} ELSE acked
    /\ refused' = IF success THEN refused ELSE refused \cup {op[c]}

\* The handler of a write takes mu; a server that is stopped refuses it.
Begin(c) ==
    /\ pc[c] = "lock" /\ CanRLock
    /\ IF running
       THEN /\ pc' = [pc EXCEPT ![c] = IF raft = "nil" THEN "append" ELSE "submit"]
            /\ before' = [v \in DOMAIN before \cup {op[c]} |-> IF v = op[c] THEN acked ELSE before[v]]
            /\ UNCHANGED <<op, acked, refused>>
       ELSE sendWriteResponse(c, FALSE) /\ UNCHANGED before
    /\ UNCHANGED <<up, running, raft, wal, walOpen, memTable, shutdown, writes, ioFailed, crashes>>
\* The two handlers, which go on with Submit, WalAppend, MemTableInsert and Return.
PutGeo(c) == op[c] # Nothing /\ ~op[c].tombstone /\ Begin(c)
FocusTombstone(c) == op[c] # Nothing /\ op[c].tombstone /\ Begin(c)

\* Mutant: the MemTable is written before the log.
SubmitInsert(c) ==
    /\ pc[c] = "submit" /\ raft = "leader"
    /\ pc' = [pc EXCEPT ![c] = "append"]
    /\ memTable' = [memTable EXCEPT ![op[c].key] = op[c]]
    /\ UNCHANGED <<up, running, raft, wal, walOpen, op, shutdown, history, crashes>>
\* Mutant: a write waits, with mu held, until the node leads.
SubmitWaits(c) ==
    /\ pc[c] = "submit" /\ raft = "leader"
    /\ pc' = [pc EXCEPT ![c] = "append"]
    /\ UNCHANGED <<up, running, raft, wal, walOpen, memTable, op, shutdown, history, crashes>>
\* Mutant: the write is logged whether or not the node leads.
SubmitLogsFirst(c) ==
    /\ pc[c] = "submit"
    /\ wal' = Append(wal, op[c])
    /\ IF raft = "leader"
       THEN pc' = [pc EXCEPT ![c] = "insert"] /\ UNCHANGED <<op, acked, refused>>
       ELSE sendWriteResponse(c, FALSE)
    /\ UNCHANGED <<up, running, raft, walOpen, memTable, shutdown, writes, before, ioFailed, crashes>>
\* Only a leader takes the write; otherwise the answer is ErrNotLeader.
Submit(c) ==
    /\ pc[c] = "submit"
    /\ IF raft = "leader"
       THEN pc' = [pc EXCEPT ![c] = "append"] /\ UNCHANGED <<op, acked, refused>>
       ELSE sendWriteResponse(c, FALSE)
    /\ UNCHANGED <<up, running, raft, wal, walOpen, memTable, shutdown, writes, before, ioFailed,
                   crashes>>

\* The result of Append is dropped, whether it is ErrWALClosed or a failed write.
WalAppend(c) ==
    /\ pc[c] = "append"
    /\ pc' = [pc EXCEPT ![c] = "insert"]
    /\ \/ walOpen /\ wal' = Append(wal, op[c]) /\ UNCHANGED ioFailed
       \/ walOpen /\ ioFailed' = ioFailed \cup {op[c]} /\ wal' \in AppendLeft(op[c])
       \/ ~walOpen /\ UNCHANGED <<wal, ioFailed>>
    /\ UNCHANGED <<up, running, raft, walOpen, memTable, op, shutdown, writes, before, acked,
                   refused, crashes>>

MemTableInsert(c) ==
    /\ pc[c] = "insert"
    /\ pc' = [pc EXCEPT ![c] = "return"]
    /\ memTable' = [memTable EXCEPT ![op[c].key] = op[c]]
    /\ UNCHANGED <<up, running, raft, wal, walOpen, op, shutdown, history, crashes>>

Return(c) ==
    /\ pc[c] = "return"
    /\ sendWriteResponse(c, TRUE)
    /\ UNCHANGED <<up, running, raft, wal, walOpen, memTable, shutdown, writes, before, ioFailed,
                   crashes>>

\* GetGeo: one atomic lookup under mu; a server that is stopped answers at once.
GetGeo(c) ==
    /\ pc[c] = "lock" /\ op[c] = Nothing /\ CanRLock
    /\ pc' = [pc EXCEPT ![c] = IF running THEN "get" ELSE "idle"]
    /\ UNCHANGED <<up, running, raft, wal, walOpen, memTable, op, shutdown, history, crashes>>
GetGeoReturn(c) ==
    /\ pc[c] = "get"
    /\ pc' = [pc EXCEPT ![c] = "idle"]
    /\ UNCHANGED <<up, running, raft, wal, walOpen, memTable, op, shutdown, history, crashes>>
-----------------------------------------------------------------------------
(* Raft, as far as Submit sees it: the role changes at any time (RadianceRaft). *)
RoleChange ==
    /\ up /\ raft # "nil"
    /\ raft' \in {"follower", "leader"} \ {raft}
    /\ UNCHANGED <<up, running, wal, walOpen, memTable, handlerVars, shutdown, history, crashes>>

(* The deferred calls of main, last to first: Stop, Kill, wal.Close; then exit. *)
Signal ==
    /\ up /\ shutdown = "no"
    /\ shutdown' = "waiting"
    /\ UNCHANGED <<up, running, raft, wal, walOpen, memTable, handlerVars, history, crashes>>

\* Mutant: Stop does not wait for the handlers.
StopAtOnce ==
    /\ shutdown = "waiting"
    /\ running' = FALSE
    /\ shutdown' = "stopped"
    /\ UNCHANGED <<up, raft, wal, walOpen, memTable, handlerVars, history, crashes>>
\* Stop gets mu once no handler holds it.
Stop ==
    /\ shutdown = "waiting" /\ Readers = {}
    /\ running' = FALSE
    /\ shutdown' = "stopped"
    /\ UNCHANGED <<up, raft, wal, walOpen, memTable, handlerVars, history, crashes>>

\* Mutant: the log is closed before the server is stopped.
WalCloseFirst ==
    /\ shutdown = "waiting"
    /\ walOpen' = FALSE
    /\ UNCHANGED <<up, running, raft, wal, memTable, handlerVars, shutdown, history, crashes>>
WalClose ==
    /\ shutdown = "stopped"
    /\ walOpen' = FALSE
    /\ shutdown' = "closed"
    /\ UNCHANGED <<up, running, raft, wal, memTable, handlerVars, history, crashes>>

\* Only the log outlives the process.
Gone ==
    /\ up' = FALSE
    /\ running' = FALSE /\ walOpen' = FALSE
    /\ memTable' = [k \in Key |-> Nothing]
    /\ pc' = [c \in Client |-> "idle"] /\ op' = [c \in Client |-> Nothing]
    /\ shutdown' = "no"
    /\ UNCHANGED <<raft, history>>

Exit == up /\ shutdown = "closed" /\ Gone /\ UNCHANGED <<wal, crashes>>

Crash ==
    /\ up /\ crashes < MaxCrashes
    /\ crashes' = crashes + 1
    /\ wal' \in {wal} \cup UNION {AppendLeft(op[c]) : c \in {d \in Client : pc[d] = "append"}}
    /\ Gone

Start == running' = TRUE

\* main: OpenWAL, replay into a new MemTable, a new Raft node, Start.
Restart ==
    /\ ~up
    /\ up' = TRUE /\ Start /\ walOpen' = TRUE
    /\ memTable' = Replay(wal)
    /\ raft' = IF raft = "nil" THEN "nil" ELSE "follower"
    /\ UNCHANGED <<wal, handlerVars, shutdown, history, crashes>>

Next ==
    \/ \E c \in Client, k \in Key, tombstone \in BOOLEAN : RequestWrite(c, k, tombstone)
    \/ \E c \in Client : RequestRead(c)
    \/ \E c \in Client : PutGeo(c)
    \/ \E c \in Client : FocusTombstone(c)
    \/ \E c \in Client : Submit(c)
    \/ \E c \in Client : WalAppend(c)
    \/ \E c \in Client : MemTableInsert(c)
    \/ \E c \in Client : Return(c)
    \/ \E c \in Client : GetGeo(c)
    \/ \E c \in Client : GetGeoReturn(c)
    \/ RoleChange
    \/ Signal
    \/ Stop
    \/ WalClose
    \/ Exit
    \/ Crash
    \/ Restart

Spec == Init /\ [][Next]_vars

\* A handler that runs goes on, and main goes on once it may.
FairSpec ==
    /\ Spec
    /\ \A c \in Client :
        WF_vars(PutGeo(c) \/ FocusTombstone(c) \/ Submit(c) \/ WalAppend(c) \/ MemTableInsert(c)
                \/ Return(c) \/ GetGeo(c) \/ GetGeoReturn(c))
    /\ WF_vars(Stop \/ WalClose \/ Exit)
-----------------------------------------------------------------------------
Logged(w) == w \in ToSet(wal) \cup ioFailed

\* Every write answered with success is in the log, unless the disk refused it:
\* no handler is between its check of running and its Append when main closes
\* the log, although Append's error would go unnoticed.
AckedIsLogged == \A w \in acked : Logged(w)

\* What handlers and the replay put in the MemTable is in the log (or the disk
\* refused it): no reader sees a write of theirs that is not.
VisibleIsLogged == \A k \in Key : memTable[k] # Nothing => Logged(memTable[k])

\* Once a write is answered, handlers and the replay never let its key show a write
\* that had been answered before it began, nor nothing: not with handlers overlapping
\* in the three calls they make, and not after a crash and the replay of a log with
\* no tear.
NeverOlderThanAcked ==
    up /\ Torn \notin ToSet(wal) =>
        \A w \in acked \ ioFailed :
            memTable[w.key] # Nothing /\ memTable[w.key] \notin before[w]

\* A shutdown that has begun ends, although requests keep coming in.
ShutdownCompletes == shutdown = "waiting" ~> ~up

\* A write answered with failure leaves no trace: it is never in the log or in the
\* MemTable, not even if leadership changes or the server stops while it is handled.
RefusedLeavesNoTrace == \A w \in refused : w \notin ToSet(wal) /\ memTable[w.key] # w

\* Every request read is answered, or its connection ends with the process: also
\* one that waits for mu behind Stop, which is answered once Stop lets go.
RequestAnswered == \A c \in Client : pc[c] = "lock" ~> pc[c] = "idle"

\* "to recover database state after a crash": with no write under way, none
\* refused by the disk and no tear, a replay yields the MemTable there was.
ReplayRestoresMemTable ==
    up /\ Readers = {} /\ ioFailed = {} /\ Torn \notin ToSet(wal) => Replay(wal) = memTable
=============================================================================
