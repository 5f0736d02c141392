--------------------------- MODULE HallownestNode ---------------------------
(***************************************************************************)
(* One daemon as a set of goroutines around its Raft node: the request     *)
(* handlers, which submit a write and put it in the MemTable; whoever      *)
(* advances the commit index, and sends on applyCh with RaftNode.mu held;  *)
(* the goroutine of main that puts what it receives in the same MemTable;  *)
(* and main, which stops them.  The Raft node is NodeLog, that is, any     *)
(* node of any cluster.                                                    *)
(*                                                                         *)
(* Only writes to one key meet, so there is one key; a write is its        *)
(* number, and the MemTable the number of the last write put.  The         *)
(* write-ahead log, between Submit and the MemTable, is in StagwayServer.  *)
(***************************************************************************)
EXTENDS NodeLog, FiniteSets, SequencesExt

CONSTANTS
    Client,     \* connections
    Foreign,    \* writes that other leaders replicate
    Cap,        \* the capacity of applyCh, 1000 in main
    MaxWrites   \* bound: writes begun here

ASSUME NodeAssumption ==
    /\ Cap \in Nat \ {0} /\ MaxWrites \in Nat
    /\ Foreign \cap (0..MaxWrites) = {}

VARIABLES
    lastApplied, applyCh,
    inHand,     \* what the reader of applyCh has received and not yet put, or 0
    memTable,   \* the last write put, or 0
    pc, op,     \* each connection's place in its handler, and its write
    writes,
    main,       \* "serving", "stopping" (waits for mu), "stopped", "killed"
    put,        \* everything the reader has put
    late        \* a handler has put a write that the reader had put, or never will

nodeVars == <<leads, log, commitIndex>>
applyVars == <<lastApplied, applyCh, inHand, put>>
handlerVars == <<pc, op, writes>>
vars == <<nodeVars, applyVars, memTable, handlerVars, main, late>>

Written == (1..MaxWrites) \cup Foreign

TypeOK ==
    /\ leads \in BOOLEAN /\ log \in Seq(Written)
    /\ commitIndex \in 0..Len(log) /\ lastApplied \in 0..commitIndex
    /\ applyCh \in Seq(Written) /\ Len(applyCh) <= Cap
    /\ inHand \in Written \cup {0} /\ memTable \in Written \cup {0}
    /\ pc \in [Client -> {"idle", "submit", "insert"}] /\ op \in [Client -> 0..MaxWrites]
    /\ \A c \in Client : op[c] = 0 <=> pc[c] = "idle"
    /\ writes \in 0..MaxWrites
    /\ main \in {"serving", "stopping", "stopped", "killed"}
    /\ put \in Seq(Written) /\ late \in BOOLEAN

Init ==
    /\ NodeLogInit
    /\ lastApplied = 0 /\ applyCh = <<>> /\ inHand = 0 /\ put = <<>>
    /\ memTable = 0
    /\ pc = [c \in Client |-> "idle"] /\ op = [c \in Client |-> 0] /\ writes = 0
    /\ main = "serving" /\ late = FALSE

\* applyLogs runs to the end under RaftNode.mu: it is held while anything
\* committed has not been sent.
MuFree == lastApplied = commitIndex
-----------------------------------------------------------------------------
(* The handlers. *)

\* PutGeo or FocusTombstone has the read lock of StagwayServer and finds it running.
PutGeo(c) ==
    /\ pc[c] = "idle" /\ main = "serving" /\ writes < MaxWrites
    /\ pc' = [pc EXCEPT ![c] = "submit"]
    /\ op' = [op EXCEPT ![c] = writes + 1]
    /\ writes' = writes + 1
    /\ UNCHANGED <<nodeVars, applyVars, memTable, main, late>>

Submit(c) ==
    /\ pc[c] = "submit" /\ MuFree
    /\ log' = IF leads THEN Append(log, op[c]) ELSE log
    /\ pc' = [pc EXCEPT ![c] = IF leads THEN "insert" ELSE "idle"]
    /\ op' = [op EXCEPT ![c] = IF leads THEN @ ELSE 0]
    /\ UNCHANGED <<leads, commitIndex, applyVars, memTable, writes, main, late>>

\* MemTable.Put, and the answer.
Insert(c) ==
    /\ pc[c] = "insert"
    /\ memTable' = op[c]
    /\ late' = (late \/ op[c] \in ToSet(put) \/ op[c] \notin ToSet(log))
    /\ pc' = [pc EXCEPT ![c] = "idle"]
    /\ op' = [op EXCEPT ![c] = 0]
    /\ UNCHANGED <<nodeVars, applyVars, writes, main>>
-----------------------------------------------------------------------------
(* The Raft node: every step takes RaftNode.mu. *)

\* Mutant: a log from another leader replaces the whole log.
ReplicateAll ==
    /\ MuFree /\ leads' = FALSE
    /\ log' \in {<<f>> : f \in Foreign \ ToSet(log)}
    /\ commitIndex' \in commitIndex..Len(log')
    /\ UNCHANGED <<applyVars, memTable, handlerVars, main, late>>
Replicate ==
    /\ MuFree /\ leads' = FALSE
    /\ log' \in {log} \cup {Append(SubSeq(log, 1, n), f) :
                    n \in commitIndex..Len(log), f \in Foreign \ ToSet(log)}
    /\ commitIndex' \in commitIndex..Len(log')
    /\ Replicated
    /\ UNCHANGED <<applyVars, memTable, handlerVars, main, late>>

\* Mutant: the last index is taken to be the length of the log, counted from 0.
CommitOnePast ==
    /\ MuFree /\ leads
    /\ commitIndex' \in (commitIndex + 1)..(Len(log) + 1)
    /\ UNCHANGED <<leads, log, applyVars, memTable, handlerVars, main, late>>
Commit ==
    /\ MuFree /\ leads
    /\ commitIndex' \in (commitIndex + 1)..Len(log)
    /\ UNCHANGED <<leads, log, applyVars, memTable, handlerVars, main, late>>

RoleChange ==
    /\ MuFree
    /\ leads' = ~leads
    /\ UNCHANGED <<log, commitIndex, applyVars, memTable, handlerVars, main, late>>

\* applyLogs sends the next entry, and waits while the channel is full.
ApplySend ==
    /\ lastApplied < commitIndex /\ Len(applyCh) < Cap
    /\ lastApplied' = lastApplied + 1
    /\ applyCh' = Append(applyCh, log[lastApplied + 1])
    /\ UNCHANGED <<nodeVars, inHand, put, memTable, handlerVars, main, late>>
-----------------------------------------------------------------------------
(* The reader of applyCh in main. *)

\* Mutant: the reader asks the Raft node for its state first.
ReceiveUnderLock ==
    /\ applyCh # <<>> /\ inHand = 0 /\ MuFree
    /\ inHand' = Head(applyCh) /\ applyCh' = Tail(applyCh)
    /\ UNCHANGED <<nodeVars, lastApplied, put, memTable, handlerVars, main, late>>
Receive ==
    /\ applyCh # <<>> /\ inHand = 0
    /\ inHand' = Head(applyCh) /\ applyCh' = Tail(applyCh)
    /\ UNCHANGED <<nodeVars, lastApplied, put, memTable, handlerVars, main, late>>

\* Mutant: a key that is in the MemTable is left alone.
ApplyIfAbsent ==
    /\ inHand # 0
    /\ memTable' = (IF memTable = 0 THEN inHand ELSE memTable) /\ inHand' = 0
    /\ put' = Append(put, inHand)
    /\ UNCHANGED <<nodeVars, lastApplied, applyCh, handlerVars, main, late>>
Apply ==
    /\ inHand # 0
    /\ memTable' = inHand /\ inHand' = 0
    /\ put' = Append(put, inHand)
    /\ UNCHANGED <<nodeVars, lastApplied, applyCh, handlerVars, main, late>>
-----------------------------------------------------------------------------
(* main: the signal, Stop, which waits for the handlers, and Kill.           *)
Signal ==
    /\ main = "serving" /\ main' = "stopping"
    /\ UNCHANGED <<nodeVars, applyVars, memTable, handlerVars, late>>
Stop ==
    /\ main = "stopping" /\ \A c \in Client : pc[c] = "idle"
    /\ main' = "stopped"
    /\ UNCHANGED <<nodeVars, applyVars, memTable, handlerVars, late>>
Kill ==
    /\ main = "stopped" /\ MuFree
    /\ main' = "killed"
    /\ UNCHANGED <<nodeVars, applyVars, memTable, handlerVars, late>>

Next ==
    \/ \E c \in Client : PutGeo(c)
    \/ \E c \in Client : Submit(c)
    \/ \E c \in Client : Insert(c)
    \/ Replicate
    \/ Commit
    \/ RoleChange
    \/ ApplySend
    \/ Receive
    \/ Apply
    \/ Signal
    \/ Stop
    \/ Kill

\* Goroutines that can run do; a Lock is granted in the end.
Spec ==
    /\ Init /\ [][Next]_vars
    /\ \A c \in Client : WF_vars(Submit(c) \/ Insert(c))
    /\ WF_vars(ApplySend) /\ WF_vars(Receive \/ Apply)
    /\ WF_vars(Stop \/ Kill)
-----------------------------------------------------------------------------
\* The reader puts the entries of the log in the log's order, each once, and none
\* of them is replaced afterwards, although other leaders rewrite the log while
\* entries wait in the channel.
PutIsLogPrefix ==
    put \o (IF inHand = 0 THEN <<>> ELSE <<inHand>>) \o applyCh = SubSeq(log, 1, lastApplied)

\* Once every entry of the log has been put, the MemTable holds the last one,
\* although handlers put their writes in it as well and the reader may put an older
\* write over theirs.  This leaves out histories in which a handler was late: it put
\* its write after the reader had put it, or after another leader's entry had
\* replaced it.  Such a write stays in the MemTable, over newer ones, for good.
SettlesOnLog ==
    /\ ~late /\ log # <<>> /\ Len(put) = Len(log)
    /\ \A c \in Client : pc[c] = "idle"
    => memTable = Last(log)

\* Every request is answered: a handler that waits for RaftNode.mu, held by a
\* sender on a full applyCh, gets it because the reader needs no lock to go on.
EveryHandlerReturns == \A c \in Client : pc[c] # "idle" ~> pc[c] = "idle"

\* A shutdown ends: Stop waits for the handlers and they for RaftNode.mu, Kill for
\* RaftNode.mu, and that for the reader, which runs on.
NodeStops == main = "stopping" ~> main = "killed"
=============================================================================
