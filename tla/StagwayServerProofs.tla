------------------------- MODULE StagwayServerProofs -------------------------
(***************************************************************************)
(* For any number of connections, keys, writes and crashes: what is        *)
(* acknowledged and what readers see is in the log, what is refused is in  *)
(* neither the log nor the MemTable, and what is acknowledged is never     *)
(* hidden by what had been acknowledged before it began.                   *)
(*                                                                         *)
(* For the log the invariant needs three more facts.  A handler past its   *)
(* check of running holds mu, so the log is open under it                  *)
(* (LockKeepsLogOpen).  A write past its Append is in the log              *)
(* (PastAppend).  And a write before its Append is new everywhere (Unique, *)
(* Fresh).                                                                 *)
(*                                                                         *)
(* For what keys show it needs the order of the log: a record comes after  *)
(* those of all the writes answered before its own began (LogOrdered), so  *)
(* the last record of a key, which a replay keeps, is never one of them.   *)
(***************************************************************************)
EXTENDS StagwayServer, SequenceTheorems, WellFoundedInduction, TLAPS

\* A set of numbers up to n that is not empty has a largest.
LEMMA MaxInSet ==
    ASSUME NEW n \in Nat, NEW T \in SUBSET (1..n), T # {}
    PROVE  Max(T) \in T /\ \A y \in T : Max(T) >= y
<1> DEFINE D == {n - i : i \in T}
<1>1. D \subseteq Nat /\ D # {}
  <2>1. \A i \in T : n - i \in Nat  OBVIOUS
  <2>2. PICK i \in T : TRUE  BY Zenon
  <2>3. n - i \in D  BY Zenon, <2>2
  <2> QED  BY Zenon, <2>1, <2>3
<1>2. PICK d \in D : \A e \in D : ~(<<e, d>> \in OpToRel(<, Nat))
  BY Zenon, <1>1, NatLessThanWellFounded, WFMin
<1>3. \A e \in D : ~(e < d)  BY Zenon, <1>1, <1>2 DEF OpToRel
<1>4. n - d \in T /\ \A j \in T : n - d >= j
  BY <1>3
<1>5. \E x \in T : \A y \in T : x >= y  BY Zenon, <1>4
<1> QED  BY Zenon, <1>5 DEF Max

\* A replay yields, for a key, nothing or an entry of the log.
LEMMA ReplayFromLog ==
    ASSUME NEW log \in Seq(Write \cup {Torn}), NEW k \in Key
    PROVE  /\ Replay(log)[k] # Nothing => Replay(log)[k] \in ToSet(log)
           /\ Replay(log)[k] \in Write \cup {Nothing}
<1> DEFINE at == {i \in ReplayWAL(log) : log[i].key = k}
<1>1. Len(log) \in Nat /\ DOMAIN log = 1..Len(log)  BY Zenon, LenProperties
<1>2. at \in SUBSET (1..Len(log))  BY Zenon, <1>1 DEF ReplayWAL
<1>3. Replay(log)[k] = IF at = {} THEN Nothing ELSE log[Max(at)]  BY Zenon DEF Replay
<1>4. CASE at = {}  BY Zenon, <1>3, <1>4
<1>5. CASE at # {}
  <2>1. Max(at) \in at  BY ZenonT(30), <1>1, <1>2, <1>5, MaxInSet
  <2>2. Max(at) \in 1..Len(log) /\ log[Max(at)] # Torn  BY <1>1, <2>1 DEF ReplayWAL
  <2>3. log[Max(at)] \in Write  BY <2>2, ElementOfSeq
  <2>4. log[Max(at)] \in ToSet(log)  BY Zenon, <1>1, <2>2 DEF ToSet
  <2> QED  BY ZenonT(30), <1>3, <1>5, <2>3, <2>4
<1> QED  BY Zenon, <1>4, <1>5

\* A replay of a log with no tear yields, for the key of an entry, that entry or
\* a later one.
LEMMA ReplayNotBefore ==
    ASSUME NEW log \in Seq(Write \cup {Torn}), Torn \notin ToSet(log), NEW j \in DOMAIN log
    PROVE  \E m \in DOMAIN log : m >= j /\ Replay(log)[log[j].key] = log[m]
<1> DEFINE k == log[j].key
           at == {i \in ReplayWAL(log) : log[i].key = k}
<1>1. Len(log) \in Nat /\ DOMAIN log = 1..Len(log)  BY Zenon, LenProperties
<1>2. \A i \in DOMAIN log : log[i] # Torn  BY Zenon DEF ToSet
<1>3. log[j] \in Write /\ k \in Key  BY <1>1, <1>2, ElementOfSeq DEF Write
<1>4. j \in at  BY <1>1, <1>2 DEF ReplayWAL
<1>5. at \in SUBSET (1..Len(log)) /\ at \subseteq DOMAIN log  BY Zenon, <1>1 DEF ReplayWAL
<1>6. Max(at) \in at /\ Max(at) >= j  BY Zenon, <1>1, <1>4, <1>5, MaxInSet
<1>7. Replay(log)[k] = IF at = {} THEN Nothing ELSE log[Max(at)]  BY Zenon, <1>3 DEF Replay
<1> HIDE DEF at, k
<1>8. Replay(log)[k] = log[Max(at)] /\ Max(at) \in DOMAIN log  BY Zenon, <1>4, <1>5, <1>6, <1>7
<1> QED  BY Zenon, <1>6, <1>8 DEF k

\* Append adds one element.
LEMMA AppendToSet ==
    ASSUME NEW S, NEW s \in Seq(S), NEW e \in S
    PROVE  Append(s, e) \in Seq(S) /\ ToSet(Append(s, e)) = ToSet(s) \cup {e}
<1>1. /\ Append(s, e) \in Seq(S) /\ Len(Append(s, e)) = Len(s) + 1
      /\ \A i \in 1..Len(s) : Append(s, e)[i] = s[i]
      /\ Append(s, e)[Len(s) + 1] = e
  BY AppendProperties
<1>2. /\ Len(s) \in Nat /\ DOMAIN s = 1..Len(s)
      /\ DOMAIN Append(s, e) = 1..(Len(s) + 1)
  BY Zenon, <1>1, LenProperties
<1>3. ToSet(Append(s, e)) \subseteq ToSet(s) \cup {e}  BY <1>1, <1>2 DEF ToSet
<1>4. ToSet(s) \cup {e} \subseteq ToSet(Append(s, e))  BY <1>1, <1>2 DEF ToSet
<1> QED  BY Zenon, <1>1, <1>3, <1>4

\* What an Append that does not succeed leaves.
LEMMA AppendLeftAdds ==
    ASSUME wal \in Seq(Write \cup {Torn}), NEW w \in Write, NEW f \in AppendLeft(w)
    PROVE  /\ f \in Seq(Write \cup {Torn})
           /\ ToSet(wal) \subseteq ToSet(f) /\ ToSet(f) \subseteq ToSet(wal) \cup {w, Torn}
<1>1. CASE f = wal  BY Zenon, <1>1
<1>2. CASE f = Append(wal, Torn)
  <2>1. Torn \in Write \cup {Torn}  BY Zenon
  <2> QED  BY SMTT(30), <1>2, <2>1, AppendToSet
<1>3. CASE f = Append(wal, w)
  <2>1. w \in Write \cup {Torn}  BY Zenon
  <2> QED  BY SMTT(30), <1>3, <2>1, AppendToSet
<1> QED  BY Zenon, <1>1, <1>2, <1>3 DEF AppendLeft
-----------------------------------------------------------------------------
Types ==
    /\ wal \in Seq(Write \cup {Torn})
    /\ memTable \in [Key -> Write \cup {Nothing}]
    /\ pc \in [Client -> {"idle", "lock", "submit", "append", "insert", "return", "get"}]
    /\ op \in [Client -> Write \cup {Nothing}]
    /\ \A c \in Client : /\ pc[c] \in {"submit", "append", "insert", "return"} => op[c] \in Write
                         /\ pc[c] \in {"idle", "get"} => op[c] = Nothing
    /\ writes \in 0..MaxWrites
    /\ acked \subseteq Write /\ refused \subseteq Write /\ ioFailed \subseteq Write

\* A handler that holds mu finds the log open until it lets go.
LockKeepsLogOpen ==
    /\ \A c \in Readers : running
    /\ running => walOpen /\ shutdown \in {"no", "waiting"}
    /\ ~up => shutdown = "no"

PastAppend == \A c \in Client : pc[c] \in {"insert", "return"} => Logged(op[c])

\* The writes under way are all different, and numbered like all others up to writes.
Unique ==
    /\ \A c \in Client : op[c] # Nothing => op[c].n <= writes /\ op[c] \notin refused
    /\ \A c, d \in Client : c # d /\ op[c] # Nothing => op[c] # op[d]
    /\ \A w \in (ToSet(wal) \ {Torn}) \cup refused : w.n <= writes
    /\ \A k \in Key : memTable[k] # Nothing => memTable[k].n <= writes

\* A write that has not reached its Append is in neither log nor MemTable.
Fresh ==
    \A c \in Client : pc[c] \in {"lock", "submit", "append"} /\ op[c] # Nothing =>
        op[c] \notin ToSet(wal) /\ \A k \in Key : memTable[k] # op[c]

ServerInv ==
    /\ Types /\ LockKeepsLogOpen /\ PastAppend /\ Unique /\ Fresh
    /\ AckedIsLogged /\ VisibleIsLogged /\ RefusedLeavesNoTrace

\* The invariant holds of a server with an empty log.
LEMMA InitInv == Init => ServerInv
<1> SUFFICES ASSUME Init PROVE ServerInv  BY Zenon
<1>1. <<>> \in Seq(Write \cup {Torn}) /\ ToSet(<<>>) = {}  BY EmptySeq DEF ToSet
<1>2. Types  BY <1>1, ServerBounds DEF Init, Types
<1>3. LockKeepsLogOpen /\ PastAppend  BY Zenon DEF Init, LockKeepsLogOpen, Readers, PastAppend
<1>4. Unique /\ Fresh  BY Zenon, <1>1 DEF Init, Unique, Fresh
<1>5. AckedIsLogged /\ VisibleIsLogged /\ RefusedLeavesNoTrace
  BY Zenon DEF Init, AckedIsLogged, VisibleIsLogged, RefusedLeavesNoTrace
<1> QED  BY Zenon, <1>2, <1>3, <1>4, <1>5 DEF ServerInv

\* A request gets a number no write has had, so it is in neither log nor MemTable.
LEMMA RequestWriteStep == ASSUME ServerInv, NEW c \in Client, NEW k \in Key, NEW tombstone \in BOOLEAN,
           RequestWrite(c, k, tombstone) PROVE ServerInv'
<1> USE DEF ServerInv, handlerVars, history
<1> DEFINE w == [n |-> writes + 1, key |-> k, tombstone |-> tombstone]
<1>1. w \in Write /\ w.n = writes + 1 /\ writes' = writes + 1 /\ writes' \in 0..MaxWrites
  BY ServerBounds DEF Types, RequestWrite, Write
<1>2. op' = [op EXCEPT ![c] = w] /\ pc' = [pc EXCEPT ![c] = "lock"]  BY Zenon DEF RequestWrite
<1>3. UNCHANGED <<wal, memTable, acked, refused, ioFailed>>  BY Zenon DEF RequestWrite
<1>4. \A v \in Write : v.n \in Int  BY DEF Write
<1>5. \A v \in Write : v.n <= writes => v # w  BY <1>1 DEF Types
<1>6. ToSet(wal) \subseteq Write \cup {Torn}  BY LenProperties DEF ToSet, Types
<1> HIDE DEF w
<1>7. w \notin ToSet(wal) /\ \A j \in Key : memTable[j] # w
  BY Zenon, <1>1, <1>5, <1>6, NotWrites DEF Types, Unique
<1>8. \A d \in Client : op[d] # w  BY Zenon, <1>1, <1>5, NotWrites DEF Types, Unique
<1>9. Types'  BY SMTT(30), <1>1, <1>2, <1>3 DEF Types, RequestWrite
<1>10. LockKeepsLogOpen'  BY <1>2 DEF LockKeepsLogOpen, Readers, RequestWrite
<1>11. PastAppend'  BY SMTT(30), <1>2, <1>3 DEF PastAppend, Logged, RequestWrite
<1>12. Unique'
  <2>1. w \notin refused  BY Zenon, <1>1, <1>5 DEF Types, Unique
  <2>2. \A v \in Write : v.n <= writes => v.n <= writes'  BY SMTT(30), <1>1, <1>4 DEF Types
  <2>3. \A d \in Client : op'[d] # Nothing => op'[d].n <= writes' /\ op'[d] \notin refused'
    BY SMTT(30), <1>1, <1>2, <1>3, <2>1, <2>2 DEF Types, Unique
  <2>4. \A d, e \in Client : d # e /\ op'[d] # Nothing => op'[d] # op'[e]
    BY Zenon, <1>2, <1>8 DEF Types, Unique
  <2>5. \A v \in (ToSet(wal) \ {Torn}) \cup refused : v.n <= writes'
    BY Zenon, <1>6, <2>2 DEF Types, Unique
  <2>6. \A j \in Key : memTable[j] # Nothing => memTable[j].n <= writes'
    BY Zenon, <2>2 DEF Types, Unique
  <2> QED  BY Zenon, <1>3, <2>3, <2>4, <2>5, <2>6 DEF Unique
<1>13. Fresh'  BY Zenon, <1>2, <1>3, <1>7 DEF Fresh, Types
<1>14. AckedIsLogged'  BY Zenon, <1>3 DEF AckedIsLogged, Logged, RequestWrite
<1>15. VisibleIsLogged'  BY Zenon, <1>3 DEF VisibleIsLogged, Logged, RequestWrite
<1>16. RefusedLeavesNoTrace'  BY Zenon, <1>3 DEF RefusedLeavesNoTrace, RequestWrite
<1> QED  BY ZenonT(30), <1>9, <1>10, <1>11, <1>12, <1>13, <1>14, <1>15, <1>16

\* A read has no write.
LEMMA RequestReadStep == ASSUME ServerInv, NEW c \in Client, RequestRead(c) PROVE ServerInv'
<1> USE DEF ServerInv, handlerVars, history
<1>1. Types'  BY Zenon DEF Types, RequestRead
<1>2. LockKeepsLogOpen'  BY Zenon DEF LockKeepsLogOpen, Readers, Types, RequestRead
<1>3. PastAppend'  BY Zenon DEF PastAppend, Logged, Types, RequestRead
<1>4. Unique'  BY Zenon DEF Unique, Types, RequestRead
<1>5. Fresh'  BY Zenon DEF Fresh, Types, RequestRead
<1>6. AckedIsLogged'  BY Zenon DEF AckedIsLogged, Logged, Types, RequestRead
<1>7. VisibleIsLogged'  BY Zenon DEF VisibleIsLogged, Logged, Types, RequestRead
<1>8. RefusedLeavesNoTrace'  BY Zenon DEF RefusedLeavesNoTrace, Types, RequestRead
<1> QED  BY ZenonT(30), <1>1, <1>2, <1>3, <1>4, <1>5, <1>6, <1>7, <1>8

\* A handler that gets the lock goes on if the server runs; otherwise its write is refused, still fresh.
LEMMA BeginStep == ASSUME ServerInv, NEW c \in Client, op[c] # Nothing, Begin(c) PROVE ServerInv'
<1> USE DEF ServerInv, handlerVars, history
<1>1. op[c] \in Write /\ op[c].key \in Key  BY Zenon DEF Types, Write
<1>2. Types'  BY ZenonT(30) DEF Types, Begin, sendWriteResponse
<1>3. LockKeepsLogOpen'  BY Zenon DEF LockKeepsLogOpen, Readers, Types, CanRLock, Begin, sendWriteResponse
<1>4. PastAppend'  BY ZenonT(30) DEF PastAppend, Logged, Types, Begin, sendWriteResponse
<1>5. Unique'  BY DEF Unique, Types, Begin, sendWriteResponse
<1>6. Fresh'  BY ZenonT(30) DEF Fresh, Types, Begin, sendWriteResponse
<1>7. AckedIsLogged'  BY Zenon DEF AckedIsLogged, Logged, Types, Begin, sendWriteResponse
<1>8. VisibleIsLogged'  BY Zenon DEF VisibleIsLogged, Logged, Types, Begin, sendWriteResponse
<1>9. RefusedLeavesNoTrace'  BY SMTT(30), <1>1 DEF RefusedLeavesNoTrace, Types, Fresh, Begin, sendWriteResponse
<1> QED  BY ZenonT(30), <1>2, <1>3, <1>4, <1>5, <1>6, <1>7, <1>8, <1>9

\* A write that the node refuses has not reached the log.
LEMMA SubmitStep == ASSUME ServerInv, NEW c \in Client, Submit(c) PROVE ServerInv'
<1> USE DEF ServerInv, handlerVars, history
<1>1. op[c] \in Write /\ op[c].key \in Key /\ op[c] # Nothing  BY Zenon, NotWrites DEF Types, Write, Submit
<1>2. Types'  BY ZenonT(30) DEF Types, Submit, sendWriteResponse
<1>3. LockKeepsLogOpen'  BY Zenon DEF LockKeepsLogOpen, Readers, Types, Submit, sendWriteResponse
<1>4. PastAppend'  BY ZenonT(30) DEF PastAppend, Logged, Types, Submit, sendWriteResponse
<1>5. Unique'  BY SMTT(30), <1>1 DEF Unique, Types, Submit, sendWriteResponse
<1>6. Fresh'  BY ZenonT(30) DEF Fresh, Types, Submit, sendWriteResponse
<1>7. AckedIsLogged'  BY Zenon DEF AckedIsLogged, Logged, Types, Submit, sendWriteResponse
<1>8. VisibleIsLogged'  BY Zenon DEF VisibleIsLogged, Logged, Types, Submit, sendWriteResponse
<1>9. RefusedLeavesNoTrace'  BY SMTT(30), <1>1 DEF RefusedLeavesNoTrace, Types, Fresh, Submit, sendWriteResponse
<1> QED  BY Zenon, <1>2, <1>3, <1>4, <1>5, <1>6, <1>7, <1>8, <1>9

\* The log is open, so the write is logged or the disk has refused it.
LEMMA WalAppendStep == ASSUME ServerInv, NEW c \in Client, WalAppend(c) PROVE ServerInv'
<1> USE DEF ServerInv, handlerVars, history
<1>1. op[c] \in Write /\ op[c] # Nothing /\ op[c] # Torn  BY Zenon, NotWrites DEF Types, WalAppend
<1>2. pc[c] = "append" /\ pc' = [pc EXCEPT ![c] = "insert"]
      /\ UNCHANGED <<up, running, walOpen, shutdown, memTable, op, writes, acked, refused>>
  BY Zenon DEF WalAppend
<1>3. walOpen  BY Zenon, <1>2 DEF LockKeepsLogOpen, Readers
<1>4. /\ wal' \in Seq(Write \cup {Torn})
      /\ ToSet(wal) \subseteq ToSet(wal') /\ ToSet(wal') \subseteq ToSet(wal) \cup {op[c], Torn}
  <2>1. wal' \in AppendLeft(op[c])  BY Zenon, <1>3 DEF WalAppend, AppendLeft
  <2> QED  BY Zenon, <1>1, <2>1, AppendLeftAdds DEF Types
<1>5. ioFailed \subseteq ioFailed' /\ ioFailed' \subseteq Write  BY Zenon, <1>1, <1>3 DEF WalAppend, Types
<1>6. Logged(op[c])'
  <2>1. CASE wal' = Append(wal, op[c])
    <3>1. op[c] \in Write \cup {Torn}  BY Zenon, <1>1
    <3> QED  BY SMTT(30), <1>2, <2>1, <3>1, AppendToSet DEF Types, Logged
  <2>2. CASE ioFailed' = ioFailed \cup {op[c]}  BY Zenon, <1>2, <2>2 DEF Logged
  <2> QED  BY ZenonT(30), <1>3, <2>1, <2>2 DEF WalAppend
<1>7. Types'  BY Zenon, <1>1, <1>2, <1>4, <1>5 DEF Types
<1>8. LockKeepsLogOpen'  BY Zenon, <1>2 DEF LockKeepsLogOpen, Readers, Types
<1>9. PastAppend'
  <2>1. ASSUME NEW d \in Client, pc'[d] \in {"insert", "return"} PROVE Logged(op[d])'
    <3>1. CASE d = c  BY Zenon, <1>6, <3>1
    <3>2. CASE d # c
      <4>1. Logged(op[d])  BY Zenon, <1>2, <2>1, <3>2 DEF PastAppend, Types
      <4> QED  BY ZenonT(30), <1>2, <1>4, <1>5, <4>1 DEF Logged
    <3> QED  BY ZenonT(30), <3>1, <3>2
  <2> QED  BY Zenon, <1>2, <2>1 DEF PastAppend, Logged
<1>10. Unique'  BY ZenonT(30), <1>1, <1>2, <1>4 DEF Unique, Types
<1>11. Fresh'  BY SMTT(30), <1>1, <1>2, <1>4, NotWrites DEF Fresh, Types, Unique
<1>12. AckedIsLogged'  BY Zenon, <1>2, <1>4, <1>5 DEF AckedIsLogged, Logged, Types
<1>13. VisibleIsLogged'  BY Zenon, <1>2, <1>4, <1>5 DEF VisibleIsLogged, Logged, Types
<1>14. RefusedLeavesNoTrace'  BY ZenonT(30), <1>1, <1>2, <1>4, NotWrites DEF RefusedLeavesNoTrace, Types, Unique
<1> QED  BY Zenon, <1>7, <1>8, <1>9, <1>10, <1>11, <1>12, <1>13, <1>14

\* What is put in the MemTable has been logged.
LEMMA MemTableInsertStep == ASSUME ServerInv, NEW c \in Client, MemTableInsert(c) PROVE ServerInv'
<1> USE DEF ServerInv, handlerVars, history
<1>1. op[c] \in Write /\ op[c] # Nothing /\ op[c].key \in Key  BY Zenon, NotWrites DEF Types, Write, MemTableInsert
<1>2. Logged(op[c])  BY Zenon DEF PastAppend, MemTableInsert
<1>3. \A k \in Key : memTable'[k] \in {memTable[k], op[c]}  BY Zenon DEF Types, MemTableInsert
<1>4. Types'  BY Zenon, <1>1 DEF Types, MemTableInsert
<1>5. LockKeepsLogOpen'  BY Zenon DEF LockKeepsLogOpen, Readers, Types, MemTableInsert
<1>6. PastAppend'  BY Zenon DEF PastAppend, Logged, Types, MemTableInsert
<1>7. Unique'  BY Zenon, <1>1 DEF Unique, Types, MemTableInsert
<1>8. Fresh'  BY ZenonT(30), <1>1, <1>3 DEF Fresh, Types, Unique, MemTableInsert
<1>9. AckedIsLogged'  BY Zenon DEF AckedIsLogged, Logged, Types, MemTableInsert
<1>10. VisibleIsLogged'  BY Zenon, <1>2, <1>3 DEF VisibleIsLogged, Logged, Types, MemTableInsert
<1>11. RefusedLeavesNoTrace'
  <2>1. op[c] \notin refused  BY Zenon, <1>1 DEF Unique
  <2>2. \A w \in refused : w.key \in Key  BY ZenonT(30) DEF Types, Write
  <2> QED  BY ZenonT(30), <1>3, <2>1, <2>2 DEF RefusedLeavesNoTrace, MemTableInsert
<1> QED  BY Zenon, <1>4, <1>5, <1>6, <1>7, <1>8, <1>9, <1>10, <1>11

\* What is acknowledged has been logged.
LEMMA ReturnStep == ASSUME ServerInv, NEW c \in Client, Return(c) PROVE ServerInv'
<1> USE DEF ServerInv, handlerVars, history
<1>1. op[c] \in Write /\ Logged(op[c])  BY Zenon DEF Types, PastAppend, Return
<1>2. Types'  BY Zenon DEF Types, Return, sendWriteResponse
<1>3. LockKeepsLogOpen'  BY Zenon DEF LockKeepsLogOpen, Readers, Types, Return, sendWriteResponse
<1>4. PastAppend'  BY Zenon DEF PastAppend, Logged, Types, Return, sendWriteResponse
<1>5. Unique'  BY Zenon DEF Unique, Types, Return, sendWriteResponse
<1>6. Fresh'  BY Zenon DEF Fresh, Types, Return, sendWriteResponse
<1>7. AckedIsLogged'  BY Zenon, <1>1 DEF AckedIsLogged, Logged, Types, Return, sendWriteResponse
<1>8. VisibleIsLogged'  BY Zenon DEF VisibleIsLogged, Logged, Types, Return, sendWriteResponse
<1>9. RefusedLeavesNoTrace'  BY Zenon DEF RefusedLeavesNoTrace, Types, Return, sendWriteResponse
<1> QED  BY Zenon, <1>2, <1>3, <1>4, <1>5, <1>6, <1>7, <1>8, <1>9

\* Reads change nothing that is kept.
LEMMA GetGeoStep == ASSUME ServerInv, NEW c \in Client, GetGeo(c) \/ GetGeoReturn(c) PROVE ServerInv'
<1> USE DEF ServerInv, handlerVars, history
<1>1. Types'  BY Zenon DEF Types, GetGeo, GetGeoReturn
<1>2. LockKeepsLogOpen'  BY DEF LockKeepsLogOpen, Readers, Types, CanRLock, GetGeo, GetGeoReturn
<1>3. PastAppend'  BY Zenon DEF PastAppend, Logged, Types, GetGeo, GetGeoReturn
<1>4. Unique'  BY ZenonT(30) DEF Unique, Types, GetGeo, GetGeoReturn
<1>5. Fresh'  BY Zenon DEF Fresh, Types, GetGeo, GetGeoReturn
<1>6. AckedIsLogged'  BY Zenon DEF AckedIsLogged, Logged, Types, GetGeo, GetGeoReturn
<1>7. VisibleIsLogged'  BY Zenon DEF VisibleIsLogged, Logged, Types, GetGeo, GetGeoReturn
<1>8. RefusedLeavesNoTrace'  BY Zenon DEF RefusedLeavesNoTrace, Types, GetGeo, GetGeoReturn
<1> QED  BY ZenonT(30), <1>1, <1>2, <1>3, <1>4, <1>5, <1>6, <1>7, <1>8

\* The log is closed only after Stop had the lock, when no handler is past its check.
LEMMA ShutdownStep == ASSUME ServerInv, RoleChange \/ Signal \/ Stop \/ WalClose PROVE ServerInv'
<1> USE DEF ServerInv, handlerVars, history
<1>1. Types'  BY Zenon DEF Types, RoleChange, Signal, Stop, WalClose
<1>2. LockKeepsLogOpen'  BY SMTT(30) DEF LockKeepsLogOpen, Readers, Types, RoleChange, Signal, Stop, WalClose
<1>3. PastAppend'  BY Zenon DEF PastAppend, Logged, Types, RoleChange, Signal, Stop, WalClose
<1>4. Unique'  BY Zenon DEF Unique, Types, RoleChange, Signal, Stop, WalClose
<1>5. Fresh'  BY Zenon DEF Fresh, Types, RoleChange, Signal, Stop, WalClose
<1>6. AckedIsLogged'  BY Zenon DEF AckedIsLogged, Logged, Types, RoleChange, Signal, Stop, WalClose
<1>7. VisibleIsLogged'  BY Zenon DEF VisibleIsLogged, Logged, Types, RoleChange, Signal, Stop, WalClose
<1>8. RefusedLeavesNoTrace'  BY Zenon DEF RefusedLeavesNoTrace, Types, RoleChange, Signal, Stop, WalClose
<1> QED  BY ZenonT(30), <1>1, <1>2, <1>3, <1>4, <1>5, <1>6, <1>7, <1>8

\* The process ends: handlers and MemTable are gone, and the log keeps what it had.
LEMMA GoneStep == ASSUME ServerInv, Gone,
           wal' \in Seq(Write \cup {Torn}), ToSet(wal) \subseteq ToSet(wal'),
           \A w \in ToSet(wal') \ (ToSet(wal) \cup {Torn}) : w.n <= writes /\ w \notin refused PROVE ServerInv'
<1> USE DEF ServerInv, handlerVars, history
<1>1. /\ up' = FALSE /\ running' = FALSE /\ shutdown' = "no"
      /\ memTable' = [k \in Key |-> Nothing]
      /\ pc' = [c \in Client |-> "idle"] /\ op' = [c \in Client |-> Nothing]
      /\ UNCHANGED <<writes, acked, refused, ioFailed>>
  BY Zenon DEF Gone
<1>2. \A w \in refused : w.key \in Key /\ memTable'[w.key] # w
  <2>1. \A w \in refused : w \in Write /\ w.key \in Key /\ w # Nothing  BY Zenon, NotWrites DEF Types, Write
  <2> QED  BY Zenon, <1>1, <2>1
<1>3. Types'  BY Zenon, <1>1 DEF Types
<1>4. LockKeepsLogOpen'  BY Zenon, <1>1 DEF LockKeepsLogOpen, Readers, Types
<1>5. PastAppend'  BY Zenon, <1>1 DEF PastAppend, Logged, Types
<1>6. Unique'  BY Zenon, <1>1 DEF Unique, Types
<1>7. Fresh'  BY Zenon, <1>1 DEF Fresh, Types
<1>8. AckedIsLogged'  BY Zenon, <1>1 DEF AckedIsLogged, Logged, Types
<1>9. VisibleIsLogged'  BY Zenon, <1>1 DEF VisibleIsLogged, Logged, Types
<1>10. RefusedLeavesNoTrace'  BY Zenon, <1>1, <1>2, NotWrites DEF RefusedLeavesNoTrace, Types
<1> QED  BY ZenonT(30), <1>3, <1>4, <1>5, <1>6, <1>7, <1>8, <1>9, <1>10

\* A crash may leave the write of one Append in the log, whole or torn.
LEMMA CrashStep == ASSUME ServerInv, Crash PROVE ServerInv'
<1> USE DEF ServerInv
<1>1. Gone  BY Zenon DEF Crash
<1>2. CASE wal' = wal  BY ZenonT(30), <1>1, <1>2, GoneStep DEF Types
<1>3. CASE wal' # wal
  <2>1. PICK c \in Client : pc[c] = "append" /\ wal' \in AppendLeft(op[c])  BY Zenon, <1>3 DEF Crash
  <2>2. op[c] \in Write /\ op[c] # Nothing  BY Zenon, <2>1, NotWrites DEF Types
  <2>3. /\ wal' \in Seq(Write \cup {Torn})
        /\ ToSet(wal) \subseteq ToSet(wal') /\ ToSet(wal') \subseteq ToSet(wal) \cup {op[c], Torn}
    BY ZenonT(30), <2>1, <2>2, AppendLeftAdds DEF Types
  <2>4. op[c].n <= writes /\ op[c] \notin refused  BY Zenon, <2>2 DEF Unique
  <2> QED  BY ZenonT(30), <1>1, <2>3, <2>4, GoneStep
<1> QED  BY Zenon, <1>2, <1>3

\* A restart fills the MemTable from the log.
LEMMA RestartStep == ASSUME ServerInv, Restart PROVE ServerInv'
<1> USE DEF ServerInv, handlerVars, history
<1>1. /\ UNCHANGED <<wal, pc, op, shutdown, writes, acked, refused, ioFailed>>
      /\ running' = TRUE /\ walOpen' = TRUE /\ up' = TRUE /\ shutdown = "no"
  BY Zenon DEF Restart, Start, LockKeepsLogOpen
<1>2. \A k \in Key : /\ memTable'[k] \in Write \cup {Nothing}
                     /\ memTable'[k] # Nothing => memTable'[k] \in ToSet(wal) \ {Torn}
  BY Zenon, ReplayFromLog, NotWrites DEF Types, Restart
<1>3. memTable' \in [Key -> Write \cup {Nothing}]
  <2> DEFINE m == Replay(wal)
  <2>1. m = [k \in Key |-> m[k]]  BY Zenon DEF Replay
  <2>2. m = memTable'  BY Zenon DEF Restart
  <2> HIDE DEF m
  <2> QED  BY Zenon, <1>2, <2>1, <2>2
<1>4. Types'  BY Zenon, <1>1, <1>3 DEF Types
<1>5. LockKeepsLogOpen'  BY Zenon, <1>1 DEF LockKeepsLogOpen
<1>6. PastAppend' /\ AckedIsLogged'  BY Zenon, <1>1 DEF PastAppend, AckedIsLogged, Logged
<1>7. Unique'  BY Zenon, <1>1, <1>2 DEF Unique
<1>8. Fresh'  BY Zenon, <1>1, <1>2 DEF Fresh
<1>9. VisibleIsLogged'  BY Zenon, <1>1, <1>2 DEF VisibleIsLogged, Logged
<1>10. RefusedLeavesNoTrace'
  <2>1. \A w \in refused : w.key \in Key /\ w # Nothing  BY Zenon, NotWrites DEF Types, Write
  <2> QED  BY Zenon, <1>1, <1>2, <2>1 DEF RefusedLeavesNoTrace
<1> QED  BY ZenonT(30), <1>4, <1>5, <1>6, <1>7, <1>8, <1>9, <1>10

\* A step that changes nothing keeps the invariant.
LEMMA StutterStep == ASSUME ServerInv, UNCHANGED vars PROVE ServerInv'
<1> USE DEF ServerInv, handlerVars, history
<1>1. Types'  BY Zenon DEF Types, vars
<1>2. LockKeepsLogOpen'  BY Zenon DEF LockKeepsLogOpen, Readers, Types, vars
<1>3. PastAppend'  BY Zenon DEF PastAppend, Logged, Types, vars
<1>4. Unique'  BY Zenon DEF Unique, Types, vars
<1>5. Fresh'  BY Zenon DEF Fresh, Types, vars
<1>6. AckedIsLogged'  BY Zenon DEF AckedIsLogged, Logged, Types, vars
<1>7. VisibleIsLogged'  BY Zenon DEF VisibleIsLogged, Logged, Types, vars
<1>8. RefusedLeavesNoTrace'  BY Zenon DEF RefusedLeavesNoTrace, Types, vars
<1> QED  BY ZenonT(30), <1>1, <1>2, <1>3, <1>4, <1>5, <1>6, <1>7, <1>8

\* No step takes the invariant away.
LEMMA NextInv == ASSUME ServerInv, [Next]_vars PROVE ServerInv'
<1>1. ASSUME NEW c \in Client, PutGeo(c) \/ FocusTombstone(c) PROVE ServerInv'
  BY Zenon, <1>1, BeginStep DEF PutGeo, FocusTombstone
<1>2. ASSUME Exit PROVE ServerInv'
  BY Zenon, <1>2, GoneStep DEF Exit, ServerInv, Types
<1> QED
  BY ZenonT(30), <1>1, <1>2, RequestWriteStep, RequestReadStep, SubmitStep, WalAppendStep, MemTableInsertStep,
     ReturnStep, GetGeoStep, ShutdownStep, CrashStep, RestartStep, StutterStep
  DEF Next

\* The invariant holds in every state of the server.
LEMMA ServerInvariant == Spec => []ServerInv
<1>1. Init => ServerInv  BY Zenon, InitInv
<1>2. ServerInv /\ [Next]_vars => ServerInv'  BY Zenon, NextInv
<1> QED  BY <1>1, <1>2, PTL DEF Spec

\* A write answered with success is in the log unless the disk refused it, for
\* any number of connections, keys, writes and crashes: main never closes the log
\* under a handler that has checked running.
THEOREM AcknowledgedIsLogged == Spec => []AckedIsLogged
<1>1. ServerInv => AckedIsLogged  BY ZenonT(30) DEF ServerInv
<1> QED  BY <1>1, ServerInvariant, PTL

\* No write of a handler, or of the replay after a crash, is seen that is not in the
\* log (or that the disk refused).
THEOREM WhatIsReadIsLogged == Spec => []VisibleIsLogged
<1>1. ServerInv => VisibleIsLogged  BY ZenonT(30) DEF ServerInv
<1> QED  BY <1>1, ServerInvariant, PTL

\* A write answered with failure is in neither the log nor the MemTable, ever.
THEOREM RefusedIsNowhere == Spec => []RefusedLeavesNoTrace
<1>1. ServerInv => RefusedLeavesNoTrace  BY Zenon DEF ServerInv
<1> QED  BY <1>1, ServerInvariant, PTL
-----------------------------------------------------------------------------
(* Types, and what a key shows once a write of it is answered. *)

\* A write is answered at most once, and what was answered before a write began
\* has been answered.
History ==
    /\ DOMAIN before \subseteq Write
    /\ \A w \in DOMAIN before : before[w] \subseteq acked
    /\ acked \subseteq DOMAIN before
    /\ \A w \in acked : w.n <= writes /\ w \notin refused
    /\ \A c \in Client : op[c] # Nothing => op[c] \notin acked
    /\ \A c \in Client :
          pc[c] \in {"submit", "append", "insert", "return"} => op[c] \in DOMAIN before

\* The log has a write after all those answered before the write began.
LogOrdered ==
    \A i, j \in DOMAIN wal : wal[j] \in DOMAIN before /\ wal[i] \in before[wal[j]] => i < j

\* The write is in the MemTable, or has been.
Inserted(w) == w \in acked \ ioFailed \/ \E c \in Client : pc[c] = "return" /\ op[c] = w

\* NeverOlderThanAcked, from the moment a write is in the MemTable.
Shown ==
    up /\ Torn \notin ToSet(wal) =>
        \A w \in Write : Inserted(w) => /\ memTable[w.key] # Nothing
                                        /\ memTable[w.key] \notin before[w]

\* The ranges that Types and LockKeepsLogOpen leave out.
Ranges ==
    /\ up \in BOOLEAN /\ running \in BOOLEAN /\ walOpen \in BOOLEAN
    /\ running => up /\ walOpen
    /\ raft \in {"nil", "follower", "leader"}
    /\ shutdown \in {"no", "waiting", "stopped", "closed"}
    /\ crashes \in 0..MaxCrashes

OrderInv == Ranges /\ History /\ LogOrdered /\ Shown

\* The invariant holds before any write.
LEMMA InitOrder == Init => OrderInv
<1> SUFFICES ASSUME Init PROVE OrderInv  BY Zenon
<1>1. before = <<>> /\ wal = <<>> /\ DOMAIN before = {} /\ DOMAIN wal = {}
  BY EmptySeq DEF Init
<1>2. Ranges  BY ServerBounds DEF Init, Ranges
<1>3. History  BY Zenon, <1>1 DEF Init, History
<1>4. LogOrdered  BY Zenon, <1>1 DEF LogOrdered
<1>5. \A w : ~ Inserted(w)  BY Zenon DEF Init, Inserted
<1> QED  BY ZenonT(30), <1>2, <1>3, <1>4, <1>5 DEF OrderInv, Shown

\* A step that leaves alone what the writes have left, and only gives up writes
\* or begins new ones.
LEMMA QuietOrder ==
    ASSUME ServerInv, OrderInv, Ranges', up' => up, writes \in Nat, writes' \in Nat,
           UNCHANGED <<wal, memTable, before, acked, ioFailed>>,
           writes <= writes', refused' \cap acked = {},
           \A c \in Client : op'[c] # Nothing => op'[c] \notin acked,
           \A c \in Client : pc'[c] \in {"submit", "append", "insert", "return"} =>
                                /\ op'[c] = op[c]
                                /\ \/ pc'[c] = pc[c]
                                   \/ pc[c] = "submit" /\ pc'[c] = "append"
    PROVE  OrderInv'
<1>1. \A w \in acked : w.n <= writes'
  <2>1. \A w \in acked : w.n \in Int  BY DEF ServerInv, Types, Write
  <2> QED  BY <2>1 DEF OrderInv, History
<1>2. History'  BY Zenon, <1>1 DEF OrderInv, History
<1>3. LogOrdered'  BY Zenon DEF OrderInv, LogOrdered
<1>4. \A w \in Write : Inserted(w)' => Inserted(w)  BY Zenon DEF Inserted
<1>5. Shown'  BY Zenon, <1>4 DEF OrderInv, Shown
<1> QED  BY ZenonT(30), <1>2, <1>3, <1>5 DEF OrderInv

\* A new request has a number that no answered write has.
LEMMA RequestWriteOrder ==
    ASSUME ServerInv, OrderInv, NEW c \in Client, NEW k \in Key, NEW tombstone \in BOOLEAN,
           RequestWrite(c, k, tombstone)
    PROVE  OrderInv'
<1> USE DEF handlerVars, history
<1> DEFINE w == [n |-> writes + 1, key |-> k, tombstone |-> tombstone]
<1>1. w.n = writes + 1 /\ writes' = writes + 1 /\ writes \in Nat /\ writes' \in Nat
  BY ServerBounds DEF ServerInv, Types, RequestWrite
<1>2. op' = [op EXCEPT ![c] = w] /\ pc' = [pc EXCEPT ![c] = "lock"]  BY Zenon DEF RequestWrite
<1>3. UNCHANGED <<up, wal, memTable, before, acked, refused, ioFailed>>  BY Zenon DEF RequestWrite
<1> HIDE DEF w
<1>4. w \notin acked  BY <1>1 DEF OrderInv, History
<1>5. Ranges'  BY Zenon DEF OrderInv, Ranges, RequestWrite
<1>6. refused' \cap acked = {}  BY Zenon, <1>3 DEF OrderInv, History
<1>7. \A d \in Client : op'[d] # Nothing => op'[d] \notin acked
  BY Zenon, <1>2, <1>4 DEF OrderInv, History, ServerInv, Types
<1>8. \A d \in Client : pc'[d] \in {"submit", "append", "insert", "return"} =>
                            op'[d] = op[d] /\ pc'[d] = pc[d]
  BY Zenon, <1>2 DEF ServerInv, Types
<1> QED  BY <1>1, <1>3, <1>5, <1>6, <1>7, <1>8, QuietOrder

\* Reads, the change of a role and an orderly shutdown leave the writes alone.
LEMMA IdleOrder ==
    ASSUME ServerInv, OrderInv,
           \/ \E c \in Client : RequestRead(c) \/ GetGeo(c) \/ GetGeoReturn(c)
           \/ RoleChange \/ Signal \/ Stop \/ WalClose \/ UNCHANGED vars
    PROVE  OrderInv'
<1> USE DEF handlerVars, history
<1>1. UNCHANGED <<up, wal, memTable, op, writes, before, acked, refused, ioFailed, crashes>>
  BY Zenon DEF RequestRead, GetGeo, GetGeoReturn, RoleChange, Signal, Stop, WalClose, vars
<1>2. \A d \in Client : pc'[d] \in {"submit", "append", "insert", "return"} => pc'[d] = pc[d]
  <2>1. \/ pc' = pc
        \/ \E c \in Client, at \in {"lock", "get", "idle"} : pc' = [pc EXCEPT ![c] = at]
    BY Zenon DEF RequestRead, GetGeo, GetGeoReturn, RoleChange, Signal, Stop, WalClose, vars
  <2>2. pc \in [Client -> {"idle", "lock", "submit", "append", "insert", "return", "get"}]
    BY Zenon DEF ServerInv, Types
  <2> QED  BY Zenon, <2>1, <2>2
<1>3. Ranges'
  <2>1. Ranges /\ (running => shutdown \in {"no", "waiting"})
    BY Zenon DEF OrderInv, ServerInv, LockKeepsLogOpen
  <2>2. CASE UNCHANGED <<running, walOpen, raft, shutdown>>  BY ZenonT(30), <1>1, <2>1, <2>2 DEF Ranges
  <2>3. CASE RoleChange  BY <1>1, <2>1, <2>3 DEF Ranges, RoleChange
  <2>4. CASE Signal  BY <1>1, <2>1, <2>4 DEF Ranges, Signal
  <2>5. CASE Stop  BY Zenon, <1>1, <2>1, <2>5 DEF Ranges, Stop
  <2>6. CASE WalClose  BY Zenon, <1>1, <2>1, <2>6 DEF Ranges, WalClose
  <2>7. (\E c \in Client : RequestRead(c) \/ GetGeo(c) \/ GetGeoReturn(c)) \/ UNCHANGED vars =>
            UNCHANGED <<running, walOpen, raft, shutdown>>
    BY Zenon DEF RequestRead, GetGeo, GetGeoReturn, vars
  <2> QED  BY ZenonT(30), <2>2, <2>3, <2>4, <2>5, <2>6, <2>7
<1>4. writes \in Nat  BY ServerBounds DEF ServerInv, Types
<1>5. refused' \cap acked = {} /\ \A d \in Client : op'[d] # Nothing => op'[d] \notin acked
  BY Zenon, <1>1 DEF OrderInv, History
<1> QED  BY <1>1, <1>2, <1>3, <1>4, <1>5, QuietOrder

\* A write that is refused gives up its place.
LEMMA RefusedOrder ==
    ASSUME ServerInv, OrderInv, NEW c \in Client, op[c] # Nothing,
           sendWriteResponse(c, FALSE),
           UNCHANGED <<up, running, raft, wal, walOpen, memTable, shutdown, writes, before, ioFailed, crashes>>
    PROVE  OrderInv'
<1>1. op' = [op EXCEPT ![c] = Nothing] /\ pc' = [pc EXCEPT ![c] = "idle"]
      /\ acked' = acked /\ refused' = refused \cup {op[c]}
  BY Zenon DEF sendWriteResponse
<1>2. Ranges'  BY Zenon DEF OrderInv, Ranges
<1>3. writes \in Nat  BY ServerBounds DEF ServerInv, Types
<1>4. refused' \cap acked = {}  BY Zenon, <1>1 DEF OrderInv, History
<1>5. \A d \in Client : op'[d] # Nothing => op'[d] \notin acked
  BY Zenon, <1>1 DEF OrderInv, History, ServerInv, Types
<1>6. \A d \in Client : pc'[d] \in {"submit", "append", "insert", "return"} =>
                            op'[d] = op[d] /\ pc'[d] = pc[d]
  BY Zenon, <1>1 DEF ServerInv, Types
<1> QED  BY <1>1, <1>2, <1>3, <1>4, <1>5, <1>6, QuietOrder

\* A write that begins is in no log, so nothing that was answered before it
\* can be found after it.
LEMMA BeginOrder ==
    ASSUME ServerInv, OrderInv, NEW c \in Client, op[c] # Nothing, Begin(c)
    PROVE  OrderInv'
<1> DEFINE w == op[c]
<1>1. CASE running
  <2>1. /\ pc' = [pc EXCEPT ![c] = IF raft = "nil" THEN "append" ELSE "submit"]
        /\ before' = [v \in DOMAIN before \cup {w} |-> IF v = w THEN acked ELSE before[v]]
        /\ UNCHANGED <<op, acked, refused>>
    BY Zenon, <1>1 DEF Begin
  <2>2. /\ UNCHANGED <<up, running, raft, wal, walOpen, memTable, shutdown, writes, ioFailed, crashes>>
        /\ pc[c] = "lock"
    BY Zenon DEF Begin
  <2>3. w \in Write /\ w \notin acked /\ w \notin ToSet(wal) /\ \A d \in Client \ {c} : op[d] # w
    BY Zenon, <2>2 DEF ServerInv, Types, Fresh, Unique, OrderInv, History
  <2>4. /\ DOMAIN before' = DOMAIN before \cup {w} /\ before'[w] = acked
        /\ \A v \in DOMAIN before \ {w} : before'[v] = before[v]
    BY Zenon, <2>1
  <2> HIDE DEF w
  <2>5. Ranges'  BY Zenon, <2>2 DEF OrderInv, Ranges
  <2>6. History'
    <3>1. \A d \in Client : pc'[d] \in {"submit", "append", "insert", "return"} => op[d] \in DOMAIN before'
      BY Zenon, <2>1, <2>4 DEF OrderInv, History, ServerInv, Types, w
    <3>2. \A v \in DOMAIN before' : before'[v] \subseteq acked  BY Zenon, <2>4 DEF OrderInv, History
    <3> QED  BY ZenonT(30), <2>1, <2>2, <2>3, <2>4, <3>1, <3>2 DEF OrderInv, History
  <2>7. LogOrdered'
    <3>1. \A j \in DOMAIN wal : wal[j] # w  BY Zenon, <2>3 DEF ToSet
    <3> QED  BY ZenonT(30), <2>2, <2>4, <3>1 DEF OrderInv, LogOrdered
  <2>8. ASSUME NEW v \in Write, Inserted(v)' PROVE Inserted(v) /\ v \in DOMAIN before \ {w}
    <3>1. Inserted(v)  BY ZenonT(30), <2>1, <2>2, <2>8 DEF Inserted, ServerInv, Types
    <3>2. CASE v \in acked  BY ZenonT(30), <2>3, <3>1, <3>2 DEF OrderInv, History
    <3>3. CASE \E d \in Client : pc[d] = "return" /\ op[d] = v
      BY ZenonT(30), <2>2, <2>3, <3>1, <3>3 DEF OrderInv, History
    <3> QED  BY ZenonT(30), <3>1, <3>2, <3>3 DEF Inserted
  <2>9. Shown'  BY ZenonT(30), <2>2, <2>4, <2>8 DEF OrderInv, Shown
  <2> QED  BY ZenonT(30), <2>5, <2>6, <2>7, <2>9 DEF OrderInv
<1>2. CASE ~running  BY Zenon, <1>2, RefusedOrder DEF Begin
<1> QED  BY Zenon, <1>1, <1>2

\* Submit lets the write go on or refuses it.
LEMMA SubmitOrder == ASSUME ServerInv, OrderInv, NEW c \in Client, Submit(c) PROVE OrderInv'
<1>1. op[c] # Nothing  BY Zenon, NotWrites DEF Submit, ServerInv, Types
<1>2. UNCHANGED <<up, running, raft, wal, walOpen, memTable, shutdown, writes, before, ioFailed, crashes>>
  BY Zenon DEF Submit
<1>3. CASE raft = "leader"
  <2>1. pc[c] = "submit" /\ pc' = [pc EXCEPT ![c] = "append"] /\ UNCHANGED <<op, acked, refused>>
    BY Zenon, <1>3 DEF Submit
  <2>2. Ranges'  BY Zenon, <1>2 DEF OrderInv, Ranges
  <2>3. writes \in Nat  BY ServerBounds DEF ServerInv, Types
  <2>4. refused' \cap acked = {} /\ \A d \in Client : op'[d] # Nothing => op'[d] \notin acked
    BY Zenon, <2>1 DEF OrderInv, History
  <2>5. \A d \in Client : pc'[d] \in {"submit", "append", "insert", "return"} =>
           /\ op'[d] = op[d]
           /\ pc'[d] = pc[d] \/ (pc[d] = "submit" /\ pc'[d] = "append")
    BY Zenon, <2>1 DEF ServerInv, Types
  <2> QED  BY <1>2, <2>1, <2>2, <2>3, <2>4, <2>5, QuietOrder
<1>4. CASE raft # "leader"  BY ZenonT(30), <1>1, <1>2, <1>4, RefusedOrder DEF Submit
<1> QED  BY Zenon, <1>3, <1>4

\* A log that grows by one record that is not answered, or a torn one, stays ordered.
LEMMA GrownLogOrdered ==
    ASSUME ServerInv, OrderInv, NEW e \in Write \cup {Torn}, e \notin acked,
           wal' = Append(wal, e), UNCHANGED before
    PROVE  LogOrdered'
<1>1. wal \in Seq(Write \cup {Torn})  BY Zenon DEF ServerInv, Types
<1>2. /\ Len(wal) \in Nat /\ DOMAIN wal = 1..Len(wal) /\ DOMAIN wal' = 1..(Len(wal) + 1)
      /\ \A i \in 1..Len(wal) : wal'[i] = wal[i]
      /\ wal'[Len(wal) + 1] = e
  BY <1>1, AppendProperties, LenProperties
<1>3. ASSUME NEW i \in DOMAIN wal', NEW j \in DOMAIN wal',
             wal'[j] \in DOMAIN before, wal'[i] \in before[wal'[j]]
      PROVE  i < j
  <2>1. wal'[i] # e  BY Zenon, <1>3 DEF OrderInv, History
  <2>2. i \in DOMAIN wal /\ wal'[i] = wal[i]  BY <1>2, <2>1
  <2>3. CASE j \in DOMAIN wal  BY Zenon, <1>2, <1>3, <2>2, <2>3 DEF OrderInv, LogOrdered
  <2>4. CASE j \notin DOMAIN wal  BY <1>2, <2>2, <2>4
  <2> QED  BY Zenon, <2>3, <2>4
<1> QED  BY Zenon, <1>3 DEF LogOrdered

\* What an Append leaves of a write that is not answered.
LEMMA AppendedOrdered ==
    ASSUME ServerInv, OrderInv, NEW w \in Write, w \notin acked,
           wal' \in AppendLeft(w), UNCHANGED before
    PROVE  LogOrdered'
<1>1. Torn \notin acked  BY Zenon, NotWrites DEF ServerInv, Types
<1>2. CASE wal' = wal  BY Zenon, <1>2 DEF OrderInv, LogOrdered
<1>3. CASE wal' = Append(wal, Torn)
  <2>1. Torn \in Write \cup {Torn}  BY Zenon
  <2> QED  BY ZenonT(30), <1>1, <1>3, <2>1, GrownLogOrdered
<1>4. CASE wal' = Append(wal, w)
  <2>1. w \in Write \cup {Torn}  BY Zenon
  <2> QED  BY ZenonT(30), <1>4, <2>1, GrownLogOrdered
<1> QED  BY Zenon, <1>2, <1>3, <1>4 DEF AppendLeft

\* The record of a write comes after those of the writes answered before it.
LEMMA WalAppendOrder == ASSUME ServerInv, OrderInv, NEW c \in Client, WalAppend(c) PROVE OrderInv'
<1>1. /\ pc[c] = "append" /\ pc' = [pc EXCEPT ![c] = "insert"]
      /\ UNCHANGED <<up, running, raft, walOpen, memTable, op, shutdown, writes, before, acked,
                     refused, crashes>>
  BY Zenon DEF WalAppend
<1>2. op[c] \in Write /\ op[c] # Nothing  BY Zenon, <1>1, NotWrites DEF ServerInv, Types
<1>3. walOpen  BY Zenon, <1>1 DEF ServerInv, LockKeepsLogOpen, Readers
<1>4. wal' \in AppendLeft(op[c]) /\ ioFailed \subseteq ioFailed'
  BY Zenon, <1>3 DEF WalAppend, AppendLeft
<1>5. op[c] \notin acked  BY Zenon, <1>2 DEF OrderInv, History
<1>6. ToSet(wal) \subseteq ToSet(wal')
  BY ZenonT(30), <1>2, <1>4, AppendLeftAdds DEF ServerInv, Types
<1>7. Ranges'  BY Zenon, <1>1 DEF OrderInv, Ranges
<1>8. History'
  <2>1. \A d \in Client : pc'[d] \in {"submit", "append", "insert", "return"} => op[d] \in DOMAIN before
    BY ZenonT(30), <1>1 DEF OrderInv, History, ServerInv, Types
  <2> QED  BY Zenon, <1>1, <2>1 DEF OrderInv, History
<1>9. LogOrdered'  BY ZenonT(30), <1>1, <1>2, <1>4, <1>5, AppendedOrdered
<1>10. \A v \in Write : Inserted(v)' => Inserted(v)
  BY ZenonT(30), <1>1, <1>4 DEF Inserted, ServerInv, Types
<1>11. Shown'  BY ZenonT(30), <1>1, <1>6, <1>10 DEF OrderInv, Shown
<1> QED  BY ZenonT(30), <1>7, <1>8, <1>9, <1>11 DEF OrderInv

\* What a write covers in the MemTable is never newer than an answer: the write
\* itself is not answered yet.
LEMMA MemTableInsertOrder ==
    ASSUME ServerInv, OrderInv, NEW c \in Client, MemTableInsert(c)
    PROVE  OrderInv'
<1> DEFINE w == op[c]
<1>1. /\ pc[c] = "insert" /\ pc' = [pc EXCEPT ![c] = "return"]
      /\ memTable' = [memTable EXCEPT ![w.key] = w]
      /\ UNCHANGED <<up, running, raft, wal, walOpen, op, shutdown, writes, before, acked, refused,
                     ioFailed, crashes>>
  BY Zenon DEF MemTableInsert, history
<1>2. w \in Write /\ w # Nothing /\ w.key \in Key
  BY Zenon, <1>1, NotWrites DEF ServerInv, Types, Write
<1>3. w \notin acked /\ w \in DOMAIN before  BY Zenon, <1>1, <1>2 DEF OrderInv, History
<1> HIDE DEF w
<1>4. Ranges'  BY Zenon, <1>1 DEF OrderInv, Ranges
<1>5. History'
  <2>1. \A d \in Client : pc'[d] \in {"submit", "append", "insert", "return"} => op[d] \in DOMAIN before
    BY Zenon, <1>1, <1>3 DEF OrderInv, History, ServerInv, Types, w
  <2> QED  BY Zenon, <1>1, <2>1 DEF OrderInv, History
<1>6. LogOrdered'  BY Zenon, <1>1 DEF OrderInv, LogOrdered
<1>7. ASSUME NEW v \in Write, Inserted(v)' PROVE Inserted(v) \/ v = w
  BY Zenon, <1>1, <1>7 DEF Inserted, ServerInv, Types, w
<1>8. ASSUME NEW v \in Write, Inserted(v)', up, Torn \notin ToSet(wal)
      PROVE  memTable'[v.key] # Nothing /\ memTable'[v.key] \notin before[v]
  <2>1. v.key \in Key /\ memTable \in [Key -> Write \cup {Nothing}]
    BY Zenon DEF ServerInv, Types, Write
  <2>2. v \in DOMAIN before
    BY <1>1, <1>3, <1>7, <1>8 DEF Inserted, OrderInv, History
  <2>3. w \notin before[v]  BY Zenon, <1>3, <2>2 DEF OrderInv, History
  <2>4. CASE v.key = w.key
    <3>1. memTable'[v.key] = w  BY ZenonT(30), <1>1, <1>2, <2>1, <2>4
    <3> QED  BY Zenon, <1>2, <2>3, <3>1
  <2>5. CASE v.key # w.key
    <3>1. memTable'[v.key] = memTable[v.key]  BY ZenonT(30), <1>1, <2>1, <2>5
    <3>2. Inserted(v)  BY ZenonT(30), <1>7, <1>8, <2>5
    <3> QED  BY ZenonT(30), <1>8, <3>1, <3>2 DEF OrderInv, Shown
  <2> QED  BY Zenon, <2>4, <2>5
<1>9. Shown'  BY ZenonT(30), <1>1, <1>8 DEF Shown
<1> QED  BY Zenon, <1>4, <1>5, <1>6, <1>9 DEF OrderInv

\* An answered write has been inserted.
LEMMA ReturnOrder == ASSUME ServerInv, OrderInv, NEW c \in Client, Return(c) PROVE OrderInv'
<1> DEFINE w == op[c]
<1>1. /\ pc[c] = "return" /\ pc' = [pc EXCEPT ![c] = "idle"] /\ op' = [op EXCEPT ![c] = Nothing]
      /\ acked' = acked \cup {w} /\ refused' = refused
      /\ UNCHANGED <<up, running, raft, wal, walOpen, memTable, shutdown, writes, before, ioFailed, crashes>>
  BY Zenon DEF Return, sendWriteResponse
<1>2. /\ w \in Write /\ w # Nothing /\ w.n <= writes /\ w \notin refused
      /\ \A d \in Client \ {c} : op[d] # w
  BY ZenonT(30), <1>1, NotWrites DEF ServerInv, Types, Unique
<1>3. w \in DOMAIN before  BY Zenon, <1>1 DEF OrderInv, History
<1>4. Inserted(w)  BY Zenon, <1>1 DEF Inserted
<1>5. pc \in [Client -> {"idle", "lock", "submit", "append", "insert", "return", "get"}]
      /\ op \in [Client -> Write \cup {Nothing}]
  BY Zenon DEF ServerInv, Types
<1>6. \A d \in Client : /\ d # c => op'[d] = op[d] /\ pc'[d] = pc[d]
                        /\ op'[c] = Nothing /\ pc'[c] = "idle"
  BY Zenon, <1>1, <1>5
<1> HIDE DEF w
<1>7. Ranges'  BY Zenon, <1>1 DEF OrderInv, Ranges
<1>8. History'  BY <1>1, <1>2, <1>3, <1>6 DEF OrderInv, History
<1>9. LogOrdered'  BY Zenon, <1>1 DEF OrderInv, LogOrdered
<1>10. \A v \in Write : Inserted(v)' => Inserted(v)  BY Zenon, <1>1, <1>4, <1>6 DEF Inserted
<1>11. Shown'  BY Zenon, <1>1, <1>10 DEF OrderInv, Shown
<1> QED  BY Zenon, <1>7, <1>8, <1>9, <1>11 DEF OrderInv

\* The process ends, and the log it leaves is ordered.
LEMMA GoneOrder ==
    ASSUME ServerInv, OrderInv, Gone, LogOrdered', crashes' \in 0..MaxCrashes
    PROVE  OrderInv'
<1>1. /\ up' = FALSE /\ running' = FALSE /\ walOpen' = FALSE /\ shutdown' = "no"
      /\ pc' = [c \in Client |-> "idle"] /\ op' = [c \in Client |-> Nothing]
      /\ UNCHANGED <<raft, writes, before, acked, refused, ioFailed>>
  BY Zenon DEF Gone, history
<1>2. Ranges'  BY Zenon, <1>1 DEF OrderInv, Ranges
<1>3. History'  BY Zenon, <1>1 DEF OrderInv, History
<1>4. Shown'  BY Zenon, <1>1 DEF Shown
<1> QED  BY ZenonT(30), <1>2, <1>3, <1>4 DEF OrderInv

\* A crash in an Append, and an orderly end.
LEMMA EndOrder == ASSUME ServerInv, OrderInv, Crash \/ Exit PROVE OrderInv'
<1>1. Gone /\ UNCHANGED before  BY Zenon DEF Crash, Exit, Gone, history
<1>2. crashes' \in 0..MaxCrashes  BY ServerBounds DEF Crash, Exit, OrderInv, Ranges
<1>3. CASE wal' = wal
  <2>1. LogOrdered'  BY Zenon, <1>1, <1>3 DEF OrderInv, LogOrdered
  <2> QED  BY Zenon, <1>1, <1>2, <2>1, GoneOrder
<1>4. CASE wal' # wal
  <2>1. PICK c \in Client : pc[c] = "append" /\ wal' \in AppendLeft(op[c])  BY Zenon, <1>4 DEF Crash, Exit
  <2>2. op[c] \in Write /\ op[c] # Nothing  BY ZenonT(30), <2>1, NotWrites DEF ServerInv, Types
  <2>3. op[c] \notin acked  BY Zenon, <2>2 DEF OrderInv, History
  <2>4. LogOrdered'  BY ZenonT(30), <1>1, <2>1, <2>2, <2>3, AppendedOrdered
  <2> QED  BY Zenon, <1>1, <1>2, <2>4, GoneOrder
<1> QED  BY Zenon, <1>3, <1>4

\* The replay of a log with no tear shows, for the key of an answered write, that
\* write or one that the log has after it.
LEMMA RestartOrder == ASSUME ServerInv, OrderInv, Restart PROVE OrderInv'
<1>1. /\ ~up /\ up' = TRUE /\ running' = TRUE /\ walOpen' = TRUE /\ memTable' = Replay(wal)
      /\ raft' = IF raft = "nil" THEN "nil" ELSE "follower"
      /\ UNCHANGED <<wal, pc, op, shutdown, writes, before, acked, refused, ioFailed, crashes>>
  BY Zenon DEF Restart, Start, handlerVars, history
<1>2. Ranges'  BY Zenon, <1>1 DEF OrderInv, Ranges
<1>3. History'  BY Zenon, <1>1 DEF OrderInv, History
<1>4. LogOrdered'  BY Zenon, <1>1 DEF OrderInv, LogOrdered
<1>5. \A c \in Client : pc[c] # "return"
  BY Zenon, <1>1 DEF OrderInv, Ranges, ServerInv, LockKeepsLogOpen, Readers
<1>6. ASSUME NEW w \in Write, Inserted(w)', Torn \notin ToSet(wal)
      PROVE  Replay(wal)[w.key] # Nothing /\ Replay(wal)[w.key] \notin before[w]
  <2>1. w \in acked \ ioFailed  BY ZenonT(30), <1>1, <1>5, <1>6 DEF Inserted
  <2>2. w \in ToSet(wal) /\ w \in DOMAIN before
    BY Zenon, <2>1 DEF ServerInv, AckedIsLogged, Logged, OrderInv, History
  <2>3. wal \in Seq(Write \cup {Torn})  BY Zenon DEF ServerInv, Types
  <2>4. PICK j \in DOMAIN wal : wal[j] = w  BY Zenon, <2>2 DEF ToSet
  <2>5. PICK m \in DOMAIN wal : m >= j /\ Replay(wal)[w.key] = wal[m]
    BY ZenonT(30), <1>6, <2>3, <2>4, ReplayNotBefore
  <2>6. wal[m] \in ToSet(wal)  BY Zenon, <2>5 DEF ToSet
  <2>7. wal[m] # Nothing
    <3>1. wal[m] \in Write \cup {Torn}  BY <2>3, <2>5, LenProperties
    <3>2. wal[m] # Torn  BY Zenon, <1>6, <2>6
    <3> QED  BY ZenonT(30), <3>1, <3>2, NotWrites
  <2>8. wal[m] \notin before[w]
    <3>1. wal[m] \in before[w] => m < j  BY Zenon, <2>2, <2>4, <2>5 DEF OrderInv, LogOrdered
    <3>2. m \in Nat /\ j \in Nat  BY <2>3, <2>4, <2>5, LenProperties
    <3> QED  BY <2>5, <3>1, <3>2
  <2> QED  BY ZenonT(30), <2>5, <2>7, <2>8
<1>7. Shown'  BY Zenon, <1>1, <1>6 DEF Shown
<1> QED  BY ZenonT(30), <1>2, <1>3, <1>4, <1>7 DEF OrderInv

\* No step takes the order of the writes away.
LEMMA NextOrder == ASSUME ServerInv, OrderInv, [Next]_vars PROVE OrderInv'
<1>1. ASSUME NEW c \in Client, PutGeo(c) \/ FocusTombstone(c) PROVE OrderInv'
  BY Zenon, <1>1, BeginOrder DEF PutGeo, FocusTombstone
<1> QED
  BY Zenon, <1>1, RequestWriteOrder, IdleOrder, SubmitOrder, WalAppendOrder, MemTableInsertOrder,
     ReturnOrder, EndOrder, RestartOrder
  DEF Next

\* The order of the writes holds in every state.
LEMMA OrderInvariant == Spec => []OrderInv
<1>1. Init => OrderInv  BY Zenon, InitOrder
<1>2. ServerInv /\ OrderInv /\ [Next]_vars => OrderInv'  BY Zenon, NextOrder
<1> QED  BY <1>1, <1>2, ServerInvariant, PTL DEF Spec

\* The handlers, main and the replay keep every part of the state in its range.
THEOREM ServerTypes == Spec => []TypeOK
<1>1. ServerInv /\ OrderInv => TypeOK
  <2> SUFFICES ASSUME ServerInv, OrderInv PROVE TypeOK  BY Zenon
  <2>1. \A c \in Client : op[c] \in IF pc[c] \in {"idle", "get"} THEN {Nothing}
                                   ELSE IF pc[c] = "lock" THEN Write \cup {Nothing} ELSE Write
    BY Zenon DEF ServerInv, Types
  <2>2. DOMAIN before \subseteq Write /\ \A w \in DOMAIN before : before[w] \subseteq Write
    BY Zenon DEF ServerInv, Types, OrderInv, History
  <2>3. refused \subseteq Write \ acked  BY Zenon DEF ServerInv, Types, OrderInv, History
  <2> QED  BY ZenonT(30), <2>1, <2>2, <2>3 DEF TypeOK, ServerInv, Types, OrderInv, Ranges
<1> QED  BY <1>1, ServerInvariant, OrderInvariant, PTL

\* Once a write is answered with success, its key never shows nothing nor a write
\* that had been answered before it began: not with any number of handlers
\* overlapping between Append and the MemTable, and not after any number of
\* crashes and replays of a log with no tear.
THEOREM AnswersNeverGoBack == Spec => []NeverOlderThanAcked
<1>1. ServerInv /\ OrderInv => NeverOlderThanAcked
  <2> SUFFICES ASSUME ServerInv, OrderInv PROVE NeverOlderThanAcked  BY Zenon
  <2>1. acked \subseteq Write  BY Zenon DEF ServerInv, Types
  <2>2. \A w \in acked \ ioFailed : Inserted(w)  BY Zenon DEF Inserted
  <2> QED  BY ZenonT(30), <2>1, <2>2 DEF NeverOlderThanAcked, OrderInv, Shown
<1> QED  BY <1>1, ServerInvariant, OrderInvariant, PTL
=============================================================================
