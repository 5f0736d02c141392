------------------------ MODULE HallownestNodeProofs ------------------------
(***************************************************************************)
(* The reader of applyCh puts exactly a prefix of the Raft log, and the    *)
(* MemTable settles on the end of the log, for any number of connections   *)
(* and writes and any capacity of the channel.  For the reader the         *)
(* inductive invariant is the property together with the types: what       *)
(* matters in them is that the commit index stays within the log and that  *)
(* nothing past it is ever sent.  The MemTable follows from the last put.  *)
(***************************************************************************)
EXTENDS HallownestNode, SequenceTheorems, TLAPS

Received == IF inHand = 0 THEN <<>> ELSE <<inHand>>

IInv == TypeOK /\ PutIsLogPrefix

\* What the reader has in hand is a sequence of at most one write.
LEMMA ReceivedType == ASSUME TypeOK PROVE Received \in Seq(Written)
BY DEF TypeOK, Received

\* A part of a sequence is a sequence.
LEMMA PrefixType ==
    ASSUME NEW S, NEW s \in Seq(S), NEW n \in 0..Len(s)
    PROVE  SubSeq(s, 1, n) \in Seq(S) /\ Len(SubSeq(s, 1, n)) = n
           /\ \A i \in 1..n : SubSeq(s, 1, n)[i] = s[i]
BY SubSeqProperties

\* A sequence that keeps the first n elements of another keeps every shorter prefix.
LEMMA PrefixKept ==
    ASSUME NEW S, NEW s \in Seq(S), NEW n \in 0..Len(s), NEW e \in S, NEW m \in 0..n
    PROVE  /\ Append(SubSeq(s, 1, n), e) \in Seq(S)
           /\ Len(Append(SubSeq(s, 1, n), e)) = n + 1
           /\ SubSeq(Append(SubSeq(s, 1, n), e), 1, m) = SubSeq(s, 1, m)
<1> DEFINE p == SubSeq(s, 1, n)
           t == Append(p, e)
<1>1. p \in Seq(S) /\ Len(p) = n /\ \A i \in 1..n : p[i] = s[i]  BY Zenon, PrefixType
<1> HIDE DEF p
<1>2. t \in Seq(S) /\ Len(t) = n + 1 /\ \A i \in 1..n : t[i] = s[i]
  BY <1>1, AppendProperties
<1> HIDE DEF t
<1>3. /\ SubSeq(t, 1, m) \in Seq(S) /\ Len(SubSeq(t, 1, m)) = m
      /\ \A i \in 1..m : SubSeq(t, 1, m)[i] = t[i]
  BY <1>2, PrefixType
<1>4. /\ SubSeq(s, 1, m) \in Seq(S) /\ Len(SubSeq(s, 1, m)) = m
      /\ \A i \in 1..m : SubSeq(s, 1, m)[i] = s[i]
  BY PrefixType
<1>5. SubSeq(t, 1, m) = SubSeq(s, 1, m)
  BY <1>2, <1>3, <1>4, SeqEqual
<1> QED  BY Zenon, <1>2, <1>5 DEF t, p

\* Append keeps every prefix.
LEMMA AppendPrefix ==
    ASSUME NEW S, NEW s \in Seq(S), NEW e \in S, NEW m \in 0..Len(s)
    PROVE  SubSeq(Append(s, e), 1, m) = SubSeq(s, 1, m)
BY PrefixKept, SubSeqFull

\* The invariant holds of a node that has just started.
LEMMA InitIInv == Init => IInv
<1> SUFFICES ASSUME Init PROVE IInv  BY Zenon
<1>0. <<>> \in Seq(Written) /\ Len(<<>>) = 0  BY Zenon, EmptySeq
<1>1. TypeOK
  <2>1. /\ log \in Seq(Written) /\ commitIndex \in 0..Len(log) /\ lastApplied \in 0..commitIndex
        /\ applyCh \in Seq(Written) /\ Len(applyCh) <= Cap /\ put \in Seq(Written)
    BY <1>0, NodeAssumption DEF Init, NodeLogInit
  <2>2. /\ pc \in [Client -> {"idle", "submit", "insert"}] /\ op \in [Client -> 0..MaxWrites]
        /\ \A c \in Client : op[c] = 0 <=> pc[c] = "idle"
        /\ writes \in 0..MaxWrites
    BY NodeAssumption DEF Init
  <2> QED  BY Zenon, <2>1, <2>2 DEF Init, NodeLogInit, TypeOK
<1>2. SubSeq(log, 1, 0) = <<>>  BY SubSeqEmpty
<1>3. PutIsLogPrefix
  <2>1. <<>> \in Seq(Written)  BY Zenon, EmptySeq
  <2>2. <<>> \o <<>> = <<>>  BY Zenon, <2>1, ConcatEmptySeq
  <2> QED  BY Zenon, <1>2, <2>2 DEF Init, NodeLogInit, PutIsLogPrefix
<1> QED  BY Zenon, <1>1, <1>3 DEF IInv

\* The invariant when a step moves nothing along the way from log to put.
LEMMA SamePrefix ==
    ASSUME PutIsLogPrefix, UNCHANGED <<put, inHand, applyCh, lastApplied>>,
           SubSeq(log', 1, lastApplied) = SubSeq(log, 1, lastApplied)
    PROVE  PutIsLogPrefix'
BY Zenon DEF PutIsLogPrefix

\* Submit adds to the log above everything that was sent.
LEMMA SubmitStep == ASSUME IInv, NEW c \in Client, Submit(c) PROVE IInv'
<1> USE DEF IInv, nodeVars, applyVars, handlerVars
<1>1. CASE ~leads
  <2>1. /\ pc' = [pc EXCEPT ![c] = "idle"] /\ op' = [op EXCEPT ![c] = 0]
        /\ UNCHANGED <<log, leads, commitIndex, applyVars, memTable, writes, main, late>>
    BY Zenon, <1>1 DEF Submit
  <2>2. op' \in [Client -> 0..MaxWrites] /\ \A d \in Client : op'[d] = 0 <=> pc'[d] = "idle"
    BY <2>1, NodeAssumption DEF TypeOK
  <2>3. TypeOK'  BY Zenon, <2>1, <2>2 DEF TypeOK, Written
  <2>4. PutIsLogPrefix'  BY Zenon, <1>1, SamePrefix DEF Submit
  <2> QED  BY Zenon, <2>3, <2>4
<1>2. CASE leads
  <2>1. op[c] \in Written  BY DEF TypeOK, Submit, Written
  <2>2. log' = Append(log, op[c])  BY Zenon, <1>2 DEF Submit
  <2>3. log' \in Seq(Written) /\ Len(log') = Len(log) + 1
    BY <2>1, <2>2, AppendProperties DEF TypeOK
  <2>4. TypeOK'  BY <1>2, <2>3 DEF TypeOK, Submit
  <2>5. SubSeq(log', 1, lastApplied) = SubSeq(log, 1, lastApplied)
    BY <2>1, <2>2, AppendPrefix DEF TypeOK
  <2>6. PutIsLogPrefix'  BY Zenon, <2>5, SamePrefix DEF Submit
  <2> QED  BY Zenon, <2>4, <2>6
<1> QED  BY Zenon, <1>1, <1>2 DEF TypeOK

\* Another leader rewrites the log above the commit index, and so above lastApplied.
LEMMA ReplicateStep == ASSUME IInv, Replicate PROVE IInv'
<1> USE DEF IInv, nodeVars, applyVars, handlerVars
<1>1. log' \in Seq(Written) /\ SubSeq(log', 1, lastApplied) = SubSeq(log, 1, lastApplied)
  <2>1. CASE log' = log  BY Zenon, <2>1 DEF TypeOK
  <2>2. CASE log' # log
    <3>1. PICK n \in commitIndex..Len(log), f \in Foreign : log' = Append(SubSeq(log, 1, n), f)
      BY <2>2 DEF Replicate
    <3>2. f \in Written /\ n \in 0..Len(log) /\ lastApplied \in 0..n  BY DEF TypeOK, Written
    <3> QED  BY <3>1, <3>2, PrefixKept DEF TypeOK
  <2> QED  BY Zenon, <2>1, <2>2
<1>2. commitIndex' \in commitIndex..Len(log')  BY DEF Replicate
<1>3. TypeOK'
  <2>1. Len(log') \in Nat  BY Zenon, <1>1, LenProperties
  <2>2. commitIndex' \in 0..Len(log') /\ lastApplied' \in 0..commitIndex'
    BY <1>2, <2>1 DEF TypeOK, Replicate
  <2> QED  BY Zenon, <1>1, <2>2 DEF TypeOK, Replicate
<1>4. PutIsLogPrefix'  BY Zenon, <1>1, SamePrefix DEF Replicate
<1> QED  BY Zenon, <1>3, <1>4

\* applyLogs sends the entry after the last one sent.
LEMMA ApplySendStep == ASSUME IInv, ApplySend PROVE IInv'
<1> USE DEF IInv, nodeVars, applyVars, handlerVars
<1> DEFINE e == log[lastApplied + 1]
<1>1. lastApplied + 1 \in 1..Len(log) /\ e \in Written  BY DEF TypeOK, ApplySend
<1>2. applyCh' = Append(applyCh, e) /\ lastApplied' = lastApplied + 1  BY Zenon DEF ApplySend
<1>3. applyCh' \in Seq(Written) /\ Len(applyCh') = Len(applyCh) + 1 /\ applyCh' = applyCh \o <<e>>
  BY SMTT(30), <1>1, <1>2, AppendProperties, AppendIsConcat DEF TypeOK
<1>4. TypeOK'
  <2>1. Len(applyCh') <= Cap  BY <1>3, NodeAssumption, LenProperties DEF TypeOK, ApplySend
  <2>2. lastApplied' \in 0..commitIndex'  BY <1>2, LenProperties DEF TypeOK, ApplySend
  <2>3. UNCHANGED <<leads, log, commitIndex, inHand, put, memTable, pc, op, writes, main, late>>
    BY Zenon DEF ApplySend
  <2>4. applyCh' \in Seq(Written)  BY Zenon, <1>3
  <2> HIDE DEF e
  <2> QED  BY Zenon, <2>1, <2>2, <2>3, <2>4 DEF TypeOK
<1>5. PutIsLogPrefix'
  <2> DEFINE before == put \o Received
  <2>1. before \in Seq(Written)  BY Zenon, ReceivedType, ConcatProperties DEF TypeOK
  <2>2. <<e>> \in Seq(Written)  BY <1>1
  <2>3. before \o applyCh = SubSeq(log, 1, lastApplied)  BY Zenon DEF PutIsLogPrefix, Received
  <2>4. SubSeq(log, 1, lastApplied + 1) = SubSeq(log, 1, lastApplied) \o <<e>>
    <3>1. 1 \in 1..Len(log) /\ lastApplied + 1 \in 1..Len(log)  BY <1>1 DEF TypeOK
    <3>2. SubSeq(log, 1, lastApplied + 1) = SubSeq(log, 1, (lastApplied + 1) - 1) \o <<e>>
      BY Zenon, <3>1, SubSeqRecursiveSecond DEF TypeOK
    <3>3. (lastApplied + 1) - 1 = lastApplied  BY DEF TypeOK
    <3> QED  BY Zenon, <3>2, <3>3
  <2> HIDE DEF e, before
  <2>5. before \o (applyCh \o <<e>>) = (before \o applyCh) \o <<e>>
    <3>1. applyCh \in Seq(Written)  BY Zenon DEF TypeOK
    <3> QED  BY SMTT(30), <2>1, <2>2, <3>1, ConcatAssociative
  <2>6. before \o applyCh' = SubSeq(log, 1, lastApplied')  BY Zenon, <1>2, <1>3, <2>3, <2>4, <2>5
  <2> QED  BY Zenon, <2>6 DEF PutIsLogPrefix, Received, ApplySend, before
<1> QED  BY Zenon, <1>4, <1>5

\* The reader takes the oldest entry of the channel.
LEMMA ReceiveStep == ASSUME IInv, Receive PROVE IInv'
<1> USE DEF IInv, nodeVars, applyVars, handlerVars
<1>1. applyCh # <<>> /\ inHand = 0 /\ inHand' = Head(applyCh) /\ applyCh' = Tail(applyCh)
  BY Zenon DEF Receive
<1>2. Head(applyCh) \in Written /\ Tail(applyCh) \in Seq(Written) /\ Len(Tail(applyCh)) = Len(applyCh) - 1
  BY Zenon, <1>1, HeadTailProperties DEF TypeOK
<1>3. TypeOK'
  <2>1. Len(applyCh') <= Cap  BY SMTT(30), <1>1, <1>2, NodeAssumption, LenProperties DEF TypeOK
  <2> QED  BY Zenon, <1>1, <1>2, <2>1 DEF TypeOK, Receive
<1>4. applyCh = <<Head(applyCh)>> \o Tail(applyCh)
  <2>1. Len(applyCh) \in Nat \ {0} /\ 1 \in 1..Len(applyCh) /\ Len(applyCh) \in 1..Len(applyCh)
    BY <1>1, EmptySeq DEF TypeOK
  <2>2. SubSeq(applyCh, 1, Len(applyCh)) = <<applyCh[1]>> \o SubSeq(applyCh, 1 + 1, Len(applyCh))
    BY Zenon, <2>1, SubSeqRecursiveFirst DEF TypeOK
  <2>3. 1 + 1 = 2 /\ Head(applyCh) = applyCh[1]  BY <1>1 DEF TypeOK
  <2>4. Tail(applyCh) = SubSeq(applyCh, 2, Len(applyCh))  BY Zenon, <1>1, TailIsSubSeq DEF TypeOK
  <2>5. SubSeq(applyCh, 1, Len(applyCh)) = applyCh  BY Zenon, SubSeqFull DEF TypeOK
  <2> QED  BY Zenon, <2>2, <2>3, <2>4, <2>5
<1>5. PutIsLogPrefix'
  <2> DEFINE h == Head(applyCh)
             t == Tail(applyCh)
  <2>1. h # 0  BY <1>2, NodeAssumption DEF Written
  <2>2. (put \o <<>>) \o applyCh = SubSeq(log, 1, lastApplied)  BY Zenon, <1>1 DEF PutIsLogPrefix
  <2>3. put \o <<>> = put  BY Zenon, ConcatEmptySeq DEF TypeOK
  <2>4. <<h>> \in Seq(Written) /\ t \in Seq(Written)  BY <1>2
  <2>5. applyCh = <<h>> \o t  BY Zenon, <1>4
  <2>6. inHand' = h /\ applyCh' = t  BY Zenon, <1>1
  <2> HIDE DEF h, t
  <2>7. (put \o <<h>>) \o t = put \o (<<h>> \o t)
    <3>1. put \in Seq(Written)  BY Zenon DEF TypeOK
    <3> QED  BY SMTT(30), <2>4, <3>1, ConcatAssociative
  <2>8. (put \o <<h>>) \o t = SubSeq(log, 1, lastApplied)  BY Zenon, <2>2, <2>3, <2>5, <2>7
  <2> QED  BY Zenon, <2>1, <2>6, <2>8 DEF PutIsLogPrefix, Receive
<1> QED  BY Zenon, <1>3, <1>5

\* The entry in hand becomes the last one put.
LEMMA ApplyStep == ASSUME IInv, Apply PROVE IInv'
<1> USE DEF IInv, nodeVars, applyVars, handlerVars
<1>1. inHand # 0 /\ inHand' = 0 /\ put' = Append(put, inHand) /\ inHand \in Written
  BY Zenon DEF Apply, TypeOK
<1>2. put' \in Seq(Written) /\ put' = put \o <<inHand>>
  BY ZenonT(30), <1>1, AppendProperties, AppendIsConcat DEF TypeOK
<1>3. TypeOK'  BY Zenon, <1>1, <1>2 DEF TypeOK, Apply
<1>4. PutIsLogPrefix'
  <2>1. put' \o <<>> = put'  BY Zenon, <1>2, ConcatEmptySeq
  <2>2. (put \o <<inHand>>) \o applyCh = SubSeq(log, 1, lastApplied)  BY Zenon, <1>1 DEF PutIsLogPrefix
  <2>3. (put' \o <<>>) \o applyCh = SubSeq(log, 1, lastApplied)  BY Zenon, <1>2, <2>1, <2>2
  <2> QED  BY Zenon, <1>1, <2>3 DEF PutIsLogPrefix, Apply
<1> QED  BY Zenon, <1>3, <1>4

\* No step takes the invariant away.
LEMMA NextIInv == ASSUME IInv, [Next]_vars PROVE IInv'
<1> USE DEF IInv, nodeVars, applyVars, handlerVars
<1>1. ASSUME NEW c \in Client, PutGeo(c) PROVE IInv'
  <2>1. TypeOK'
    <3>1. writes + 1 \in 1..MaxWrites  BY <1>1, NodeAssumption DEF TypeOK, PutGeo
    <3> QED  BY <1>1, <3>1 DEF TypeOK, PutGeo
  <2>2. PutIsLogPrefix'  BY Zenon, <1>1, SamePrefix DEF PutGeo
  <2> QED  BY Zenon, <2>1, <2>2
<1>2. ASSUME NEW c \in Client, Submit(c) PROVE IInv'  BY ZenonT(30), <1>2, SubmitStep
<1>3. ASSUME NEW c \in Client, Insert(c) PROVE IInv'
  <2>1. late' \in BOOLEAN  BY Zenon, <1>3, Zenon DEF Insert
  <2>2. op[c] \in Written  BY <1>3 DEF TypeOK, Insert, Written
  <2>3. /\ pc' = [pc EXCEPT ![c] = "idle"] /\ op' = [op EXCEPT ![c] = 0] /\ memTable' = op[c]
        /\ UNCHANGED <<log, leads, commitIndex, applyVars, writes, main>>
    BY Zenon, <1>3 DEF Insert
  <2>4. op' \in [Client -> 0..MaxWrites] /\ \A d \in Client : op'[d] = 0 <=> pc'[d] = "idle"
    BY SMTT(30), <2>3, NodeAssumption DEF TypeOK
  <2>5. TypeOK'  BY ZenonT(30), <2>1, <2>2, <2>3, <2>4 DEF TypeOK
  <2>6. PutIsLogPrefix'  BY Zenon, <2>3, SamePrefix
  <2> QED  BY Zenon, <2>5, <2>6
<1>4. ASSUME Commit PROVE IInv'
  <2>1. TypeOK'  BY <1>4 DEF TypeOK, Commit
  <2>2. PutIsLogPrefix'  BY Zenon, <1>4, SamePrefix DEF Commit
  <2> QED  BY Zenon, <2>1, <2>2
<1>5. ASSUME RoleChange PROVE IInv'
  <2>1. leads' \in BOOLEAN  BY Zenon, <1>5, Zenon DEF RoleChange
  <2>2. TypeOK'  BY Zenon, <1>5, <2>1 DEF TypeOK, RoleChange
  <2>3. PutIsLogPrefix'  BY Zenon, <1>5, SamePrefix DEF RoleChange
  <2> QED  BY Zenon, <2>2, <2>3
<1>6. ASSUME Signal \/ Stop \/ Kill PROVE IInv'
  <2>1. TypeOK'  BY Zenon, <1>6 DEF TypeOK, Signal, Stop, Kill
  <2>2. PutIsLogPrefix'  BY ZenonT(30), <1>6, SamePrefix DEF Signal, Stop, Kill
  <2> QED  BY Zenon, <2>1, <2>2
<1>7. ASSUME UNCHANGED vars PROVE IInv'
  <2>1. TypeOK'  BY Zenon, <1>7 DEF TypeOK, vars
  <2>2. PutIsLogPrefix'  BY Zenon, <1>7, SamePrefix DEF vars
  <2> QED  BY Zenon, <2>1, <2>2
<1> QED
  BY ZenonT(30), <1>1, <1>2, <1>3, <1>4, <1>5, <1>6, <1>7, ReplicateStep, ApplySendStep, ReceiveStep, ApplyStep
  DEF Next

\* For any number of connections and writes and any capacity of applyCh, the
\* reader puts the entries of the log in order, each once, and none of them is
\* replaced afterwards by another leader.
THEOREM ReaderFollowsLog == Spec => []PutIsLogPrefix
<1>1. Init => IInv  BY Zenon, InitIInv
<1>2. IInv /\ [Next]_vars => IInv'  BY Zenon, NextIInv
<1>3. IInv => PutIsLogPrefix  BY Zenon DEF IInv
<1> QED  BY <1>1, <1>2, <1>3, PTL DEF Spec

\* Every state has the types TypeOK gives: the commit index stays within the
\* log, lastApplied within the commit index, and the channel within its capacity.
THEOREM NodeTypes == Spec => []TypeOK
<1>1. Init => IInv  BY Zenon, InitIInv
<1>2. IInv /\ [Next]_vars => IInv'  BY Zenon, NextIInv
<1>3. IInv => TypeOK  BY Zenon DEF IInv
<1> QED  BY <1>1, <1>2, <1>3, PTL DEF Spec
-----------------------------------------------------------------------------
(* What the MemTable settles on.  The reader's last put is what it holds once *)
(* the whole log has been put; a handler's put after that is a late one,      *)
(* because its write is then either among those put or not in the log.        *)

\* What the reader has put is the front of the log.
LEMMA PutIsFront ==
    ASSUME IInv
    PROVE  /\ Len(put) \in Nat /\ Len(put) <= lastApplied
           /\ \A k \in 1..Len(put) : put[k] = log[k]
<1> DEFINE q == Received \o applyCh
<1>1. /\ put \in Seq(Written) /\ applyCh \in Seq(Written) /\ log \in Seq(Written)
      /\ lastApplied \in 0..Len(log)
  BY DEF IInv, TypeOK
<1>2. Received \in Seq(Written)  BY Zenon, ReceivedType DEF IInv
<1>3. q \in Seq(Written)  BY Zenon, <1>1, <1>2, ConcatProperties
<1>4. put \o q = SubSeq(log, 1, lastApplied)
  <2>1. (put \o Received) \o applyCh = SubSeq(log, 1, lastApplied)
    BY Zenon DEF IInv, PutIsLogPrefix, Received
  <2>2. (put \o Received) \o applyCh = put \o (Received \o applyCh)
    BY SMTT(30), <1>1, <1>2, ConcatAssociative
  <2> QED  BY Zenon, <2>1, <2>2
<1> HIDE DEF q
<1>5. PICK w : w = put \o q  BY Zenon
<1>6. /\ Len(w) = Len(put) + Len(q)
      /\ \A k \in 1..(Len(put) + Len(q)) : w[k] = IF k <= Len(put) THEN put[k] ELSE q[k - Len(put)]
  BY Zenon, <1>1, <1>3, <1>5, ConcatProperties
<1>7. Len(w) = lastApplied /\ \A k \in 1..lastApplied : w[k] = log[k]
  BY ZenonT(30), <1>1, <1>4, <1>5, PrefixType
<1>8. Len(put) \in Nat /\ Len(q) \in Nat  BY Zenon, <1>1, <1>3, LenProperties
<1>9. Len(put) <= lastApplied  BY <1>6, <1>7, <1>8
<1>10. ASSUME NEW k \in 1..Len(put) PROVE put[k] = log[k]
  <2>1. k \in 1..(Len(put) + Len(q)) /\ k <= Len(put) /\ k \in 1..lastApplied
    BY <1>6, <1>7, <1>8
  <2> QED  BY ZenonT(30), <1>6, <1>7, <2>1
<1> QED  BY Zenon, <1>8, <1>9, <1>10

\* Once the reader has put as many entries as the log has, the MemTable holds the
\* last of them, unless a handler was late.
LastPutShows == ~late /\ put # <<>> /\ Len(put) = Len(log) => memTable = put[Len(put)]

\* No step hides the last entry that was put behind an older one.
LEMMA LastPutStays == ASSUME IInv, LastPutShows, [Next]_vars PROVE LastPutShows'
<1>1. /\ put \in Seq(Written) /\ log \in Seq(Written) /\ Len(put) \in Nat /\ Len(log) \in Nat
      /\ Len(put) <= Len(log) /\ lastApplied \in Nat /\ commitIndex \in Nat
      /\ Len(put) <= lastApplied /\ lastApplied <= commitIndex
  BY SMTT(30), PutIsFront DEF IInv, TypeOK
<1>2. CASE UNCHANGED <<late, put, log, memTable>>
  BY Zenon, <1>2 DEF LastPutShows
<1>3. CASE put' = put /\ Len(log') > Len(put)
  BY <1>1, <1>3 DEF LastPutShows
<1>4. ASSUME NEW c \in Client, Submit(c) PROVE LastPutShows'
  <2>1. CASE leads
    <3>1. op[c] \in Written  BY <1>4 DEF IInv, TypeOK, Submit, Written
    <3>2. Len(log') = Len(log) + 1 /\ put' = put
      BY Zenon, <1>1, <1>4, <2>1, <3>1, AppendProperties DEF Submit, applyVars
    <3> QED  BY <1>1, <1>3, <3>2
  <2>2. CASE ~leads
    BY Zenon, <1>2, <1>4, <2>2 DEF Submit, applyVars
  <2> QED  BY Zenon, <2>1, <2>2
<1>5. ASSUME NEW c \in Client, Insert(c) PROVE LastPutShows'
  <2> SUFFICES ASSUME ~late', Len(put) = Len(log) PROVE FALSE
    BY Zenon, <1>5 DEF LastPutShows, Insert, applyVars, nodeVars
  <2>1. op[c] \notin ToSet(put) /\ op[c] \in ToSet(log)
    BY Zenon, <1>5 DEF Insert
  <2>2. PICK k \in 1..Len(log) : op[c] = log[k]
    BY SMTT(30), <1>1, <2>1 DEF ToSet
  <2>3. put[k] = op[c] /\ k \in DOMAIN put
    BY <1>1, <2>2, PutIsFront
  <2> QED  BY Zenon, <2>1, <2>3 DEF ToSet
<1>6. ASSUME Replicate PROVE LastPutShows'
  <2>1. CASE log' = log
    BY Zenon, <1>2, <1>6, <2>1 DEF Replicate, applyVars
  <2>2. CASE log' # log
    <3>1. PICK n \in commitIndex..Len(log), f \in Foreign : log' = Append(SubSeq(log, 1, n), f)
      BY <1>6, <2>2 DEF Replicate
    <3>2. f \in Written /\ n \in 0..Len(log) /\ 0 \in 0..n  BY <1>1 DEF Written
    <3>3. Len(log') = n + 1  BY <1>1, <3>1, <3>2, PrefixKept
    <3>4. put' = put  BY Zenon, <1>6 DEF Replicate, applyVars
    <3> QED  BY <1>1, <1>3, <3>1, <3>3, <3>4
  <2> QED  BY Zenon, <2>1, <2>2
<1>7. ASSUME Apply PROVE LastPutShows'
  <2>1. /\ put' = Append(put, inHand) /\ memTable' = inHand /\ inHand \in Written
    BY Zenon, <1>7 DEF Apply, IInv, TypeOK
  <2>2. put'[Len(put')] = inHand  BY <1>1, <2>1, AppendProperties
  <2> QED  BY Zenon, <2>1, <2>2 DEF LastPutShows
<1>8. CASE \/ \E c \in Client : PutGeo(c)
           \/ Commit \/ RoleChange \/ ApplySend \/ Receive \/ Signal \/ Stop \/ Kill
           \/ UNCHANGED vars
  <2>1. UNCHANGED <<late, put, log, memTable>>
    BY Zenon, <1>8
       DEF PutGeo, Commit, RoleChange, ApplySend, Receive, Signal, Stop, Kill, vars, nodeVars, applyVars
  <2> QED  BY Zenon, <1>2, <2>1
<1> QED  BY ZenonT(30), <1>4, <1>5, <1>6, <1>7, <1>8 DEF Next

\* Once every entry of the log has been put, the MemTable holds the last one,
\* unless a handler put its write after the reader had, or after another leader's
\* entry had replaced it: with any number of handlers beside the reader.
THEOREM MemTableSettles == Spec => []SettlesOnLog
<1>1. Init => IInv  BY Zenon, InitIInv
<1>2. IInv /\ [Next]_vars => IInv'  BY Zenon, NextIInv
<1>3. Init => LastPutShows  BY Zenon DEF Init, LastPutShows
<1>4. IInv /\ LastPutShows /\ [Next]_vars => LastPutShows'  BY Zenon, LastPutStays
<1>5. IInv /\ LastPutShows => SettlesOnLog
  <2> SUFFICES ASSUME IInv, LastPutShows, ~late, log # <<>>, Len(put) = Len(log)
               PROVE  memTable = Last(log)
    BY Zenon DEF SettlesOnLog
  <2>1. log \in Seq(Written) /\ put \in Seq(Written)  BY Zenon DEF IInv, TypeOK
  <2>2. Len(log) \in 1..Len(log) /\ put # <<>>  BY <2>1, EmptySeq
  <2>3. put[Len(put)] = log[Len(log)]  BY Zenon, <2>2, PutIsFront
  <2> QED  BY ZenonT(30), <2>2, <2>3 DEF LastPutShows, Last
<1> QED  BY <1>1, <1>2, <1>3, <1>4, <1>5, PTL DEF Spec
=============================================================================
