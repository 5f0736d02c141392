------------------------- MODULE RadianceRaftCommit -------------------------
(***************************************************************************)
(* What RadianceRaft commits, for every set of nodes and every bound:      *)
(* every step keeps CommitInv.                                             *)
(*                                                                         *)
(* A commit index is always backed by a link that is chosen, in the log of *)
(* the node and in the calls that announce it. A leader's commit index     *)
(* moves to an entry of its own term, which a majority has acknowledged in *)
(* it.                                                                     *)
(***************************************************************************)
EXTENDS RadianceRaftChoice

-----------------------------------------------------------------------------
(* What a step does to the commit indexes. *)

\* Two parts of a log that meet are one part.
LEMMA SubSeqJoin ==
    ASSUME NEW l \in Seq(Entry), NEW c \in Nat, NEW d \in Nat, c <= d, d <= Len(l)
    PROVE  SubSeq(l, 1, c) \o SubSeq(l, c + 1, d) = SubSeq(l, 1, d)
<1>1. Len(l) \in Nat /\ \A k \in 1..Len(l) : l[k] \in Entry
  BY ElementOfSeq
<1>2. PICK x, y, z : x = SubSeq(l, 1, c) /\ y = SubSeq(l, c + 1, d) /\ z = SubSeq(l, 1, d)
  BY Zenon
<1>3. x \in Seq(Entry) /\ Len(x) = c /\ \A k \in 1..c : x[k] = l[k]
  BY SMTT(30), <1>1, <1>2, SubSeqProperties
<1>4. z \in Seq(Entry) /\ Len(z) = d /\ \A k \in 1..d : z[k] = l[k]
  BY SMTT(30), <1>1, <1>2, SubSeqProperties
<1>5. y \in Seq(Entry) /\ Len(y) = d - c /\ \A k \in 1..(d - c) : y[k] = l[c + k]
  BY SMTT(30), <1>1, <1>2, SubSeqProperties
<1>6. PICK w : w = x \o y
  BY Zenon
<1>7. /\ w \in Seq(Entry) /\ Len(w) = Len(x) + Len(y)
      /\ \A k \in 1..Len(x) + Len(y) : w[k] = IF k <= Len(x) THEN x[k] ELSE y[k - Len(x)]
  BY ZenonT(30), <1>3, <1>5, <1>6, ConcatProperties
<1>8. Len(w) = d /\ \A k \in 1..d : w[k] = IF k <= c THEN x[k] ELSE y[k - c]
  BY <1>3, <1>5, <1>7
<1>9. ASSUME NEW k \in 1..d PROVE w[k] = z[k]
  <2>1. CASE k <= c
    <3>1. k \in 1..c
      BY <2>1
    <3> QED BY Zenon, <1>3, <1>4, <1>8, <2>1, <3>1
  <2>2. CASE k > c
    <3>1. k - c \in 1..(d - c) /\ c + (k - c) = k /\ ~(k <= c)
      BY <2>2
    <3> QED BY Zenon, <1>4, <1>5, <1>8, <3>1
  <2> QED BY <2>1, <2>2
<1>10. w = z
  BY Zenon, <1>4, <1>7, <1>8, <1>9, SeqEqual
<1> QED BY Zenon, <1>2, <1>6, <1>10

\* A commit index moves in checkAdvanceCommitIndex or in AppendEntries only.
LEMMA CommitKinds ==
    ASSUME Step
    PROVE  \/ UNCHANGED <<commitIndex, applied>>
           \/ \E i \in Server, N \in Nat : Commits(i, N)
           \/ \E m \in appendCalls : FollowsCommit(m)
<1>1. TypeOK /\ [Next]_vars
  BY Zenon, StepFacts DEF Step
<1>2. /\ log \in [Server -> Seq(Entry)] /\ commitIndex \in [Server -> Nat]
      /\ appendCalls \subseteq AppendEntriesArgs /\ appendReplies \subseteq AppendEntriesReply
  BY Zenon, <1>1 DEF TypeOK
<1>3. ASSUME NEW i \in Server, runElectionLoop(i) PROVE UNCHANGED <<commitIndex, applied>>
  BY Zenon, <1>3 DEF runElectionLoop, startElection, logVars
<1>4. ASSUME NEW i \in Server, runHeartbeatLoop(i) PROVE UNCHANGED <<commitIndex, applied>>
  BY Zenon, <1>4 DEF runHeartbeatLoop, logVars
<1>5. ASSUME NEW i \in Server, NEW v \in Value, Submit(i, v)
      PROVE  UNCHANGED <<commitIndex, applied>>
  BY Zenon, <1>5 DEF Submit
<1>6. ASSUME NEW i \in Server, Kill(i) PROVE UNCHANGED <<commitIndex, applied>>
  BY Zenon, <1>6 DEF Kill, logVars
<1>7. ASSUME NEW m \in voteReplies, RequestVoteReplied(m)
      PROVE  UNCHANGED <<commitIndex, applied>>
  BY Zenon, <1>7 DEF RequestVoteReplied, logVars
<1>8. ASSUME NEW m \in voteCalls, NEW j \in Server, RequestVote(m, j)
      PROVE  UNCHANGED <<commitIndex, applied>>
  BY Zenon, <1>8 DEF RequestVote, logVars
<1>9. ASSUME NEW m \in appendCalls, AppendEntriesStale(m)
      PROVE  UNCHANGED <<commitIndex, applied>>
  BY Zenon, <1>9 DEF AppendEntriesStale, logVars
<1>10. ASSUME NEW m \in appendCalls, AppendEntries(m)
       PROVE  UNCHANGED <<commitIndex, applied>> \/ FollowsCommit(m)
  <2>1. PICK n : n = AppendNew(log[m.to], m.prevLogIndex, m.entries)
    BY Zenon
  <2>2. CASE ~ PrevMatches(m, log[m.to])
    BY Zenon, <1>10, <2>2 DEF AppendEntries, logVars
  <2>3. CASE PrevMatches(m, log[m.to])
    <3>1. /\ log' = [log EXCEPT ![m.to] = n]
          /\ applyLogs(m.to, n, FollowerCommit(m, n, commitIndex[m.to]))
      BY Zenon, <1>10, <2>1, <2>3 DEF AppendEntries
    <3>2. log'[m.to] = n
      BY Zenon, <1>2, <3>1 DEF AppendEntriesArgs
    <3> QED BY Zenon, <1>10, <2>3, <3>1, <3>2 DEF FollowsCommit, Accepts
  <2> QED BY Zenon, <2>2, <2>3
<1>11. ASSUME NEW m \in appendReplies, AppendEntriesReplied(m)
       PROVE  \/ UNCHANGED <<commitIndex, applied>>
              \/ \E i \in Server, N \in Nat : Commits(i, N)
  <2>1. m.from \in Server
    BY Zenon, <1>2 DEF AppendEntriesReply
  <2>2. CASE /\ checkAdvanceCommitIndex(m.from, matchIndex'[m.from])
             /\ UNCHANGED <<currentTerm, votedFor, role>>
    <3>1. role[m.from] = "Leader" /\ log' = log /\ appendCalls' = appendCalls
      BY Zenon, <1>11 DEF AppendEntriesReplied, appendRPCs
    <3>2. ASSUME NEW N \in Committable(m.from, matchIndex'[m.from]), applyLogs(m.from, log[m.from], N)
          PROVE  N \in Nat /\ Commits(m.from, N)
      <4>1. N \in Nat
        BY <1>2, <2>1 DEF Committable
      <4> QED BY Zenon, <2>2, <3>1, <3>2, <4>1 DEF Commits, Leads
    <3> QED BY Zenon, <2>1, <2>2, <3>2 DEF checkAdvanceCommitIndex
  <2> QED BY Zenon, <1>11, <2>2 DEF AppendEntriesReplied
<1>12. CASE UNCHANGED vars
  BY Zenon, <1>12 DEF vars, logVars
<1> QED BY ZenonT(30), <1>1, <1>3, <1>4, <1>5, <1>6, <1>7, <1>8, <1>9, <1>10, <1>11, <1>12 DEF Next

\* A call of the term of a link cannot take it from a log: it carries the link,
\* or ends in the entries below it.
LEMMA AcceptKeeps ==
    ASSUME Step, NEW m \in appendCalls, Accepts(m), NEW a \in Links, m.term = a.entry.term,
           Covers(log[m.to], a)
    PROVE  Covers(log'[m.to], a)
<1>1. TypeOK /\ LinkInv /\ CallInv
  BY Zenon, StepFacts
<1>2. /\ Links \in SUBSET LinkRecord /\ Unique(Links) /\ Runs(Links) /\ Ordered(Links)
      /\ WellOrdered
  BY Zenon, <1>1, LinkTyped DEF LinkInv
<1>3. PICK j, l, n, e, t : /\ j = m.to /\ l = log[j] /\ n = log'[j]
                           /\ e = EndIndex(m) /\ t = a.entry.term
  BY Zenon
<1>4. /\ j \in Server /\ m.term >= currentTerm[j] /\ l \in Seq(Entry) /\ n \in Seq(Entry)
      /\ e <= Len(n) /\ TermAt(n, e) = EndTerm(m)
      /\ n = l \/ Len(n) = e
      /\ e <= Len(l) /\ TermAt(l, e) = EndTerm(m) => n = l
  BY Zenon, <1>1, <1>3, AcceptStep DEF LinkInv
<1>5. /\ a.index \in Nat /\ a.index # 0 /\ t \in Nat /\ e \in Nat /\ Len(l) \in Nat
      /\ currentTerm[j] \in Nat /\ LastTerm(l) \in Nat
  <2>1. LastTerm(l) \in Nat
    BY Zenon, <1>4, LastTermType
  <2>2. a.index \in Nat /\ a.index # 0 /\ t \in Nat
    BY Zenon, <1>1, <1>3, LinkTyped
  <2>3. e \in Nat
    BY Zenon, <1>1, <1>3, CallTyped
  <2>4. currentTerm[j] \in Nat
    BY Zenon, <1>1, <1>4 DEF TypeOK
  <2> QED BY SMTT(30), <1>4, <2>1, <2>2, <2>3, <2>4
<1>6. LastTerm(l) = t /\ Len(l) >= a.index
  <2>1. LastTerm(l) <= t
    BY SMTT(30), <1>1, <1>3, <1>4, <1>5 DEF LinkInv, LogTerms
  <2> QED BY SMTT(30), <1>3, <1>5, <2>1 DEF Covers, AtLeast
<1>7. LinksOf(l) \subseteq Links
  BY Zenon, <1>3, <1>4, Linked
<1>8. ASSUME NEW b \in Links, b.entry.term = t, b.index <= Len(l)
      PROVE  b.index \in 1..Len(l) /\ Link(l, b.index) = b
  <2>1. b.index # 0 /\ b.index \in Nat
    BY Zenon, <1>1, LinkTyped
  <2>2. Len(l) \in 0..Len(l) /\ TermAt(l, Len(l)) = b.entry.term
    BY SMTT(30), <1>5, <1>6, <1>8 DEF LastTerm
  <2> QED BY ZenonT(30), <1>2, <1>4, <1>7, <1>8, <2>1, <2>2, RunContains
<1>9. CASE n = l
  BY Zenon, <1>3, <1>9
<1>10. CASE n # l /\ e >= a.index
  <2>1. EndTerm(m) = t
    <3> SUFFICES ASSUME EndTerm(m) # m.term PROVE FALSE
      BY Zenon, <1>3
    <3>1. PICK f \in Links : f.index = e + 1 /\ f.index <= a.index
      BY Zenon, <1>1, <1>3 DEF CallInv, CallBelowTerm
    <3> QED BY SMTT(30), <1>5, <1>10, <3>1
  <2>2. Len(n) = e /\ LastTerm(n) = t
    BY Zenon, <1>4, <1>10, <2>1 DEF LastTerm
  <2> QED BY Zenon, <1>3, <1>10, <2>2 DEF Covers, AtLeast
<1>11. CASE n # l /\ e < a.index
  <2>1. e <= Len(l)
    BY SMTT(30), <1>5, <1>6, <1>11
  <2>2. TermAt(l, e) = EndTerm(m)
    <3>1. CASE e = 0
      BY Zenon, <1>1, <1>3, <3>1 DEF TermAt, CallInv, CallEnds
    <3>2. CASE e # 0 /\ EndTerm(m) = t
      <4>1. PICK b \in Links : b.index = e /\ b.entry.term = EndTerm(m)
        BY Zenon, <1>1, <1>3, <3>2 DEF CallInv, CallEnds
      <4>2. e \in 1..Len(l) /\ Link(l, e) = b
        BY Zenon, <1>8, <2>1, <3>2, <4>1
      <4> QED BY SMTT(30), <1>4, <4>1, <4>2, LinkFields
    <3>3. CASE EndTerm(m) # t
      <4>1. PICK f \in Links : /\ f.index = e + 1 /\ f.index <= a.index
                               /\ f.entry.term = t /\ f.prev = EndTerm(m)
        BY SMTT(30), <1>1, <1>3, <3>3 DEF CallInv, CallBelowTerm
      <4>2. f.index \in 1..Len(l) /\ Link(l, f.index) = f
        BY SMTT(30), <1>5, <1>6, <1>8, <4>1
      <4>3. Link(l, f.index).prev = TermAt(l, f.index - 1) /\ f.index - 1 = e
        BY SMTT(30), <1>4, <1>5, <4>1, <4>2, LinkFields
      <4> QED BY Zenon, <4>1, <4>2, <4>3
    <3> QED BY Zenon, <3>1, <3>2, <3>3
  <2> QED BY Zenon, <1>4, <1>11, <2>1, <2>2
<1> QED BY SMTT(30), <1>5, <1>9, <1>10, <1>11

\* A log keeps every chosen link it has.
LEMMA KeepsChosen ==
    ASSUME Step, ChoiceInv, NEW j \in Server, NEW a \in Links, Chosen(a),
           a.entry.term <= currentTerm[j], Covers(log[j], a)
    PROVE  Covers(log'[j], a)
<1>1. IndexInv /\ IndexInv' /\ TypeOK /\ TypeOK' /\ LinkInv /\ LinkInv' /\ CallInv
  BY Zenon, StepFacts
<1>2. /\ a \in LinkRecord /\ a.index \in Nat /\ a.entry.term \in Nat /\ currentTerm[j] \in Nat
  BY Zenon, <1>1, LinkTyped DEF TypeOK
<1>3. CASE log'[j] = log[j]
  BY Zenon, <1>3
<1>4. CASE Quiet \/ \E i \in Server : Sends(i)
  BY Zenon, <1>3, <1>4 DEF Quiet, Sends
<1>5. ASSUME NEW i \in Server, NEW v \in Value, Submit(i, v) PROVE Covers(log'[j], a)
  <2>1. CASE j # i
    BY Zenon, <1>1, <1>3, <1>5, <2>1, SubmitStep
  <2>2. CASE j = i
    <3>1. /\ Len(log'[i]) = Len(log[i]) + 1 /\ LastTerm(log'[i]) = currentTerm[i]
          /\ log[i] \in Seq(Entry) /\ currentTerm[i] \in Nat
      BY Zenon, <1>1, <1>5, SubmitStep
    <3>2. LastTerm(log[i]) <= currentTerm[i] /\ LastTerm(log[i]) \in Nat /\ Len(log[i]) \in Nat
      BY SMTT(30), <1>1, <3>1, LastTermType DEF LinkInv, LogTerms
    <3> QED BY SMTT(30), <1>2, <2>2, <3>1, <3>2 DEF Covers, AtLeast
  <2> QED BY Zenon, <2>1, <2>2
<1>6. ASSUME NEW m \in appendCalls, Accepts(m) PROVE Covers(log'[j], a)
  <2>1. CASE j # m.to
    BY Zenon, <1>1, <1>3, <1>6, <2>1, AcceptStep DEF LinkInv
  <2>2. CASE j = m.to /\ m.term = a.entry.term
    BY Zenon, <1>6, <2>2, AcceptKeeps
  <2>3. CASE j = m.to /\ m.term # a.entry.term
    <3>1. PICK l : l = log'[j]
      BY Zenon
    <3>2. /\ m.term \in Nat /\ m.term >= currentTerm[j] /\ l \in Seq(Entry)
          /\ EndIndex(m) <= Len(l) /\ TermAt(l, EndIndex(m)) = EndTerm(m)
          /\ EndIndex(m) \in Nat
      BY ZenonT(30), <1>1, <1>6, <2>3, <3>1, AcceptStep, CallTyped DEF LinkInv
    <3>3. m.term > a.entry.term
      BY SMTT(30), <1>2, <2>3, <3>2
    <3>4. AtLeast(EndIndex(m), TermAt(l, EndIndex(m)), a)
      BY Zenon, <3>2, <3>3, ChosenChoosable DEF ChoiceInv, CallsPass
    <3>5. LinksOf(l) \subseteq Links
      <4>1. Links' = Links
        BY Zenon, <1>1, <1>6, AcceptKeepsLinks DEF CallInv
      <4> QED BY Zenon, <3>1, <4>1 DEF Links
    <3> QED BY Zenon, <1>1, <1>2, <3>1, <3>2, <3>4, <3>5, CoversPoint DEF LinkInv
  <2> QED BY Zenon, <2>1, <2>2, <2>3
<1> QED BY Zenon, <1>4, <1>5, <1>6, StepKinds

\* What a leader commits has been acknowledged by a majority in its term.
LEMMA CommitsChosen ==
    ASSUME Step, NEW i \in Server, NEW N \in Nat, Commits(i, N)
    PROVE  \E a \in Links : /\ Chosen(a)' /\ a.index = N /\ a.entry.term = currentTerm[i]
                            /\ Covers(log[i], a)
<1>1. /\ TypeOK /\ TypeOK' /\ VoteInv /\ LinkInv /\ LinkInv' /\ MatchReported' /\ Evolves
  BY Zenon, StepFacts
<1>2. /\ N \in 1..Len(log[i]) /\ log[i][N].term = currentTerm[i]
      /\ IsMajority({i} \cup {j \in Peers(i) : matchIndex'[i][j] >= N})
      /\ log[i] \in Seq(Entry) /\ role'[i] = "Leader" /\ log' = log
  <2>1. commitIndex[i] \in Nat /\ log[i] \in Seq(Entry)
    BY Zenon, <1>1 DEF TypeOK
  <2> QED BY <2>1 DEF Commits, Committable, Leads
<1>3. PICK a, t, l : a = Link(log[i], N) /\ t = currentTerm[i] /\ l = log[i]
  BY Zenon
<1>4. /\ a \in LinkRecord /\ a.index = N /\ a.entry.term = t /\ TermAt(l, N) = t
      /\ a \in LinksOf(l)
  <2>1. a.entry.term = TermAt(l, N) /\ a.index = N /\ a \in LinkRecord /\ a \in LinksOf(l)
    BY Zenon, <1>2, <1>3, LinkFields DEF LinksOf
  <2>2. TermAt(l, N) = l[N].term
    BY <1>2, <1>3 DEF TermAt
  <2> QED BY Zenon, <1>2, <1>3, <2>1, <2>2
<1>5. LinksOf(l) \subseteq Links
  BY Zenon, <1>3, Linked
<1>6. a \in Links
  BY Zenon, <1>4, <1>5
<1>7. Covers(l, a)
  <2>1. AtLeast(N, TermAt(l, N), a)
    BY SMTT(30), <1>2, <1>4 DEF AtLeast
  <2> QED BY SMTT(30), <1>1, <1>2, <1>3, <1>4, <1>5, <2>1, CoversPoint DEF LinkInv
<1>8. currentTerm'[i] = t
  BY Zenon, <1>3 DEF Commits
<1>9. Acked(i, a)'
  <2>1. Owner(i, t)
    BY Zenon, <1>1, <1>3, LeaderOwns DEF Commits
  <2> QED BY Zenon, <1>4, <1>6, <2>1, OwnerStays DEF Acked
<1>10. ASSUME NEW j \in Peers(i), matchIndex'[i][j] >= N PROVE Acked(j, a)'
  <2>1. j \in Server /\ j # i
    BY Zenon DEF Peers
  <2>2. matchIndex'[i][j] \in Nat /\ matchIndex'[i][j] # 0
    BY SMTT(30), <1>1, <1>2, <1>10, <2>1 DEF TypeOK
  <2>3. PICK r \in appendReplies' : /\ r.success /\ r.to = j /\ r.term = t
                                    /\ r.match = matchIndex'[i][j]
    BY SMTT(30), <1>1, <1>2, <1>8, <2>1, <2>2 DEF MatchReported
  <2> QED BY Zenon, <1>4, <1>10, <2>3 DEF Acked
<1>11. Chosen(a)'
  <2>1. PICK Q \in SUBSET Server : Q = {i} \cup {j \in Peers(i) : matchIndex'[i][j] >= N}
    BY Zenon DEF Peers
  <2> QED BY Zenon, <1>2, <1>9, <1>10, <2>1 DEF Chosen, IsMajority
<1> QED BY ZenonT(30), <1>3, <1>4, <1>6, <1>7, <1>11

\* What a follower commits, its leader had committed, and the call carries it.
LEMMA FollowsChosen ==
    ASSUME Step, CallCommitChosen, NEW m \in appendCalls, FollowsCommit(m),
           commitIndex'[m.to] # commitIndex[m.to]
    PROVE  /\ m.to \in Server
           /\ commitIndex'[m.to] <= Len(log'[m.to])
           /\ commitIndex'[m.to] > commitIndex[m.to] \/ commitIndex'[m.to] = Len(log'[m.to])
           /\ \E a \in Links : /\ Chosen(a)' /\ commitIndex'[m.to] <= a.index
                               /\ a.entry.term <= currentTerm'[m.to] /\ Covers(log'[m.to], a)
<1>1. TypeOK /\ TypeOK' /\ LinkInv /\ LinkInv' /\ CallInv
  BY Zenon, StepFacts
<1>2. PICK j, l, c, d : /\ j = m.to /\ l = log'[j] /\ c = commitIndex[j] /\ d = commitIndex'[j]
  BY Zenon
<1>3. /\ j \in Server /\ currentTerm'[j] = m.term /\ l \in Seq(Entry) /\ m.term \in Nat
      /\ EndIndex(m) <= Len(l) /\ TermAt(l, EndIndex(m)) = EndTerm(m)
  BY Zenon, <1>1, <1>2, AcceptStep DEF FollowsCommit, LinkInv
<1>4. c \in Nat /\ d \in Nat /\ Len(l) \in Nat
  BY SMTT(30), <1>1, <1>2, <1>3 DEF TypeOK
<1>5. m.leaderCommit \in Nat /\ EndIndex(m) \in Nat /\ m \in AppendEntriesArgs
  BY Zenon, <1>1, CallTyped DEF AppendEntriesArgs
<1>6. d = FollowerCommit(m, l, c)
  <2>1. commitIndex \in [Server -> Nat]
    BY Zenon, <1>1 DEF TypeOK
  <2> QED BY Zenon, <1>2, <1>3, <2>1 DEF FollowsCommit, applyLogs
<1>7. d > c \/ d = Len(l)
  BY SMTT(30), <1>2, <1>4, <1>5, <1>6 DEF FollowerCommit
<1>8. m.leaderCommit > c /\ d <= m.leaderCommit /\ d <= Len(l)
  BY SMTT(30), <1>2, <1>4, <1>5, <1>6 DEF FollowerCommit
<1>9. PICK a \in Links : /\ Chosen(a) /\ m.leaderCommit <= a.index /\ a.entry.term <= m.term
                         /\ AtLeast(EndIndex(m), EndTerm(m), a)
  BY SMTT(30), <1>4, <1>5, <1>8 DEF CallCommitChosen, Backed
<1>10. a \in LinkRecord /\ a.index \in Nat
  BY Zenon, <1>1, LinkTyped
<1>11. LinksOf(l) \subseteq Links
  <2>1. Links' = Links
    BY Zenon, <1>1, AcceptKeepsLinks DEF CallInv, FollowsCommit
  <2> QED BY Zenon, <1>2, <1>3, <2>1 DEF Links
<1>12. Covers(l, a)
  BY ZenonT(30), <1>1, <1>3, <1>5, <1>9, <1>10, <1>11, CoversPoint DEF LinkInv
<1>13. Chosen(a)'
  BY Zenon, <1>9, ChosenStays
<1>14. d <= a.index
  BY SMTT(30), <1>4, <1>5, <1>8, <1>9, <1>10
<1> QED BY Zenon, <1>2, <1>3, <1>7, <1>8, <1>9, <1>12, <1>13, <1>14

\* Every step keeps each commit index backed by a chosen link.
LEMMA NextCommitChosen ==
    ASSUME Step, ChoiceInv, CommitInv
    PROVE  CommitChosen'
<1> SUFFICES ASSUME NEW j \in Server, commitIndex'[j] # 0
             PROVE  \E a \in Links' : /\ Chosen(a)' /\ commitIndex'[j] <= a.index
                                      /\ a.entry.term <= currentTerm'[j]
                                      /\ Covers(log'[j], a)
  BY Zenon DEF CommitChosen, Backed, Covers, AtLeast, LastTerm, Chosen, IsMajority
<1>1. TypeOK /\ TypeOK' /\ Evolves /\ LinkInv
  BY Zenon, StepFacts
<1>2. Links \subseteq Links'
  BY Zenon, StepLinks
<1>3. ASSUME commitIndex'[j] = commitIndex[j]
      PROVE  \E a \in Links' : /\ Chosen(a)' /\ commitIndex'[j] <= a.index
                               /\ a.entry.term <= currentTerm'[j]
                               /\ Covers(log'[j], a)
  <2>1. PICK a \in Links : /\ Chosen(a) /\ commitIndex[j] <= a.index
                           /\ a.entry.term <= currentTerm[j] /\ Covers(log[j], a)
    BY Zenon, <1>3 DEF CommitInv, CommitChosen, Backed, Covers
  <2>2. Chosen(a)' /\ Covers(log'[j], a)
    BY Zenon, <2>1, ChosenStays, KeepsChosen
  <2>3. a.entry.term <= currentTerm'[j]
    <3>1. /\ a.entry.term \in Nat /\ currentTerm[j] \in Nat /\ currentTerm'[j] \in Nat
          /\ currentTerm'[j] >= currentTerm[j]
      BY Zenon, <1>1, LinkTyped DEF TypeOK, Evolves
    <3> QED BY SMTT(30), <2>1, <3>1
  <2> QED BY Zenon, <1>2, <1>3, <2>1, <2>2, <2>3
<1>4. ASSUME NEW i \in Server, NEW N \in Nat, Commits(i, N), commitIndex'[j] # commitIndex[j]
      PROVE  \E a \in Links' : /\ Chosen(a)' /\ commitIndex'[j] <= a.index
                               /\ a.entry.term <= currentTerm'[j]
                               /\ Covers(log'[j], a)
  <2>1. commitIndex \in [Server -> Nat] /\ currentTerm[i] \in Nat
    BY Zenon, <1>1 DEF TypeOK
  <2>2. i = j /\ commitIndex'[j] = N /\ log' = log /\ currentTerm' = currentTerm
    BY Zenon, <1>4, <2>1 DEF Commits, applyLogs
  <2>3. PICK a \in Links : /\ Chosen(a)' /\ a.index = N /\ a.entry.term = currentTerm[i]
                           /\ Covers(log[i], a)
    BY Zenon, <1>4, CommitsChosen
  <2> QED BY SMTT(30), <1>2, <2>1, <2>2, <2>3
<1>5. ASSUME NEW m \in appendCalls, FollowsCommit(m), commitIndex'[j] # commitIndex[j]
      PROVE  \E a \in Links' : /\ Chosen(a)' /\ commitIndex'[j] <= a.index
                               /\ a.entry.term <= currentTerm'[j]
                               /\ Covers(log'[j], a)
  <2>1. commitIndex \in [Server -> Nat]
    BY Zenon, <1>1 DEF TypeOK
  <2>2. j = m.to
    BY Zenon, <1>5, <2>1 DEF FollowsCommit, applyLogs
  <2> QED BY Zenon, <1>2, <1>5, <2>2, FollowsChosen DEF CommitInv
<1> QED BY Zenon, <1>3, <1>4, <1>5, CommitKinds

\* Two logs that reach a link that is not passed by agree up to it.
LEMMA CoversAgree ==
    ASSUME WellOrdered, NEW L \in SUBSET LinkRecord, Unique(L), Runs(L),
           NEW l \in Seq(Entry), NEW n \in Seq(Entry), LinksOf(l) \subseteq L, LinksOf(n) \subseteq L,
           NEW a \in L, a.index # 0, Covers(l, a), Covers(n, a),
           \A b \in L : b.entry.term > a.entry.term => AtLeast(b.index - 1, b.prev, a),
           NEW c \in Nat, c <= a.index
    PROVE  /\ c <= Len(l) /\ c <= Len(n) /\ SubSeq(l, 1, c) = SubSeq(n, 1, c)
           /\ \A k \in 1..c : l[k] = n[k]
<1>1. /\ Len(l) \in 0..Len(l) /\ AtLeast(Len(l), TermAt(l, Len(l)), a)
      /\ Len(n) \in 0..Len(n) /\ AtLeast(Len(n), TermAt(n, Len(n)), a)
  BY DEF Covers, LastTerm
<1>2. a.index \in 1..Len(l) /\ Link(l, a.index) = a
  BY <1>1, Contains
<1>3. a.index \in 1..Len(n) /\ Link(n, a.index) = a
  BY SMTT(30), <1>1, Contains
<1>4. TermAt(l, a.index) = a.entry.term
  BY SMTT(30), <1>2, LinkFields
<1>5. TermAt(n, a.index) = a.entry.term
  BY SMTT(30), <1>3, LinkFields
<1>6. a.index \in Nat /\ a.index <= Len(l) /\ a.index <= Len(n)
  BY SMTT(30), <1>2, <1>3
<1>7. \A x \in 0..a.index : TermAt(l, x) = TermAt(n, x)
  BY SMTT(30), <1>4, <1>5, <1>6, PrefixAgree
<1>8. c \in 0..a.index /\ c <= Len(l) /\ c <= Len(n)
  BY <1>6
<1>9. TermAt(l, c) = TermAt(n, c)
  BY Zenon, <1>7, <1>8
<1> QED BY ZenonT(30), <1>8, <1>9, PrefixAgree

\* The committed front of a log stays.
LEMMA FrontKept ==
    ASSUME Step, ChoiceInv, CommitInv, NEW j \in Server
    PROVE  /\ commitIndex[j] <= Len(log'[j])
           /\ SubSeq(log'[j], 1, commitIndex[j]) = SubSeq(log[j], 1, commitIndex[j])
<1>1. TypeOK /\ TypeOK' /\ LinkInv' /\ LinksPass'
  BY Zenon, StepFacts, NextLinksPass
<1>2. PICK l, n, c : l = log[j] /\ n = log'[j] /\ c = commitIndex[j]
  BY Zenon
<1>3. l \in Seq(Entry) /\ n \in Seq(Entry) /\ c \in Nat /\ Len(n) \in Nat
  BY SMTT(30), <1>1, <1>2 DEF TypeOK
<1>4. CASE c = 0
  BY SMTT(30), <1>2, <1>3, <1>4
<1>5. CASE c # 0
  <2>1. PICK a \in Links : /\ Chosen(a) /\ c <= a.index
                           /\ a.entry.term <= currentTerm[j] /\ Covers(l, a)
    BY Zenon, <1>2, <1>5 DEF CommitInv, CommitChosen, Backed, Covers
  <2>2. Chosen(a)' /\ Covers(n, a) /\ a \in Links'
    BY Zenon, <1>2, <2>1, ChosenStays, KeepsChosen, StepLinks
  <2>3. \A b \in Links' : b.entry.term > a.entry.term => AtLeast(b.index - 1, b.prev, a)
    <3>1. Choosable(a)'
      BY Zenon, <2>2 DEF Chosen, Choosable
    <3> QED BY Zenon, <1>1, <2>2, <3>1 DEF LinksPass, AtLeast
  <2>4. PICK L : L = Links'
    BY Zenon
  <2>5. LinksOf(l) \subseteq L /\ LinksOf(n) \subseteq L
    BY Zenon, <1>2, <2>4, Linked, StepLinks DEF Links
  <2>6. WellOrdered /\ L \in SUBSET LinkRecord /\ Unique(L) /\ Runs(L)
    <3>1. Links' \subseteq LinkRecord
      <4>1. LinksAreRecords'
        <5>1. TypeOK' => LinksAreRecords'
          BY LinkRecords, PTL
        <5> QED BY Zenon, <1>1, <5>1
      <4> QED BY Zenon, <4>1 DEF LinksAreRecords
    <3> QED BY Zenon, <1>1, <2>4, <3>1, WellOrderedStays DEF LinkInv, Unique, Runs
  <2>7. a \in L /\ a.index \in Nat /\ a.index # 0
    BY ZenonT(30), <2>1, <2>2, <2>4, StepFacts, LinkTyped
  <2>8. c <= Len(l) /\ c <= Len(n) /\ SubSeq(l, 1, c) = SubSeq(n, 1, c)
    BY SMTT(30), <1>3, <2>1, <2>2, <2>3, <2>4, <2>5, <2>6, <2>7, CoversAgree
  <2> QED BY Zenon, <1>2, <2>8
<1> QED BY Zenon, <1>4, <1>5

\* Every step keeps what was applied at the front of the log, and moves no commit
\* index back.
LEMMA NextApplied ==
    ASSUME Step, ChoiceInv, CommitInv
    PROVE  AppliedInLog' /\ \A j \in Server : commitIndex'[j] >= commitIndex[j]
<1> SUFFICES ASSUME NEW j \in Server
             PROVE  /\ commitIndex'[j] <= Len(log'[j]) /\ commitIndex'[j] >= commitIndex[j]
                    /\ applied'[j] = SubSeq(log'[j], 1, commitIndex'[j])
  BY Zenon DEF AppliedInLog
<1>1. TypeOK /\ TypeOK'
  BY Zenon, StepFacts
<1>2. PICK l, n, c, d, p : /\ l = log[j] /\ n = log'[j] /\ p = applied[j]
                           /\ c = commitIndex[j] /\ d = commitIndex'[j]
  BY Zenon
<1>3. /\ l \in Seq(Entry) /\ n \in Seq(Entry) /\ c \in Nat /\ d \in Nat /\ Len(n) \in Nat
      /\ commitIndex \in [Server -> Nat] /\ applied \in [Server -> Seq(Entry)]
  BY SMTT(30), <1>1, <1>2 DEF TypeOK
<1>4. /\ c <= Len(n) /\ SubSeq(n, 1, c) = SubSeq(l, 1, c)
      /\ c <= Len(l) /\ p = SubSeq(l, 1, c)
  BY Zenon, <1>2, FrontKept DEF CommitInv, AppliedInLog
<1>5. p = SubSeq(n, 1, c) /\ Len(p) = c
  <2>1. \A k \in 1..c : l[k] \in Entry
    BY SMTT(30), <1>3, <1>4, ElementOfSeq
  <2> QED BY SMTT(30), <1>3, <1>4, <2>1, SubSeqProperties
<1>6. CASE d = c /\ applied'[j] = p
  BY SMTT(30), <1>2, <1>3, <1>4, <1>5, <1>6
<1>7. ASSUME d >= c, d <= Len(n), applied'[j] = p \o SubSeq(n, Len(p) + 1, d)
      PROVE  /\ commitIndex'[j] <= Len(log'[j]) /\ commitIndex'[j] >= commitIndex[j]
             /\ applied'[j] = SubSeq(log'[j], 1, commitIndex'[j])
  <2>1. SubSeq(n, 1, c) \o SubSeq(n, c + 1, d) = SubSeq(n, 1, d)
    BY Zenon, <1>3, <1>7, SubSeqJoin
  <2> QED BY Zenon, <1>2, <1>5, <1>7, <2>1
<1>8. ASSUME NEW i \in Server, NEW N \in Nat, Commits(i, N)
      PROVE  \/ d = c /\ applied'[j] = p
             \/ d >= c /\ d <= Len(n) /\ applied'[j] = p \o SubSeq(n, Len(p) + 1, d)
  <2>1. CASE i # j
    BY ZenonT(30), <1>2, <1>3, <1>8, <2>1 DEF Commits, applyLogs
  <2>2. CASE i = j
    <3>1. log' = log /\ N \in (c + 1)..Len(l)
      BY Zenon, <1>2, <1>8, <2>2 DEF Commits, Committable
    <3>2. d = N /\ applied'[j] = p \o SubSeq(l, Len(p) + 1, N)
      BY ZenonT(30), <1>2, <1>3, <1>8, <2>2 DEF Commits, applyLogs
    <3> QED BY SMTT(30), <1>2, <1>3, <3>1, <3>2
  <2> QED BY Zenon, <2>1, <2>2
<1>9. ASSUME NEW m \in appendCalls, FollowsCommit(m)
      PROVE  \/ d = c /\ applied'[j] = p
             \/ d >= c /\ d <= Len(n) /\ applied'[j] = p \o SubSeq(n, Len(p) + 1, d)
  <2>1. CASE m.to # j
    BY ZenonT(30), <1>2, <1>3, <1>9, <2>1 DEF FollowsCommit, applyLogs
  <2>2. CASE m.to = j
    <3>1. applied'[j] = p \o SubSeq(n, Len(p) + 1, d)
      <4>1. PICK x : x = FollowerCommit(m, n, c)
        BY Zenon
      <4>2. /\ commitIndex' = [commitIndex EXCEPT ![j] = x]
            /\ applied' = [applied EXCEPT ![j] = @ \o SubSeq(n, Len(@) + 1, x)]
        BY ZenonT(30), <1>2, <1>9, <2>2, <4>1 DEF FollowsCommit, applyLogs
      <4> QED BY Zenon, <1>2, <1>3, <4>2
    <3>2. CASE d = c
      BY SMTT(30), <1>3, <1>4, <3>1, <3>2
    <3>3. CASE d # c
      <4>1. d <= Len(n) /\ (d > c \/ d = Len(n))
        BY ZenonT(30), <1>2, <1>9, <2>2, <3>3, FollowsChosen DEF CommitInv
      <4> QED BY SMTT(30), <1>3, <1>4, <3>1, <4>1
    <3> QED BY Zenon, <3>2, <3>3
  <2> QED BY Zenon, <2>1, <2>2
<1> QED BY Zenon, <1>2, <1>6, <1>7, <1>8, <1>9, CommitKinds

\* A call announces what its leader had committed, all of which it covers.
LEMMA NextCallCommit ==
    ASSUME Step, ChoiceInv, CommitInv
    PROVE  CallCommitChosen' /\ CommitWithinCall'
<1> DEFINE Announces(m) ==
             /\ m.leaderCommit # 0 =>
                  \E a \in Links' : /\ Chosen(a)' /\ m.leaderCommit <= a.index
                                    /\ a.entry.term <= m.term
                                    /\ AtLeast(EndIndex(m), EndTerm(m), a)
             /\ m.leaderCommit <= EndIndex(m)
<1> SUFFICES ASSUME NEW m \in appendCalls' PROVE Announces(m)
  BY Zenon DEF CallCommitChosen, CommitWithinCall, Backed, AtLeast, EndIndex, EndTerm, Chosen, IsMajority
<1>1. /\ IndexInv /\ IndexInv' /\ TypeOK /\ TypeOK' /\ LinkInv /\ Evolves
  BY Zenon, StepFacts
<1>2. Links \subseteq Links'
  BY Zenon, StepLinks
<1>3. CASE m \in appendCalls
  <2>1. m.leaderCommit <= EndIndex(m)
    BY Zenon, <1>3 DEF CommitInv, CommitWithinCall, EndIndex
  <2>2. ASSUME m.leaderCommit # 0
        PROVE  \E a \in Links' : /\ Chosen(a)' /\ m.leaderCommit <= a.index
                                 /\ a.entry.term <= m.term
                                 /\ AtLeast(EndIndex(m), EndTerm(m), a)
    <3>1. PICK a \in Links : /\ Chosen(a) /\ m.leaderCommit <= a.index /\ a.entry.term <= m.term
                             /\ AtLeast(EndIndex(m), EndTerm(m), a)
      BY Zenon, <1>3, <2>2 DEF CommitInv, CallCommitChosen, Backed
    <3> QED BY Zenon, <1>2, <3>1, ChosenStays
  <2> QED BY Zenon, <2>1, <2>2
<1>4. ASSUME NEW i \in Server, m.leaderCommit = commitIndex[i], m.term = currentTerm'[i],
             EndIndex(m) = Len(log'[i]), EndTerm(m) = LastTerm(log'[i]),
             Len(log'[i]) >= Len(log[i])
      PROVE  Announces(m)
  <2>1. /\ commitIndex[i] \in Nat /\ currentTerm[i] \in Nat /\ currentTerm'[i] \in Nat
        /\ currentTerm'[i] >= currentTerm[i]
    BY Zenon, <1>1 DEF TypeOK, Evolves
  <2>2. log[i] \in Seq(Entry) /\ log'[i] \in Seq(Entry)
    BY Zenon, <1>1 DEF TypeOK
  <2>3. m.leaderCommit <= EndIndex(m)
    <3>1. commitIndex[i] <= Len(log[i]) /\ Len(log[i]) \in Nat /\ Len(log'[i]) \in Nat
      BY SMTT(30), <2>2 DEF CommitInv, AppliedInLog
    <3> QED BY SMTT(30), <1>4, <2>1, <3>1
  <2>4. ASSUME m.leaderCommit # 0
        PROVE  \E a \in Links' : /\ Chosen(a)' /\ m.leaderCommit <= a.index
                                 /\ a.entry.term <= m.term
                                 /\ AtLeast(EndIndex(m), EndTerm(m), a)
    <3>1. PICK a \in Links : /\ Chosen(a) /\ commitIndex[i] <= a.index
                             /\ a.entry.term <= currentTerm[i] /\ Covers(log[i], a)
      BY Zenon, <1>4, <2>4 DEF CommitInv, CommitChosen, Backed, Covers
    <3>2. a.entry.term <= m.term
      <4>1. a.entry.term \in Nat
        BY Zenon, <1>1, LinkTyped
      <4> QED BY SMTT(30), <1>4, <2>1, <3>1, <4>1
    <3>3. Covers(log'[i], a) /\ Chosen(a)'
      BY Zenon, <3>1, KeepsChosen, ChosenStays
    <3> QED BY Zenon, <1>2, <1>4, <3>1, <3>2, <3>3 DEF Covers
  <2> QED BY Zenon, <2>3, <2>4
<1>5. ASSUME NEW i \in Server, Sends(i), m \notin appendCalls PROVE Announces(m)
  <2>1. /\ m.term = currentTerm'[i] /\ m.leaderCommit = commitIndex[i]
        /\ EndIndex(m) = Len(log[i]) /\ EndTerm(m) = LastTerm(log[i])
    BY Zenon, <1>1, <1>5, SendsCalls
  <2>2. log' = log /\ Len(log[i]) \in Nat
    BY SMTT(30), <1>1, <1>5 DEF Sends, TypeOK
  <2> QED BY SMTT(30), <1>4, <2>1, <2>2
<1>6. ASSUME NEW i \in Server, NEW v \in Value, Submit(i, v), m \notin appendCalls
      PROVE  Announces(m)
  <2>1. m \in broadcastHeartbeats(i, currentTerm[i], log'[i], nextIndex[i])
    BY Zenon, <1>6 DEF Submit
  <2>2. /\ m.term = currentTerm[i] /\ m.leaderCommit = commitIndex[i]
        /\ EndIndex(m) = Len(log[i]) + 1 /\ EndTerm(m) = currentTerm[i]
    BY Zenon, <1>1, <1>6, <2>1, SubmitCalls
  <2>3. /\ Len(log'[i]) = Len(log[i]) + 1 /\ LastTerm(log'[i]) = currentTerm[i]
        /\ currentTerm' = currentTerm /\ log[i] \in Seq(Entry)
    BY ZenonT(30), <1>1, <1>6, SubmitStep
  <2> QED BY SMTT(30), <1>4, <2>2, <2>3
<1>7. CASE Quiet
  BY ZenonT(30), <1>3, <1>7 DEF Quiet
<1>8. ASSUME NEW c \in appendCalls, Accepts(c) PROVE Announces(m)
  <2>1. appendCalls' = appendCalls
    BY Zenon, <1>1, <1>8, AcceptStep DEF LinkInv
  <2> QED BY Zenon, <1>3, <2>1
<1> QED BY ZenonT(30), <1>3, <1>5, <1>6, <1>7, <1>8, StepKinds

\* Every step keeps CommitInv.
LEMMA NextCommitInv ==
    ASSUME Step, ChoiceInv, CommitInv
    PROVE  CommitInv'
BY Zenon, NextCommitChosen, NextCallCommit, NextApplied DEF CommitInv
=============================================================================
