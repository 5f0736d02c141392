------------------------- MODULE RadianceRaftProofs -------------------------
(***************************************************************************)
(* The theorems about RadianceRaft, for every set of nodes and every       *)
(* bound: its invariant holds in every reachable state, and with it what   *)
(* the components above it rely on. Nodes agree on what they apply, a      *)
(* leader has what was committed before its term, a majority keeps it, and *)
(* every node implements NodeLog.                                          *)
(***************************************************************************)
EXTENDS RadianceRaftElection, RadianceRaftLog, RadianceRaftCommit, RadianceRaftNode,
        FiniteSetTheorems

-----------------------------------------------------------------------------
(* The invariant of the logs, and what it says of them. *)

\* Two majorities of the nodes have a node in common.
LEMMA MajoritiesMeet ==
    ASSUME NEW Q \in SUBSET Server, NEW R \in SUBSET Server, IsMajority(Q), IsMajority(R)
    PROVE  \E j \in Server : j \in Q /\ j \in R
<1>1. IsFiniteSet(Server)
  BY ZenonT(30), ServerAssumption
<1>2. /\ IsFiniteSet(Q) /\ IsFiniteSet(R)
  BY ZenonT(30), <1>1, FS_Subset
<1>3. Cardinality(Server) \in Nat /\ Cardinality(Q) \in Nat /\ Cardinality(R) \in Nat
  BY ZenonT(30), <1>1, <1>2, FS_CardinalityType
<1>4. Cardinality(Q) + Cardinality(R) > Cardinality(Server)
  BY <1>3 DEF IsMajority
<1>5. Q \cap R # {}
  BY ZenonT(30), <1>1, <1>4, FS_MajoritiesIntersect
<1> QED BY ZenonT(30), <1>5

\* A node that is a majority by itself is the only node.
LEMMA AloneIsAll ==
    ASSUME NEW i \in Server, IsMajority({i})
    PROVE  Server = {i}
<1>1. IsFiniteSet(Server) /\ Cardinality(Server) \in Nat
  BY ZenonT(30), ServerAssumption, FS_CardinalityType
<1>2. Cardinality({i}) = 1 /\ {i} \in SUBSET Server
  BY ZenonT(30), FS_Singleton
<1>3. Cardinality(Server) <= 1
  BY <1>1, <1>2 DEF IsMajority
<1>4. Cardinality({i}) <= Cardinality(Server)
  BY ZenonT(30), <1>1, <1>2, FS_Subset
<1>5. Cardinality(Server) = Cardinality({i})
  BY SMTT(30), <1>1, <1>2, <1>3, <1>4
<1> QED BY ZenonT(30), <1>1, <1>2, <1>5, FS_Subset

\* Majorities holds of every finite set of nodes.
LEMMA MajoritiesHold == Majorities
BY ZenonT(30), MajoritiesMeet, AloneIsAll DEF Majorities

\* Numbers are well ordered.
LEMMA Smallest == WellOrdered
<1> SUFFICES ASSUME NEW T \in SUBSET Nat, T # {} PROVE \E x \in T : \A y \in T : x <= y
  BY ZenonT(30) DEF WellOrdered
<1>1. PICK x \in T : \A y \in T : ~(<<y, x>> \in OpToRel(<, Nat))
  BY ZenonT(30), NatLessThanWellFounded, WFMin
<1>2. \A y \in T : ~(y < x)
  BY ZenonT(30), <1>1 DEF OpToRel
<1>3. x \in T /\ \A y \in T : y \in Nat /\ x \in Nat
  BY ZenonT(30), <1>1
<1>4. \A y \in T : x <= y
  BY <1>2, <1>3
<1> QED BY ZenonT(30), <1>3, <1>4

\* Every reachable state of RadianceRaft is well typed.
THEOREM TypeCorrect == Spec => []TypeOK
<1>1. IndexInv => TypeOK
  BY ZenonT(30) DEF IndexInv
<1> QED BY InitIndexInv, NextIndexInv, <1>1, PTL DEF Spec

\* broadcastHeartbeats never indexes outside a leader's log, however many
\* replies arrive late or out of order.
THEOREM NextIndexSafe == Spec => []NextIndexInBounds
<1>1. IndexInv => NextIndexInBounds
  BY ZenonT(30) DEF IndexInv
<1> QED BY InitIndexInv, NextIndexInv, <1>1, PTL DEF Spec

\* A term never has two leaders, neither at once nor one after the other,
\* whatever votes and replies are lost, late or counted concurrently.
THEOREM OneLeaderPerTerm == Spec => []ElectionSafety
<1>1. IndexInv /\ VoteInv => ElectionSafety
  BY ZenonT(30), VoteInvSafe DEF IndexInv
<1>2. Init => IndexInv /\ VoteInv
  BY ZenonT(30), InitIndexInv, InitVote, MajoritiesHold
<1>3. (IndexInv /\ VoteInv) /\ [Next]_vars => (IndexInv /\ VoteInv)'
  BY ZenonT(30), NextIndexInv, NextVoteInv
<1> QED BY <1>1, <1>2, <1>3, PTL DEF Spec

\* Indexes, votes and logs are sound in every reachable state.
LEMMA RaftInvariant == Spec => []RaftInv
<1>1. Init => RaftInv
  BY ZenonT(30), InitIndexInv, InitVote, MajoritiesHold, InitLog, Smallest DEF RaftInv
<1>2. RaftInv /\ [Next]_vars => RaftInv'
  BY ZenonT(30), NextIndexInv, NextVoteInv, NextLogInv DEF RaftInv
<1> QED BY <1>1, <1>2, PTL DEF Spec

\* Two logs with an entry of the same term at the same index are identical up
\* to it, in every reachable state and for any number of nodes: the append loop
\* of AppendEntries may keep, cut and replace entries, of calls that come late,
\* twice or out of order.
THEOREM LogsMatch == Spec => []LogMatching
<1>1. ASSUME RaftInv PROVE LogMatching
  <2>1. TypeOK /\ WellOrdered /\ Unique(Links)
    BY ZenonT(30), <1>1 DEF RaftInv, IndexInv, LogInv, LinkInv
  <2> SUFFICES ASSUME NEW i \in Server, NEW j \in Server,
                      NEW k \in DOMAIN log[i] \cap DOMAIN log[j],
                      log[i][k].term = log[j][k].term
               PROVE  SubSeq(log[i], 1, k) = SubSeq(log[j], 1, k)
    BY ZenonT(30) DEF LogMatching
  <2>2. log[i] \in Seq(Entry) /\ log[j] \in Seq(Entry)
    BY ZenonT(30), <2>1 DEF TypeOK
  <2>3. k \in Nat /\ k # 0 /\ k <= Len(log[i]) /\ k <= Len(log[j])
    BY <2>2
  <2>4. TermAt(log[i], k) = TermAt(log[j], k)
    BY ZenonT(30), <2>3 DEF TermAt
  <2>5. LinksOf(log[i]) \subseteq Links /\ LinksOf(log[j]) \subseteq Links
    BY ZenonT(30), Linked
  <2> QED BY ZenonT(30), <2>1, <2>2, <2>3, <2>4, <2>5, PrefixAgree
<1>2. RaftInv => LogMatching
  BY ZenonT(30), <1>1
<1> QED BY <1>2, RaftInvariant, PTL

\* A leader's matchIndex never runs ahead of what the peer stores while the
\* peer is in its term: the replies of AppendEntries may be handled late and in
\* any order, and older calls may reach the peer after newer ones.
THEOREM MatchIndexHolds == Spec => []MatchIndexSound
<1>1. ASSUME RaftInv PROVE MatchIndexSound
  <2>1. /\ TypeOK /\ RepliesWithinLog /\ VoteInv /\ WellOrdered /\ Unique(Links) /\ CallsOfLeader /\ CallEnds
        /\ ReplySound /\ MatchReported
    BY ZenonT(30), <1>1 DEF RaftInv, IndexInv, LogInv, LinkInv, CallInv, ReplyInv
  <2> SUFFICES ASSUME NEW i \in Server, NEW j \in Server, role[i] = "Leader", i # j,
                      currentTerm[j] = currentTerm[i]
               PROVE  /\ matchIndex[i][j] <= Len(log[i]) /\ matchIndex[i][j] <= Len(log[j])
                      /\ SubSeq(log[i], 1, matchIndex[i][j]) = SubSeq(log[j], 1, matchIndex[i][j])
    BY ZenonT(30) DEF MatchIndexSound
  <2>2. PICK x, k, l : x = matchIndex[i][j] /\ k = log[i] /\ l = log[j]
    BY ZenonT(30)
  <2>3. /\ x \in Nat /\ k \in Seq(Entry) /\ l \in Seq(Entry)
        /\ Len(k) \in Nat /\ Len(l) \in Nat
    BY SMTT(30), <2>1, <2>2 DEF TypeOK
  <2>4. LinksOf(k) \subseteq Links /\ LinksOf(l) \subseteq Links
    BY Zenon, <2>2, Linked
  <2>5. x <= Len(k) /\ x <= Len(l) /\ TermAt(k, x) = TermAt(l, x)
    <3>1. CASE x = 0
      BY <2>3, <3>1 DEF TermAt
    <3>2. CASE x # 0
      <4>1. PICK r \in appendReplies : /\ r.success /\ r.from = i /\ r.to = j
                                       /\ r.term = currentTerm[i] /\ r.match = x
        BY <2>1, <2>2, <3>2 DEF MatchReported
      <4>2. PICK c \in appendCalls : Accepted(r, c)
        BY ZenonT(30), <2>1, <4>1 DEF ReplySound
      <4>3. c.term = currentTerm[i] /\ EndIndex(c) = x /\ x <= Len(l) /\ TermAt(l, x) = EndTerm(c)
        BY ZenonT(30), <2>2, <4>1, <4>2 DEF Accepted
      <4>4. x <= Len(k) /\ TermAt(k, x) = EndTerm(c)
        BY ZenonT(30), <2>1, <2>2, <4>3 DEF CallsOfLeader, Leads
      <4> QED BY ZenonT(30), <4>3, <4>4
    <3> QED BY ZenonT(30), <3>1, <3>2
  <2>6. SubSeq(k, 1, x) = SubSeq(l, 1, x)
    BY ZenonT(30), <2>1, <2>3, <2>4, <2>5, PrefixAgree
  <2> QED BY ZenonT(30), <2>2, <2>5, <2>6
<1>2. RaftInv => MatchIndexSound
  BY Zenon, <1>1
<1> QED BY <1>2, RaftInvariant, PTL

-----------------------------------------------------------------------------
(* The invariant of what is committed, and what follows from it. *)

\* Nothing is chosen or committed at the start.
LEMMA InitSafety == Init => ChoiceInv /\ CommitInv
<1> SUFFICES ASSUME Init PROVE ChoiceInv /\ CommitInv
  BY ZenonT(30)
<1>1. /\ voteCalls = {} /\ voteReplies = {} /\ appendCalls = {}
      /\ \A i \in Server : log[i] = <<>> /\ commitIndex[i] = 0 /\ applied[i] = <<>>
  BY ZenonT(30) DEF Init
<1>2. Links = {}
  <2>1. ASSUME NEW a \in Links PROVE FALSE
    BY <1>1, LinkFrom DEF Links, SentLinks, LinksOf
  <2> QED BY ZenonT(30), <2>1
<1>3. ChoiceInv
  BY ZenonT(30), <1>1, <1>2 DEF ChoiceInv, VoteCalls, CandidateLog, LinksPass, CallsPass, AckedCovers, VotersSaw
<1>4. CommitChosen /\ CallCommitChosen
  BY ZenonT(30), <1>1 DEF CommitChosen, CallCommitChosen
<1>5. SubSeq(<<>>, 1, 0) = <<>> /\ Len(<<>>) = 0
  OBVIOUS
<1>6. \A i \in Server : /\ commitIndex[i] = 0 /\ Len(log[i]) = 0
                        /\ applied[i] = SubSeq(log[i], 1, commitIndex[i])
  BY ZenonT(30), <1>1, <1>5
<1>7. AppliedInLog
  BY <1>6 DEF AppliedInLog
<1>8. CommitWithinCall
  BY ZenonT(30), <1>1 DEF CommitWithinCall
<1> QED BY ZenonT(30), <1>3, <1>4, <1>7, <1>8 DEF CommitInv

\* A step of Next between two states with RaftInv is a Step.
LEMMA StepTaken == RaftInv /\ RaftInv' /\ [Next]_vars => Step
BY ZenonT(30), NextIndexInv DEF Step, RaftInv

\* The inductive invariant holds in every reachable state.
LEMMA SafetyInvariant == Spec => []SafetyInv
<1>1. Init => ChoiceInv /\ CommitInv
  BY ZenonT(30), InitSafety
<1>2. RaftInv /\ RaftInv' /\ ChoiceInv /\ CommitInv /\ [Next]_vars => ChoiceInv' /\ CommitInv'
  BY ZenonT(30), StepTaken, NextChoiceInv, NextCommitInv
<1> QED BY <1>1, <1>2, RaftInvariant, PTL DEF Spec, SafetyInv

\* Of two links one is the later, and a log that reaches the later reaches both.
LEMMA LaterLink ==
    ASSUME TypeOK, NEW a \in Links, NEW b \in Links, NEW l \in Seq(Entry), NEW n \in Seq(Entry),
           Covers(l, a), Covers(n, b)
    PROVE  Covers(l, b) \/ Covers(n, a)
<1>1. /\ a.index \in Nat /\ a.entry.term \in Nat /\ b.index \in Nat /\ b.entry.term \in Nat
  BY ZenonT(30), LinkTyped
<1>2. LastTerm(l) \in Nat /\ LastTerm(n) \in Nat /\ Len(l) \in Nat /\ Len(n) \in Nat
  BY LastTermType
<1> QED BY SMTT(30), <1>1, <1>2 DEF Covers, AtLeast

\* Logs that reach a chosen link agree up to it.
LEMMA ChosenAgree ==
    ASSUME SafetyInv, NEW i \in Server, NEW j \in Server, NEW a \in Links, Chosen(a),
           Covers(log[i], a), Covers(log[j], a), NEW c \in Nat, c <= a.index
    PROVE  /\ c <= Len(log[i]) /\ c <= Len(log[j])
           /\ \A k \in 1..c : log[i][k] = log[j][k]
<1>1. TypeOK /\ LinkInv /\ LinksPass
  BY ZenonT(30) DEF SafetyInv, RaftInv, IndexInv, LogInv, ChoiceInv
<1>2. log[i] \in Seq(Entry) /\ log[j] \in Seq(Entry)
  BY ZenonT(30), <1>1 DEF TypeOK
<1>3. LinksOf(log[i]) \subseteq Links /\ LinksOf(log[j]) \subseteq Links
  BY ZenonT(30), Linked
<1>4. /\ WellOrdered /\ Links \in SUBSET LinkRecord /\ Unique(Links) /\ Runs(Links)
      /\ a.index # 0
  BY ZenonT(30), <1>1, LinkTyped DEF LinkInv
<1>5. \A b \in Links : b.entry.term > a.entry.term => AtLeast(b.index - 1, b.prev, a)
  BY ZenonT(30), <1>1, ChosenChoosable DEF LinksPass
<1> QED BY SMTT(30), <1>2, <1>3, <1>4, <1>5, CoversAgree

\* What a node has applied, and the chosen link behind it.
LEMMA AppliedChosen ==
    ASSUME SafetyInv, NEW i \in Server
    PROVE  /\ commitIndex[i] \in Nat /\ Len(applied[i]) = commitIndex[i]
           /\ DOMAIN applied[i] = 1..commitIndex[i]
           /\ \A k \in 1..commitIndex[i] : applied[i][k] = log[i][k]
           /\ commitIndex[i] # 0 =>
                \E a \in Links : /\ Chosen(a) /\ commitIndex[i] <= a.index
                                 /\ a.entry.term <= currentTerm[i] /\ Covers(log[i], a)
<1>1. TypeOK /\ AppliedInLog /\ CommitChosen
  BY ZenonT(30) DEF SafetyInv, RaftInv, IndexInv, CommitInv
<1>2. PICK l, c, p : l = log[i] /\ c = commitIndex[i] /\ p = applied[i]
  BY ZenonT(30)
<1>3. l \in Seq(Entry) /\ c \in Nat /\ c <= Len(l) /\ p = SubSeq(l, 1, c)
  BY ZenonT(30), <1>1, <1>2 DEF TypeOK, AppliedInLog
<1>4. Len(p) = c /\ DOMAIN p = 1..c /\ \A k \in 1..c : p[k] = l[k]
  <2>1. \A k \in 1..c : l[k] \in Entry
    BY SMTT(30), <1>3, ElementOfSeq
  <2> QED BY SMTT(30), <1>3, <2>1, SubSeqProperties
<1>5. c # 0 => \E a \in Links : /\ Chosen(a) /\ c <= a.index
                                /\ a.entry.term <= currentTerm[i] /\ Covers(l, a)
  BY ZenonT(30), <1>1, <1>2 DEF CommitChosen, Backed, Covers
<1> QED BY ZenonT(30), <1>2, <1>3, <1>4, <1>5

\* What a node has applied is the front of its log: AppendEntries never cuts a
\* committed entry, however late or often a call is handled, and applyLogs never
\* indexes past the log.
THEOREM AppliedIsFront == Spec => []AppliedInLog
<1>1. SafetyInv => AppliedInLog
  BY ZenonT(30) DEF SafetyInv, CommitInv
<1> QED BY <1>1, SafetyInvariant, PTL

\* A call never announces more than it covers, so the follower may bound
\* LeaderCommit by the length of its own log.
THEOREM AnnouncedIsCovered == Spec => []CommitWithinCall
<1>1. SafetyInv => CommitWithinCall
  BY ZenonT(30) DEF SafetyInv, CommitInv
<1> QED BY <1>1, SafetyInvariant, PTL

\* No two nodes ever send different commands on applyCh at the same index, for
\* any number of nodes, elections and calls.
THEOREM StateMachinesAgree == Spec => []StateMachineSafety
<1>1. ASSUME SafetyInv PROVE StateMachineSafety
  <2> SUFFICES ASSUME NEW i \in Server, NEW j \in Server,
                      NEW k \in DOMAIN applied[i] \cap DOMAIN applied[j]
               PROVE  applied[i][k] = applied[j][k]
    BY ZenonT(30) DEF StateMachineSafety
  <2>1. TypeOK /\ log[i] \in Seq(Entry) /\ log[j] \in Seq(Entry)
    BY ZenonT(30), <1>1 DEF SafetyInv, RaftInv, IndexInv, TypeOK
  <2>2. PICK c, d : c = commitIndex[i] /\ d = commitIndex[j]
    BY ZenonT(30)
  <2>3. /\ c \in Nat /\ d \in Nat /\ k \in 1..c /\ k \in 1..d
        /\ applied[i][k] = log[i][k] /\ applied[j][k] = log[j][k]
    BY ZenonT(30), <1>1, <2>2, AppliedChosen
  <2>4. PICK a \in Links : Chosen(a) /\ c <= a.index /\ Covers(log[i], a)
    BY SMTT(30), <1>1, <2>2, <2>3, AppliedChosen
  <2>5. PICK b \in Links : Chosen(b) /\ d <= b.index /\ Covers(log[j], b)
    BY SMTT(30), <1>1, <2>2, <2>3, AppliedChosen
  <2>6. log[i][k] = log[j][k]
    <3>1. CASE Covers(log[i], b)
      BY ZenonT(30), <1>1, <2>3, <2>5, <3>1, ChosenAgree
    <3>2. CASE Covers(log[j], a)
      BY ZenonT(30), <1>1, <2>3, <2>4, <3>2, ChosenAgree
    <3> QED BY ZenonT(30), <2>1, <2>4, <2>5, <3>1, <3>2, LaterLink
  <2> QED BY ZenonT(30), <2>3, <2>6
<1>2. SafetyInv => StateMachineSafety
  BY Zenon, <1>1
<1> QED BY <1>2, SafetyInvariant, PTL

\* A leader holds every entry committed by a node that is not ahead of its
\* term, from the moment it is elected.
THEOREM LeadersAreComplete == Spec => []LeaderCompleteness
<1>1. ASSUME SafetyInv PROVE LeaderCompleteness
  <2> SUFFICES ASSUME NEW i \in Server, NEW j \in Server, role[i] = "Leader",
                      currentTerm[i] >= currentTerm[j]
               PROVE  /\ Len(applied[j]) <= Len(log[i])
                      /\ \A k \in DOMAIN applied[j] : log[i][k] = applied[j][k]
    BY ZenonT(30) DEF LeaderCompleteness
  <2>1. RaftInv /\ ChoiceInv /\ TypeOK /\ LinkInv
    BY ZenonT(30), <1>1 DEF SafetyInv, RaftInv, IndexInv, LogInv
  <2>2. PICK t, c : t = currentTerm[i] /\ c = commitIndex[j]
    BY ZenonT(30)
  <2>3. /\ t \in Nat /\ currentTerm[j] \in Nat /\ log[i] \in Seq(Entry) /\ Leads(i, t)
    BY ZenonT(30), <2>1, <2>2 DEF TypeOK, Leads
  <2>4. /\ c \in Nat /\ Len(applied[j]) = c /\ DOMAIN applied[j] = 1..c
        /\ \A k \in 1..c : applied[j][k] = log[j][k]
    BY ZenonT(30), <1>1, <2>2, AppliedChosen
  <2>5. CASE c = 0
    BY SMTT(30), <2>3, <2>4, <2>5
  <2>6. CASE c # 0
    <3>1. PICK a \in Links : /\ Chosen(a) /\ c <= a.index /\ a.entry.term <= currentTerm[j]
                             /\ Covers(log[j], a)
      BY ZenonT(30), <1>1, <2>2, <2>6, AppliedChosen
    <3>2. a.entry.term \in Nat /\ a.entry.term <= t
      <4>1. a.entry.term \in Nat
        BY ZenonT(30), <2>1, LinkTyped
      <4> QED BY <2>2, <2>3, <3>1, <4>1
    <3>3. Covers(log[i], a)
      <4>1. CASE a.entry.term < t
        BY ZenonT(30), <2>1, <2>3, <3>1, <4>1, ChosenChoosable, LeaderCovers
      <4>2. CASE a.entry.term = t
        BY ZenonT(30), <2>1, <2>3, <4>2 DEF LinkInv, LeaderHolds, Covers, AtLeast
      <4> QED BY <2>3, <3>2, <4>1, <4>2
    <3>4. c <= Len(log[i]) /\ \A k \in 1..c : log[i][k] = log[j][k]
      BY ZenonT(30), <1>1, <2>4, <3>1, <3>3, ChosenAgree
    <3> QED BY ZenonT(30), <2>4, <3>4
  <2> QED BY ZenonT(30), <2>5, <2>6
<1>2. SafetyInv => LeaderCompleteness
  BY Zenon, <1>1
<1> QED BY <1>2, SafetyInvariant, PTL

\* A set of nodes that includes a majority is one.
LEMMA MoreThanMajority ==
    ASSUME NEW Q, NEW R \in SUBSET Server, Q \subseteq R, IsMajority(Q)
    PROVE  IsMajority(R)
<1>1. IsFiniteSet(Server) /\ IsFiniteSet(R) /\ IsFiniteSet(Q) /\ Cardinality(Q) <= Cardinality(R)
  BY ZenonT(30), ServerAssumption, FS_Subset
<1>2. Cardinality(Server) \in Nat /\ Cardinality(Q) \in Nat /\ Cardinality(R) \in Nat
  BY ZenonT(30), <1>1, FS_CardinalityType
<1> QED BY SMTT(30), <1>1, <1>2 DEF IsMajority

\* An entry committed anywhere stays on a majority of the nodes.
THEOREM MajorityKeeps == Spec => []CommittedOnMajority
<1>1. ASSUME SafetyInv PROVE CommittedOnMajority
  <2> SUFFICES ASSUME NEW i \in Server, NEW k \in 1..commitIndex[i]
               PROVE  IsMajority({j \in Server : k <= Len(log[j]) /\ log[j][k] = applied[i][k]})
    BY Zenon DEF CommittedOnMajority
  <2>1. /\ k \in Nat /\ commitIndex[i] \in Nat /\ commitIndex[i] # 0
        /\ k <= commitIndex[i] /\ applied[i][k] = log[i][k]
    BY SMTT(30), <1>1, AppliedChosen
  <2>2. PICK a \in Links : Chosen(a) /\ commitIndex[i] <= a.index /\ Covers(log[i], a)
    BY Zenon, <1>1, <2>1, AppliedChosen
  <2>3. PICK Q \in SUBSET Server : IsMajority(Q) /\ \A j \in Q : Acked(j, a)
    BY ZenonT(30), <2>2 DEF Chosen
  <2>4. k <= a.index /\ k \in 1..k
    <3>1. a.index \in Nat
      BY ZenonT(30), <1>1, LinkTyped DEF SafetyInv, RaftInv, IndexInv
    <3> QED BY SMTT(30), <2>1, <2>2, <3>1
  <2>5. ASSUME NEW j \in Q PROVE k <= Len(log[j]) /\ log[j][k] = applied[i][k]
    <3>1. Covers(log[j], a)
      BY ZenonT(30), <1>1, <2>2, <2>3, ChosenChoosable DEF SafetyInv, ChoiceInv, AckedCovers
    <3>2. k <= Len(log[j]) /\ \A x \in 1..k : log[j][x] = log[i][x]
      BY ZenonT(30), <1>1, <2>1, <2>2, <2>4, <3>1, ChosenAgree
    <3> QED BY ZenonT(30), <2>1, <2>4, <3>2
  <2>6. Q \subseteq {j \in Server : k <= Len(log[j]) /\ log[j][k] = applied[i][k]}
    BY ZenonT(30), <2>5
  <2> QED BY ZenonT(30), <2>3, <2>6, MoreThanMajority
<1>2. SafetyInv => CommittedOnMajority
  BY Zenon, <1>1
<1> QED BY <1>2, SafetyInvariant, PTL

\* A commit index never goes back, whatever calls and replies come late.
THEOREM CommitNeverBack == Spec => CommitMonotonic
<1>1. SafetyInv /\ SafetyInv' /\ [Next]_vars
        => [\A i \in Server : commitIndex'[i] >= commitIndex[i]]_vars
  BY ZenonT(30), StepTaken, NextApplied DEF SafetyInv
<1> QED BY <1>1, SafetyInvariant, PTL DEF Spec, CommitMonotonic

-----------------------------------------------------------------------------
(* Every node implements NodeLog. *)

\* A call replaces entries only by others, and only above the commit index: it
\* could end at the commit index only if the log had its last entry, and then
\* the log stays.
LEMMA AcceptReplicates ==
    ASSUME Step, ChoiceInv, CommitInv, NEW m \in appendCalls, Accepts(m)
    PROVE  Node(m.to)!Replicated
<1>1. TypeOK /\ TypeOK' /\ LinkInv
  BY ZenonT(30), StepFacts
<1>2. PICK j : j = m.to
  BY Zenon
<1>3. PICK l, n, c, d, e : /\ l = log[j] /\ n = log'[j] /\ e = EndIndex(m)
                           /\ c = commitIndex[j] /\ d = commitIndex'[j]
  BY Zenon
<1>4. /\ j \in Server /\ role'[j] = "Follower" /\ l \in Seq(Entry) /\ n \in Seq(Entry)
      /\ TermAt(n, e) = EndTerm(m) /\ (n = l \/ Len(n) = e)
      /\ e <= Len(l) /\ TermAt(l, e) = EndTerm(m) => n = l
  BY ZenonT(30), <1>1, <1>2, <1>3, AcceptStep DEF LinkInv
<1>5. c \in Nat /\ d \in Nat /\ Len(l) \in Nat /\ Len(n) \in Nat
  BY SMTT(30), <1>1, <1>3, <1>4 DEF TypeOK
<1>6. c <= Len(l) /\ c <= Len(n) /\ SubSeq(n, 1, c) = SubSeq(l, 1, c)
  BY Zenon, <1>3, <1>4, FrontKept DEF CommitInv, AppliedInLog
<1>7. d \in c..Len(n)
  BY <1>3, <1>4, <1>5, NextApplied DEF AppliedInLog
<1>8. ASSUME n # l PROVE Len(n) > c
  <2> SUFFICES ASSUME Len(n) = c PROVE FALSE
    BY <1>5, <1>6
  <2>1. e = c /\ e <= Len(l)
    BY ZenonT(30), <1>4, <1>6, <1>8
  <2>2. TermAt(l, e) = TermAt(n, e)
    <3>1. CASE c = 0
      BY ZenonT(30), <2>1, <3>1 DEF TermAt
    <3>2. CASE c # 0
      <4>1. c \in 1..c /\ \A k \in 1..c : l[k] \in Entry /\ n[k] \in Entry
        BY SMTT(30), <1>4, <1>5, <1>6, <3>2, ElementOfSeq
      <4>2. SubSeq(l, 1, c)[c] = l[c]
        BY SMTT(30), <1>5, <1>6, <4>1, SubSeqProperties
      <4>3. SubSeq(n, 1, c)[c] = n[c]
        BY SMTT(30), <1>5, <1>6, <4>1, SubSeqProperties
      <4> QED BY ZenonT(30), <1>6, <2>1, <4>2, <4>3 DEF TermAt
    <3> QED BY ZenonT(30), <3>1, <3>2
  <2> QED BY ZenonT(30), <1>4, <1>8, <2>1, <2>2
<1>9. n = l \/ \E x \in c..Len(l) : Len(n) > x /\ SubSeq(n, 1, x) = SubSeq(l, 1, x)
  BY SMTT(30), <1>5, <1>6, <1>8
<1> QED BY ZenonT(30), <1>2, <1>3, <1>4, <1>7, <1>9 DEF Node!Replicated, Node!Kept

\* Every step of the cluster is a step of NodeLog, or none, for each node.
LEMMA NodeStep ==
    ASSUME Step, ChoiceInv, CommitInv, NEW i \in Server
    PROVE  Node(i)!NodeLogNext
<1>1. IndexInv /\ IndexInv' /\ TypeOK /\ LinkInv
  BY ZenonT(30), StepFacts
<1>2. commitIndex \in [Server -> Nat] /\ log \in [Server -> Seq(Entry)]
  BY ZenonT(30), <1>1 DEF TypeOK
<1>3. CASE log'[i] = log[i] /\ commitIndex'[i] = commitIndex[i]
  BY ZenonT(30), <1>3 DEF Node!NodeLogNext, Node!RoleChanged
<1>4. ASSUME NEW m \in appendCalls, Accepts(m) PROVE Node(i)!NodeLogNext
  <2>1. CASE i = m.to
    BY ZenonT(30), <1>4, <2>1, AcceptReplicates DEF Node!NodeLogNext
  <2>2. CASE i # m.to
    <3>1. log'[i] = log[i] /\ commitIndex'[i] = commitIndex[i]
      BY ZenonT(30), <1>2, <1>4, <2>2 DEF Accepts, AppendEntries, applyLogs, logVars
    <3> QED BY ZenonT(30), <1>3, <3>1
  <2> QED BY ZenonT(30), <2>1, <2>2
<1>5. ASSUME NEW k \in Server, NEW v \in Value, Submit(k, v) PROVE Node(i)!NodeLogNext
  <2>1. CASE i # k
    BY ZenonT(30), <1>1, <1>3, <1>5, <2>1, SubmitStep
  <2>2. CASE i = k
    <3>1. /\ role[i] = "Leader" /\ role'[i] = "Leader" /\ commitIndex'[i] = commitIndex[i]
          /\ log[i] \in Seq(Entry) /\ log'[i] \in Seq(Entry) /\ Len(log'[i]) = Len(log[i]) + 1
          /\ \A x \in 1..Len(log[i]) : log'[i][x] = log[i][x]
      BY ZenonT(30), <1>1, <1>5, <2>2, SubmitStep DEF Leads
    <3>2. SubSeq(log'[i], 1, Len(log[i])) = SubSeq(log[i], 1, Len(log[i]))
      BY <3>1
    <3> QED BY ZenonT(30), <3>1, <3>2 DEF Node!NodeLogNext, Node!Submitted, Node!Kept
  <2> QED BY ZenonT(30), <2>1, <2>2
<1>6. CASE log' = log
  <2>1. ASSUME NEW k \in Server, NEW N \in Nat, Commits(k, N) PROVE Node(i)!NodeLogNext
    <3>1. CASE i # k
      BY ZenonT(30), <1>2, <1>3, <1>6, <2>1, <3>1 DEF Commits, applyLogs
    <3>2. CASE i = k
      <4>1. /\ role[i] = "Leader" /\ role'[i] = "Leader"
            /\ commitIndex'[i] \in (commitIndex[i] + 1)..Len(log[i])
        BY ZenonT(30), <1>2, <2>1, <3>2 DEF Commits, Leads, Committable, applyLogs
      <4> QED BY ZenonT(30), <1>6, <4>1 DEF Node!NodeLogNext, Node!Committed
    <3> QED BY ZenonT(30), <3>1, <3>2
  <2>2. ASSUME NEW m \in appendCalls, FollowsCommit(m) PROVE Node(i)!NodeLogNext
    BY ZenonT(30), <1>4, <2>2 DEF FollowsCommit
  <2> QED BY ZenonT(30), <1>3, <1>6, <2>1, <2>2, CommitKinds
<1>7. CASE Quiet \/ \E k \in Server : Sends(k)
  BY ZenonT(30), <1>6, <1>7 DEF Quiet, Sends
<1> QED BY ZenonT(30), <1>4, <1>5, <1>7, StepKinds

\* Whatever the cluster does, the log and the commit index of each node start and
\* move as NodeLog allows, which is what HallownestNode is built on.
THEOREM NodesImplementNodeLog ==
    Spec => (\A i \in Server : Node(i)!NodeLogInit) /\ ImplementsNodeLog
<1>1. Init => \A i \in Server : Node(i)!NodeLogInit
  BY ZenonT(30) DEF Init, Node!NodeLogInit
<1>2. SafetyInv /\ SafetyInv' /\ [Next]_vars => [\A i \in Server : Node(i)!NodeLogNext]_vars
  BY ZenonT(30), StepTaken, NodeStep DEF SafetyInv
<1> QED BY <1>1, <1>2, SafetyInvariant, PTL DEF Spec, ImplementsNodeLog
=============================================================================
