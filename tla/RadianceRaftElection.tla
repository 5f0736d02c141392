------------------------ MODULE RadianceRaftElection ------------------------
(***************************************************************************)
(* The index arithmetic and the votes of RadianceRaft, for every set of    *)
(* nodes and every bound: every step keeps IndexInv and VoteInv.           *)
(*                                                                         *)
(* The argument for the votes: a node's vote in a term is never changed, a *)
(* leader holds the votes of a majority, and two majorities have a voter   *)
(* in common.                                                              *)
(***************************************************************************)
EXTENDS RadianceRaftLinks

-----------------------------------------------------------------------------
(* The indexes. *)

\* Stepping nextIndex back keeps it in range.
LEMMA OneBack == ASSUME NEW n \in Nat, NEW k \in Nat, n \in 1..(k + 1), n > 1
                 PROVE  n - 1 \in 1..(k + 1)
OBVIOUS

\* broadcastHeartbeats starts well-formed calls that carry the log to its end.
LEMMA BroadcastCalls ==
    ASSUME NEW i \in Server, NEW term \in Nat, NEW ilog \in Seq(Entry),
           NEW next \in [Server -> Nat],
           \A j \in Peers(i) : next[j] \in 1..(Len(ilog) + 1),
           commitIndex[i] \in Nat,
           NEW m \in broadcastHeartbeats(i, term, ilog, next)
    PROVE  /\ m \in AppendEntriesArgs
           /\ m.from = i /\ m.term = term
           /\ m.prevLogIndex + Len(m.entries) = Len(ilog)
<1>1. PICK j \in Peers(i) :
        m = [from |-> i, to |-> j, term |-> term,
             prevLogIndex |-> next[j] - 1, prevLogTerm |-> TermAt(ilog, next[j] - 1),
             entries |-> SubSeq(ilog, next[j], Len(ilog)),
             leaderCommit |-> commitIndex[i]]
  <2>1. PICK j \in Peers(i) :
        m = [from |-> i, to |-> j, term |-> term,
             prevLogIndex |-> IF next[j] < 1 THEN 0 ELSE next[j] - 1,
             prevLogTerm |-> TermAt(ilog, IF next[j] < 1 THEN 0 ELSE next[j] - 1),
             entries |-> SubSeq(ilog, (IF next[j] < 1 THEN 0 ELSE next[j] - 1) + 1, Len(ilog)),
             leaderCommit |-> commitIndex[i]]
    BY Zenon DEF broadcastHeartbeats
  <2>2. next[j] \in Nat /\ next[j] >= 1 /\ next[j] - 1 + 1 = next[j]
    BY DEF Peers
  <2>3. (IF next[j] < 1 THEN 0 ELSE next[j] - 1) = next[j] - 1
    BY <2>2
  <2> QED BY Zenon, <2>1, <2>2, <2>3
<1> DEFINE n == next[j]
<1>2. n \in 1..(Len(ilog) + 1) /\ Len(ilog) \in Nat /\ j \in Server
  BY DEF Peers
<1>3. TermAt(ilog, n - 1) \in Nat
  <2>1. CASE n = 1  BY <2>1 DEF TermAt
  <2>2. CASE n # 1
    <3>1. n - 1 \in 1..Len(ilog)  BY <1>2, <2>2
    <3>2. ilog[n - 1] \in Entry  BY Zenon, <3>1, ElementOfSeq
    <3> QED BY Zenon, <3>1, <3>2 DEF TermAt, Entry
  <2> QED BY Zenon, <2>1, <2>2
<1>4. /\ SubSeq(ilog, n, Len(ilog)) \in Seq(Entry)
      /\ Len(SubSeq(ilog, n, Len(ilog))) = Len(ilog) - n + 1
  <2>1. \A k \in n..Len(ilog) : ilog[k] \in Entry  BY SMTT(30), <1>2, ElementOfSeq
  <2> QED BY SMTT(30), <1>2, <2>1, SubSeqProperties
<1>5. n - 1 \in Nat BY <1>2
<1> QED BY SMTT(30), <1>1, <1>2, <1>3, <1>4, <1>5 DEF AppendEntriesArgs

\* Applying up to a commit index within the log, or to one already applied.
LEMMA ApplyType ==
    ASSUME NEW a \in Seq(Entry), NEW l \in Seq(Entry), NEW commit \in Nat,
           commit <= Len(l) \/ commit <= Len(a)
    PROVE  /\ a \o SubSeq(l, Len(a) + 1, commit) \in Seq(Entry)
           /\ commit <= Len(a \o SubSeq(l, Len(a) + 1, commit))
<1>1. Len(a) \in Nat /\ Len(l) \in Nat
  OBVIOUS
<1>2. \A k \in (Len(a) + 1)..commit : l[k] \in Entry
  BY <1>1, ElementOfSeq
<1>3. /\ SubSeq(l, Len(a) + 1, commit) \in Seq(Entry)
      /\ Len(SubSeq(l, Len(a) + 1, commit)) =
            IF Len(a) + 1 <= commit THEN commit - (Len(a) + 1) + 1 ELSE 0
  BY <1>1, <1>2, SubSeqProperties
<1> QED BY <1>1, <1>3, ConcatProperties

\* A step changes one node only.
LEMMA EvolvesAt ==
    ASSUME currentTerm \in [Server -> Nat], log \in [Server -> Seq(Entry)],
           NEW i \in Server,
           \A s \in Server : s # i => /\ currentTerm'[s] = currentTerm[s]
                                     /\ role'[s] = role[s] /\ log'[s] = log[s],
           currentTerm'[i] >= currentTerm[i],
           currentTerm'[i] = currentTerm[i] =>
              /\ role'[i] = "Candidate" => role[i] = "Candidate"
              /\ role'[i] = "Leader" =>
                   \/ role[i] = "Candidate"
                   \/ role[i] = "Leader" /\ Len(log'[i]) >= Len(log[i])
    PROVE  Evolves
<1> SUFFICES ASSUME NEW s \in Server
             PROVE  /\ currentTerm'[s] >= currentTerm[s]
                    /\ currentTerm'[s] = currentTerm[s] =>
                         /\ role'[s] = "Candidate" => role[s] = "Candidate"
                         /\ role'[s] = "Leader" =>
                              \/ role[s] = "Candidate"
                              \/ role[s] = "Leader" /\ Len(log'[s]) >= Len(log[s])
  BY Zenon DEF Evolves
<1>1. CASE s = i  BY Zenon, <1>1
<1>2. CASE s # i
  <2>1. currentTerm[s] \in Nat /\ Len(log[s]) \in Nat  OBVIOUS
  <2> QED BY <1>2, <2>1
<1> QED BY Zenon, <1>1, <1>2

\* What a past call or reply says of its sender survives every such step.
LEMMA SentKept ==
    ASSUME Evolves, NEW m, m.from \in Server, m.term \in Nat, NEW last \in Nat,
           currentTerm \in [Server -> Nat], currentTerm' \in [Server -> Nat],
           log \in [Server -> Seq(Entry)], log' \in [Server -> Seq(Entry)],
           SentWithinLog(m, last)
    PROVE  SentWithinLog(m, last)'
<1> DEFINE s == m.from
<1>1. /\ currentTerm[s] \in Nat /\ currentTerm'[s] \in Nat
      /\ Len(log[s]) \in Nat /\ Len(log'[s]) \in Nat
  OBVIOUS
<1> QED BY <1>1 DEF SentWithinLog, Evolves

\* NewRaftNode starts with an empty log, no calls and all indexes 0.
LEMMA InitIndexInv == Init => IndexInv
<1> SUFFICES ASSUME Init PROVE IndexInv
  BY Zenon
<1>1. <<>> \in Seq(Entry) /\ Len(<<>>) = 0
  OBVIOUS
<1> QED BY <1>1, ServerAssumption DEF Init, IndexInv, TypeOK, CommitApplied, CallsWithinLog,
                    RepliesWithinLog, NextIndexInBounds, Role

\* A node that wins an election starts with nextIndex one past its log.
LEMMA BecomeLeaderIndex ==
    ASSUME IndexInv, NEW i \in Server, NEW term \in Nat, becomeLeader(i, term)
    PROVE  /\ role' \in [Server -> Role]
           /\ nextIndex' \in [Server -> [Server -> Nat]]
           /\ matchIndex' \in [Server -> [Server -> Nat]]
           /\ \A j \in Server : i # j => nextIndex'[i][j] = Len(log[i]) + 1
           /\ \A k \in Server : k # i => nextIndex'[k] = nextIndex[k]
           /\ appendCalls' \subseteq AppendEntriesArgs
           /\ \A m \in appendCalls' :
                \/ m \in appendCalls
                \/ /\ m.from = i /\ m.term = term
                   /\ m.prevLogIndex + Len(m.entries) = Len(log[i])
<1>1. /\ log[i] \in Seq(Entry) /\ Len(log[i]) \in Nat /\ commitIndex[i] \in Nat
      /\ role \in [Server -> Role]
      /\ nextIndex \in [Server -> [Server -> Nat]]
      /\ matchIndex \in [Server -> [Server -> Nat]]
      /\ appendCalls \subseteq AppendEntriesArgs
  BY SMTT(30) DEF IndexInv, TypeOK
<1> DEFINE next == [j \in Server |-> IF j = i THEN nextIndex[i][j] ELSE Len(log[i]) + 1]
           match == [j \in Server |-> IF j = i THEN matchIndex[i][j] ELSE 0]
<1>2. /\ nextIndex' \in [Server -> [Server -> Nat]]
      /\ matchIndex' \in [Server -> [Server -> Nat]]
      /\ nextIndex'[i] = next
      /\ \A k \in Server : k # i => nextIndex'[k] = nextIndex[k]
  <2>1. next \in [Server -> Nat] /\ match \in [Server -> Nat]
    BY SMTT(30), <1>1
  <2>2. nextIndex' = [nextIndex EXCEPT ![i] = next] /\ matchIndex' = [matchIndex EXCEPT ![i] = match]
    BY Zenon DEF becomeLeader
  <2> HIDE DEF next, match
  <2> QED BY Zenon, <1>1, <2>1, <2>2
<1>3. role' \in [Server -> Role]
  BY Zenon, <1>1 DEF becomeLeader, Role
<1>4. \A j \in Server : i # j => nextIndex'[i][j] = Len(log[i]) + 1
  BY Zenon, <1>2
<1>6. \A j \in Peers(i) : nextIndex'[i][j] \in 1..(Len(log[i]) + 1)
  BY SMTT(30), <1>1, <1>4 DEF Peers
<1>5. \A m \in broadcastHeartbeats(i, term, log[i], nextIndex'[i]) :
         /\ m \in AppendEntriesArgs
         /\ m.from = i /\ m.term = term
         /\ m.prevLogIndex + Len(m.entries) = Len(log[i])
  <2>1. nextIndex'[i] \in [Server -> Nat] /\ log[i] \in Seq(Entry) /\ commitIndex[i] \in Nat
    BY Zenon, <1>1, <1>2
  <2> QED BY SMTT(30), <2>1, <1>6, BroadcastCalls
<1> QED BY Zenon, <1>1, <1>2, <1>3, <1>4, <1>5 DEF becomeLeader

\* It is enough to look at the calls and replies a step adds.
LEMMA SentInv ==
    ASSUME IndexInv, Evolves, TypeOK',
           \A m \in appendCalls' : \/ m \in appendCalls
                                   \/ SentWithinLog(m, m.prevLogIndex + Len(m.entries))',
           \A m \in appendReplies' : m \in appendReplies \/ SentWithinLog(m, m.match)'
    PROVE  CallsWithinLog' /\ RepliesWithinLog'
<1>1. /\ currentTerm \in [Server -> Nat] /\ currentTerm' \in [Server -> Nat]
      /\ log \in [Server -> Seq(Entry)] /\ log' \in [Server -> Seq(Entry)]
  BY Zenon DEF IndexInv, TypeOK
<1>2. ASSUME NEW m \in appendCalls
      PROVE  SentWithinLog(m, m.prevLogIndex + Len(m.entries))'
  <2>1. m.from \in Server /\ m.term \in Nat /\ m.prevLogIndex \in Nat /\ m.entries \in Seq(Entry)
    BY Zenon DEF IndexInv, TypeOK, AppendEntriesArgs
  <2>2. m.prevLogIndex + Len(m.entries) \in Nat
    BY <2>1
  <2>3. SentWithinLog(m, m.prevLogIndex + Len(m.entries))
    BY Zenon DEF IndexInv, CallsWithinLog
  <2> QED BY Zenon, <1>1, <2>1, <2>2, <2>3, SentKept
<1>3. ASSUME NEW m \in appendReplies
      PROVE  SentWithinLog(m, m.match)'
  <2>1. m.from \in Server /\ m.term \in Nat /\ m.match \in Nat
    BY Zenon DEF IndexInv, TypeOK, AppendEntriesReply
  <2>2. SentWithinLog(m, m.match)
    BY Zenon DEF IndexInv, RepliesWithinLog
  <2> QED BY Zenon, <1>1, <2>1, <2>2, SentKept
<1> QED BY Zenon, <1>2, <1>3 DEF CallsWithinLog, RepliesWithinLog

\* A new leader's first calls and its nextIndex fit its log.
LEMMA BecomeLeaderKeeps ==
    ASSUME IndexInv, TypeOK', Evolves, NEW i \in Server,
           becomeLeader(i, currentTerm'[i]), UNCHANGED <<log, appendReplies>>
    PROVE  CallsWithinLog' /\ RepliesWithinLog' /\ NextIndexInBounds'
<1>1. /\ currentTerm'[i] \in Nat /\ Len(log[i]) \in Nat
      /\ role' = [role EXCEPT ![i] = "Leader"] /\ role \in [Server -> Role]
  BY SMTT(30) DEF IndexInv, TypeOK, becomeLeader
<1>2. /\ \A j \in Server : i # j => nextIndex'[i][j] = Len(log[i]) + 1
      /\ \A k \in Server : k # i => nextIndex'[k] = nextIndex[k]
      /\ \A m \in appendCalls' :
                \/ m \in appendCalls
                \/ /\ m.from = i /\ m.term = currentTerm'[i]
                   /\ m.prevLogIndex + Len(m.entries) = Len(log[i])
  BY Zenon, <1>1, BecomeLeaderIndex
<1>3. \A m \in appendCalls' : \/ m \in appendCalls
                              \/ SentWithinLog(m, m.prevLogIndex + Len(m.entries))'
  <2> SUFFICES ASSUME NEW m \in appendCalls', m \notin appendCalls
               PROVE  SentWithinLog(m, m.prevLogIndex + Len(m.entries))'
    BY Zenon
  <2>1. /\ m.from = i /\ m.term = currentTerm'[i]
        /\ m.prevLogIndex + Len(m.entries) = Len(log[i])
    BY Zenon, <1>2
  <2>2. role'[i] = "Leader"
    BY Zenon, <1>1
  <2> QED BY SMTT(30), <1>1, <2>1, <2>2 DEF SentWithinLog
<1>4. CallsWithinLog' /\ RepliesWithinLog'
  BY Zenon, <1>3, SentInv
<1>5. NextIndexInBounds'
  <2> SUFFICES ASSUME NEW s \in Server, NEW j \in Server, role'[s] = "Leader", s # j
               PROVE  nextIndex'[s][j] \in 1..(Len(log'[s]) + 1)
    BY Zenon DEF NextIndexInBounds
  <2>1. CASE s = i  BY <1>1, <1>2, <2>1
  <2>2. CASE s # i
    <3>1. nextIndex'[s] = nextIndex[s] /\ role[s] = "Leader" /\ log'[s] = log[s]
      BY Zenon, <1>1, <1>2, <2>2
    <3> QED BY Zenon, <3>1 DEF IndexInv, NextIndexInBounds
  <2> QED BY Zenon, <2>1, <2>2
<1> QED BY Zenon, <1>4, <1>5

\* A candidate has sent no call in its new term; without peers it leads its own log.
LEMMA ElectionLoopIndex ==
    ASSUME IndexInv, NEW i \in Server, runElectionLoop(i)
    PROVE  IndexInv' /\ Evolves
<1>1. TypeOK /\ CommitApplied /\ NextIndexInBounds
  BY Zenon DEF IndexInv
<1>2. /\ currentTerm[i] \in Nat /\ currentTerm[i] + 1 \in Nat
      /\ log[i] \in Seq(Entry) /\ Len(log[i]) \in Nat /\ LastTerm(log[i]) \in Nat
  BY SMTT(30), <1>1, LastTermType DEF TypeOK
<1>3. /\ currentTerm' = [currentTerm EXCEPT ![i] = @ + 1]
      /\ votedFor' = [votedFor EXCEPT ![i] = i]
      /\ votesReceived' = [votesReceived EXCEPT ![i] = {i}]
      /\ role[i] # "Leader"
      /\ UNCHANGED <<log, commitIndex, applied, voteReplies, appendReplies, killed>>
  BY Zenon DEF runElectionLoop, startElection, logVars
<1>4. /\ currentTerm' \in [Server -> Nat]
      /\ votedFor' \in [Server -> Server \cup {Nil}]
      /\ votesReceived' \in [Server -> SUBSET Server]
  BY Zenon, <1>1, <1>2, <1>3 DEF TypeOK
<1>5. CASE IsMajority({i})
  <2>1. becomeLeader(i, currentTerm[i] + 1) /\ UNCHANGED voteCalls
    BY Zenon, <1>5 DEF runElectionLoop, startElection
  <2>8. /\ role' \in [Server -> Role]
        /\ nextIndex' \in [Server -> [Server -> Nat]]
        /\ matchIndex' \in [Server -> [Server -> Nat]]
        /\ appendCalls' \subseteq AppendEntriesArgs
    BY Zenon, <1>2, <2>1, BecomeLeaderIndex
  <2>2. TypeOK'
    BY Zenon, <1>1, <1>3, <1>4, <2>1, <2>8 DEF TypeOK
  <2>3. role' = [role EXCEPT ![i] = "Leader"]
    BY Zenon, <2>1 DEF becomeLeader
  <2>4. Evolves
    <3>1. /\ currentTerm \in [Server -> Nat] /\ log \in [Server -> Seq(Entry)]
          /\ currentTerm'[i] >= currentTerm[i] /\ currentTerm'[i] # currentTerm[i]
      BY <1>1, <1>2, <1>3 DEF TypeOK
    <3>2. \A s \in Server : s # i => /\ currentTerm'[s] = currentTerm[s]
                                     /\ role'[s] = role[s] /\ log'[s] = log[s]
      BY Zenon, <1>1, <1>3, <2>3 DEF TypeOK
    <3> QED BY Zenon, <3>1, <3>2, EvolvesAt
  <2>5. CallsWithinLog' /\ RepliesWithinLog' /\ NextIndexInBounds'
    <3>1. currentTerm'[i] = currentTerm[i] + 1
      BY Zenon, <1>1, <1>3 DEF TypeOK
    <3> QED BY Zenon, <1>3, <2>1, <2>2, <2>4, <3>1, BecomeLeaderKeeps
  <2> QED BY Zenon, <1>1, <1>3, <2>2, <2>4, <2>5 DEF IndexInv, CommitApplied
<1>6. CASE ~IsMajority({i})
  <2>1. /\ role' = [role EXCEPT ![i] = "Candidate"]
        /\ voteCalls' = voteCalls \cup
                 {[from |-> i, term |-> currentTerm[i] + 1,
                   lastLogIndex |-> Len(log[i]), lastLogTerm |-> LastTerm(log[i])]}
        /\ UNCHANGED <<nextIndex, matchIndex, appendCalls>>
    BY Zenon, <1>6 DEF runElectionLoop, startElection, leaderVars
  <2>7. role' \in [Server -> Role]
    BY Zenon, <1>1, <2>1 DEF TypeOK, Role
  <2>8. voteCalls' \subseteq RequestVoteArgs
    <3>1. [from |-> i, term |-> currentTerm[i] + 1, lastLogIndex |-> Len(log[i]),
           lastLogTerm |-> LastTerm(log[i])] \in RequestVoteArgs
      BY Zenon, <1>2 DEF RequestVoteArgs
    <3>2. voteCalls \subseteq RequestVoteArgs  BY Zenon, <1>1 DEF TypeOK
    <3> QED BY Zenon, <2>1, <3>1, <3>2
  <2>3. TypeOK'
    BY ZenonT(30), <1>1, <1>3, <1>4, <2>1, <2>7, <2>8 DEF TypeOK
  <2>4. Evolves
    <3>1. /\ currentTerm \in [Server -> Nat] /\ log \in [Server -> Seq(Entry)]
          /\ currentTerm'[i] >= currentTerm[i] /\ currentTerm'[i] # currentTerm[i]
      BY <1>1, <1>2, <1>3 DEF TypeOK
    <3>2. \A s \in Server : s # i => /\ currentTerm'[s] = currentTerm[s]
                                     /\ role'[s] = role[s] /\ log'[s] = log[s]
      BY Zenon, <1>1, <1>3, <2>1 DEF TypeOK
    <3> QED BY Zenon, <3>1, <3>2, EvolvesAt
  <2>5. CallsWithinLog' /\ RepliesWithinLog'
    BY ZenonT(30), <1>3, <2>1, <2>3, <2>4, SentInv
  <2>6. NextIndexInBounds'
    BY Zenon, <1>1, <1>3, <2>1 DEF NextIndexInBounds, TypeOK
  <2> QED BY ZenonT(30), <1>1, <1>3, <2>3, <2>4, <2>5, <2>6 DEF IndexInv, CommitApplied
<1> QED BY Zenon, <1>5, <1>6

\* Giving a vote leaves logs, calls and replies alone, and can only end a leadership.
LEMMA RequestVoteIndex ==
    ASSUME IndexInv, NEW m \in voteCalls, NEW j \in Server, RequestVote(m, j)
    PROVE  IndexInv' /\ Evolves
<1> DEFINE newer == m.term > currentTerm[j]
           term  == IF newer THEN m.term ELSE currentTerm[j]
           vote  == IF newer THEN Nil ELSE votedFor[j]
           grant == m.term = term /\ vote \in {Nil, m.from} /\ logUpToDate(m, log[j])
<1>1. TypeOK /\ CommitApplied /\ NextIndexInBounds
  BY Zenon DEF IndexInv
<1>2. /\ m.from \in Server /\ m.term \in Nat /\ currentTerm[j] \in Nat
      /\ term \in Nat /\ vote \in Server \cup {Nil} /\ grant \in BOOLEAN
  BY Zenon, <1>1 DEF TypeOK, RequestVoteArgs
<1>3. /\ currentTerm' = [currentTerm EXCEPT ![j] = term]
      /\ votedFor' = [votedFor EXCEPT ![j] = IF grant THEN m.from ELSE vote]
      /\ role' = [role EXCEPT ![j] = IF newer THEN "Follower" ELSE @]
      /\ voteReplies' = voteReplies \cup
             {[from |-> m.from, to |-> j, term |-> m.term,
               replyTerm |-> term, voteGranted |-> grant]}
      /\ UNCHANGED <<votesReceived, nextIndex, matchIndex, log, commitIndex, applied, killed,
                     voteCalls, appendCalls, appendReplies>>
  BY Zenon DEF RequestVote, leaderVars, logVars, appendRPCs
<1>4. /\ currentTerm'[j] = term /\ role'[j] = IF newer THEN "Follower" ELSE role[j]
      /\ \A s \in Server : s # j => /\ currentTerm'[s] = currentTerm[s]
                                    /\ role'[s] = role[s] /\ log'[s] = log[s]
      /\ log'[j] = log[j]
  BY Zenon, <1>1, <1>3 DEF TypeOK
<1>5. TypeOK'
  <2>1. voteReplies' \subseteq RequestVoteReply
    <3>1. [from |-> m.from, to |-> j, term |-> m.term,
           replyTerm |-> term, voteGranted |-> grant] \in RequestVoteReply
      <4> HIDE DEF term, grant
      <4> QED BY Zenon, <1>2 DEF RequestVoteReply
    <3>2. voteReplies \subseteq RequestVoteReply  BY Zenon, <1>1 DEF TypeOK
    <3> HIDE DEF term, grant
    <3> QED BY Zenon, <1>3, <3>1, <3>2
  <2>2. /\ currentTerm' \in [Server -> Nat]
        /\ votedFor' \in [Server -> Server \cup {Nil}]
        /\ role' \in [Server -> Role]
    <3> HIDE DEF term, grant, vote, newer
    <3> QED BY Zenon, <1>1, <1>2, <1>3 DEF TypeOK, Role
  <2>3. UNCHANGED <<votesReceived, nextIndex, matchIndex, log, commitIndex, applied, killed,
                    voteCalls, appendCalls, appendReplies>>
    BY Zenon, <1>3
  <2> QED BY Zenon, <1>1, <2>1, <2>2, <2>3 DEF TypeOK
<1>6. Evolves
  <2>1. /\ currentTerm \in [Server -> Nat] /\ log \in [Server -> Seq(Entry)]
        /\ Len(log[j]) \in Nat
    BY SMTT(30), <1>1 DEF TypeOK
  <2>2. /\ currentTerm'[j] >= currentTerm[j]
        /\ currentTerm'[j] = currentTerm[j] => role'[j] = role[j]
    BY SMTT(30), <1>2, <1>4
  <2> QED BY SMTT(30), <1>4, <2>1, <2>2, EvolvesAt
<1>7. CallsWithinLog' /\ RepliesWithinLog'
  BY Zenon, <1>3, <1>5, <1>6, SentInv
<1>8. NextIndexInBounds'
  <2>1. \A s \in Server : role'[s] = "Leader" => role[s] = "Leader"
    BY Zenon, <1>4
  <2> QED BY Zenon, <1>1, <1>3, <2>1 DEF NextIndexInBounds
<1> QED BY ZenonT(30), <1>1, <1>3, <1>5, <1>6, <1>7, <1>8 DEF IndexInv, CommitApplied

\* A new leader sets nextIndex to one past its log and sends from there.
LEMMA RequestVoteRepliedIndex ==
    ASSUME IndexInv, NEW m \in voteReplies, RequestVoteReplied(m)
    PROVE  IndexInv' /\ Evolves
<1> DEFINE i == m.from
           votes == votesReceived[i] \cup {m.to}
<1>1. TypeOK /\ CommitApplied /\ NextIndexInBounds
  BY Zenon DEF IndexInv
<1>2. /\ i \in Server /\ m.to \in Server /\ m.term \in Nat /\ m.replyTerm \in Nat
      /\ currentTerm[i] \in Nat /\ Len(log[i]) \in Nat /\ votes \in SUBSET Server
  <2>1. i \in Server /\ m.to \in Server /\ m.term \in Nat /\ m.replyTerm \in Nat
    <3>1. m \in RequestVoteReply  BY Zenon, <1>1 DEF TypeOK
    <3> QED BY Zenon, <3>1 DEF RequestVoteReply
  <2>2. /\ currentTerm \in [Server -> Nat] /\ log \in [Server -> Seq(Entry)]
        /\ votesReceived \in [Server -> SUBSET Server]
    BY Zenon, <1>1 DEF TypeOK
  <2>3. currentTerm[i] \in Nat /\ Len(log[i]) \in Nat  BY SMTT(30), <2>1, <2>2
  <2>4. votesReceived[i] \subseteq Server  BY Zenon, <2>1, <2>2
  <2>5. votes \in SUBSET Server  BY Zenon, <2>1, <2>4
  <2> QED BY Zenon, <2>1, <2>3, <2>5
<1>3. /\ role[i] = "Candidate" /\ currentTerm[i] = m.term
      /\ UNCHANGED <<log, commitIndex, applied, killed, voteCalls, voteReplies, appendReplies>>
  BY Zenon DEF RequestVoteReplied, logVars, voteRPCs
<1>4. CASE /\ m.replyTerm > currentTerm[i]
           /\ becomeFollower(i, m.replyTerm)
           /\ UNCHANGED <<votesReceived, leaderVars, appendCalls>>
  <2>1. /\ role' = [role EXCEPT ![i] = "Follower"]
        /\ currentTerm' = [currentTerm EXCEPT ![i] = m.replyTerm]
        /\ votedFor' = [votedFor EXCEPT ![i] = Nil]
        /\ UNCHANGED <<votesReceived, nextIndex, matchIndex, appendCalls>>
    BY Zenon, <1>4 DEF becomeFollower, leaderVars
  <2>2. TypeOK'
    BY Zenon, <1>1, <1>2, <1>3, <2>1 DEF TypeOK, Role
  <2>3. Evolves
    <3>1. currentTerm \in [Server -> Nat] /\ log \in [Server -> Seq(Entry)]
      BY Zenon, <1>1 DEF TypeOK
    <3>2. \A s \in Server : s # i => /\ currentTerm'[s] = currentTerm[s]
                                     /\ role'[s] = role[s] /\ log'[s] = log[s]
      BY Zenon, <1>1, <1>3, <2>1 DEF TypeOK
    <3>3. currentTerm'[i] = m.replyTerm
      BY Zenon, <1>2, <2>1, <3>1
    <3>4. currentTerm'[i] >= currentTerm[i] /\ currentTerm'[i] # currentTerm[i]
      BY SMTT(30), <1>2, <1>4, <3>3
    <3> QED BY ZenonT(30), <1>2, <3>1, <3>2, <3>4, EvolvesAt
  <2>4. CallsWithinLog' /\ RepliesWithinLog'
    BY ZenonT(30), <1>3, <2>1, <2>2, <2>3, SentInv
  <2>5. NextIndexInBounds'
    <3>1. \A s \in Server : role'[s] = "Leader" => role[s] = "Leader"
      <4>1. role \in [Server -> Role]  BY Zenon, <1>1 DEF TypeOK
      <4> QED BY Zenon, <1>2, <2>1, <4>1
    <3> QED BY ZenonT(30), <1>1, <1>3, <2>1, <3>1 DEF NextIndexInBounds
  <2> QED BY ZenonT(30), <1>1, <1>3, <2>2, <2>3, <2>4, <2>5 DEF IndexInv, CommitApplied
<1>5. CASE /\ votesReceived' = [votesReceived EXCEPT ![i] = votes]
           /\ UNCHANGED <<currentTerm, votedFor>>
           /\ becomeLeader(i, currentTerm[i])
  <2>1. /\ role' \in [Server -> Role]
        /\ nextIndex' \in [Server -> [Server -> Nat]]
        /\ matchIndex' \in [Server -> [Server -> Nat]]
        /\ appendCalls' \subseteq AppendEntriesArgs
    BY Zenon, <1>2, <1>5, BecomeLeaderIndex
  <2>2. votesReceived' \in [Server -> SUBSET Server]
    <3> HIDE DEF votes
    <3> QED BY Zenon, <1>1, <1>2, <1>5 DEF TypeOK
  <2>3. TypeOK'
    BY ZenonT(30), <1>1, <1>3, <1>5, <2>1, <2>2 DEF TypeOK
  <2>4. Evolves
    <3>1. currentTerm \in [Server -> Nat] /\ log \in [Server -> Seq(Entry)]
      BY Zenon, <1>1 DEF TypeOK
    <3>2. \A s \in Server : s # i => /\ currentTerm'[s] = currentTerm[s]
                                     /\ role'[s] = role[s] /\ log'[s] = log[s]
      BY Zenon, <1>1, <1>3, <1>5 DEF TypeOK, becomeLeader
    <3>3. currentTerm'[i] = currentTerm[i]
      BY Zenon, <1>5
    <3>4. i \in Server /\ role[i] = "Candidate" /\ currentTerm'[i] >= currentTerm[i]
      BY <1>2, <1>3, <3>3
    <3> HIDE DEF i, votes
    <3> QED BY ZenonT(30), <3>1, <3>2, <3>4, EvolvesAt
  <2>5. CallsWithinLog' /\ RepliesWithinLog' /\ NextIndexInBounds'
    BY Zenon, <1>2, <1>3, <1>5, <2>3, <2>4, BecomeLeaderKeeps
  <2> QED BY ZenonT(30), <1>1, <1>3, <2>3, <2>4, <2>5 DEF IndexInv, CommitApplied
<1>6. CASE /\ votesReceived' = [votesReceived EXCEPT ![i] = votes]
           /\ UNCHANGED <<currentTerm, votedFor, role, leaderVars, appendCalls>>
  <2>1. votesReceived' \in [Server -> SUBSET Server]
    <3> HIDE DEF votes
    <3> QED BY Zenon, <1>1, <1>2, <1>6 DEF TypeOK
  <2>2. TypeOK'
    BY Zenon, <1>1, <1>3, <1>6, <2>1 DEF TypeOK, leaderVars
  <2>3. Evolves
    <3>1. currentTerm \in [Server -> Nat] /\ log \in [Server -> Seq(Entry)]
      BY Zenon, <1>1 DEF TypeOK
    <3> QED BY SMTT(30), <1>2, <1>3, <1>6, <3>1, EvolvesAt
  <2>4. CallsWithinLog' /\ RepliesWithinLog'
    BY Zenon, <1>3, <1>6, <2>2, <2>3, SentInv
  <2> QED BY ZenonT(30), <1>1, <1>3, <1>6, <2>2, <2>3, <2>4
        DEF IndexInv, CommitApplied, NextIndexInBounds, leaderVars
<1> QED BY Zenon, <1>4, <1>5, <1>6 DEF RequestVoteReplied

\* A heartbeat carries the leader's log to its end.
LEMMA HeartbeatLoopIndex ==
    ASSUME IndexInv, NEW i \in Server, runHeartbeatLoop(i)
    PROVE  IndexInv' /\ Evolves
<1>1. TypeOK /\ CommitApplied /\ NextIndexInBounds
  BY Zenon DEF IndexInv
<1>2. /\ log \in [Server -> Seq(Entry)] /\ currentTerm \in [Server -> Nat]
      /\ log[i] \in Seq(Entry) /\ Len(log[i]) \in Nat
      /\ currentTerm[i] \in Nat /\ nextIndex[i] \in [Server -> Nat] /\ commitIndex[i] \in Nat
  BY <1>1 DEF TypeOK
<1>3. /\ role[i] = "Leader"
      /\ UNCHANGED <<currentTerm, votedFor, role, votesReceived, nextIndex, matchIndex, log,
                     commitIndex, applied, killed, voteCalls, voteReplies, appendReplies>>
      /\ appendCalls' = appendCalls \cup
            broadcastHeartbeats(i, currentTerm[i], log[i], nextIndex[i])
  BY Zenon DEF runHeartbeatLoop, electionVars, leaderVars, logVars, voteRPCs
<1>4. \A j \in Peers(i) : nextIndex[i][j] \in 1..(Len(log[i]) + 1)
  BY Zenon, <1>1, <1>3 DEF NextIndexInBounds, Peers
<1>5. \A m \in broadcastHeartbeats(i, currentTerm[i], log[i], nextIndex[i]) :
         /\ m \in AppendEntriesArgs
         /\ m.from = i /\ m.term = currentTerm[i]
         /\ m.prevLogIndex + Len(m.entries) = Len(log[i])
  <2>1. /\ currentTerm[i] \in Nat /\ log[i] \in Seq(Entry)
        /\ nextIndex[i] \in [Server -> Nat] /\ commitIndex[i] \in Nat
    BY Zenon, <1>2
  <2> QED BY SMTT(30), <1>4, <2>1, BroadcastCalls
<1>6. appendCalls' \subseteq AppendEntriesArgs
  <2>1. appendCalls \subseteq AppendEntriesArgs  BY Zenon, <1>1 DEF TypeOK
  <2> QED BY Zenon, <1>3, <1>5, <2>1
<1>7. TypeOK'
  BY Zenon, <1>1, <1>3, <1>6 DEF TypeOK
<1>8. Evolves
  BY SMTT(30), <1>2, <1>3, EvolvesAt
<1>9. CallsWithinLog' /\ RepliesWithinLog'
  <2>1. \A m \in appendCalls' : \/ m \in appendCalls
                                \/ SentWithinLog(m, m.prevLogIndex + Len(m.entries))'
    <3> SUFFICES ASSUME NEW m \in appendCalls', m \notin appendCalls
                 PROVE  SentWithinLog(m, m.prevLogIndex + Len(m.entries))'
      BY Zenon
    <3>1. /\ m.from = i /\ m.term = currentTerm[i]
          /\ m.prevLogIndex + Len(m.entries) = Len(log[i])
      BY Zenon, <1>3, <1>5
    <3> QED BY SMTT(30), <1>2, <1>3, <3>1 DEF SentWithinLog
  <2> QED BY Zenon, <1>3, <1>7, <1>8, <2>1, SentInv
<1> QED BY ZenonT(30), <1>1, <1>3, <1>7, <1>8, <1>9 DEF IndexInv, CommitApplied, NextIndexInBounds

\* Submit makes the leader's log longer before it sends it.
LEMMA SubmitIndex ==
    ASSUME IndexInv, NEW i \in Server, NEW cmd \in Value, Submit(i, cmd)
    PROVE  IndexInv' /\ Evolves
<1> DEFINE entry == [index |-> Len(log[i]) + 1, term |-> currentTerm[i], cmd |-> cmd]
<1>1. TypeOK /\ CommitApplied /\ NextIndexInBounds
  BY Zenon DEF IndexInv
<1>2. /\ log \in [Server -> Seq(Entry)] /\ currentTerm \in [Server -> Nat]
      /\ log[i] \in Seq(Entry) /\ Len(log[i]) \in Nat
      /\ currentTerm[i] \in Nat /\ nextIndex[i] \in [Server -> Nat] /\ commitIndex[i] \in Nat
  BY <1>1 DEF TypeOK
<1>3. /\ role[i] = "Leader"
      /\ log' = [log EXCEPT ![i] = Append(@, entry)]
      /\ UNCHANGED <<currentTerm, votedFor, role, votesReceived, nextIndex, matchIndex,
                     commitIndex, applied, killed, voteCalls, voteReplies, appendReplies>>
      /\ appendCalls' = appendCalls \cup
            broadcastHeartbeats(i, currentTerm[i], log'[i], nextIndex[i])
  BY Zenon DEF Submit, electionVars, leaderVars, voteRPCs
<1>4. entry \in Entry
  BY SMTT(30), <1>2 DEF Entry
<1> HIDE DEF entry
<1>5. /\ log'[i] = Append(log[i], entry) /\ log'[i] \in Seq(Entry)
      /\ Len(log'[i]) = Len(log[i]) + 1 /\ log' \in [Server -> Seq(Entry)]
      /\ \A s \in Server : s # i => log'[s] = log[s]
  BY SMTT(30), <1>2, <1>3, <1>4
<1>6. \A j \in Peers(i) : nextIndex[i][j] \in 1..(Len(log'[i]) + 1)
  BY SMTT(30), <1>1, <1>2, <1>3, <1>5 DEF NextIndexInBounds, Peers
<1>7. \A m \in broadcastHeartbeats(i, currentTerm[i], log'[i], nextIndex[i]) :
         /\ m \in AppendEntriesArgs
         /\ m.from = i /\ m.term = currentTerm[i]
         /\ m.prevLogIndex + Len(m.entries) = Len(log'[i])
  <2>1. /\ currentTerm[i] \in Nat /\ log'[i] \in Seq(Entry)
        /\ nextIndex[i] \in [Server -> Nat] /\ commitIndex[i] \in Nat
    BY Zenon, <1>2, <1>5
  <2> QED BY SMTT(30), <1>6, <2>1, BroadcastCalls
<1>8. appendCalls' \subseteq AppendEntriesArgs
  <2>1. appendCalls \subseteq AppendEntriesArgs  BY Zenon, <1>1 DEF TypeOK
  <2> QED BY Zenon, <1>3, <1>7, <2>1
<1>9. TypeOK'
  BY Zenon, <1>1, <1>3, <1>5, <1>8 DEF TypeOK
<1>10. Evolves
  <2>1. Len(log'[i]) >= Len(log[i])  BY SMTT(30), <1>2, <1>5
  <2> QED BY SMTT(30), <1>2, <1>3, <1>5, <2>1, EvolvesAt
<1>11. CallsWithinLog' /\ RepliesWithinLog'
  <2>1. \A m \in appendCalls' : \/ m \in appendCalls
                                \/ SentWithinLog(m, m.prevLogIndex + Len(m.entries))'
    <3> SUFFICES ASSUME NEW m \in appendCalls', m \notin appendCalls
                 PROVE  SentWithinLog(m, m.prevLogIndex + Len(m.entries))'
      BY Zenon
    <3>1. /\ m.from = i /\ m.term = currentTerm[i]
          /\ m.prevLogIndex + Len(m.entries) = Len(log'[i])
      BY Zenon, <1>3, <1>7
    <3> QED BY SMTT(30), <1>2, <1>3, <1>5, <3>1 DEF SentWithinLog
  <2> QED BY Zenon, <1>3, <1>9, <1>10, <2>1, SentInv
<1>12. NextIndexInBounds'
  <2> SUFFICES ASSUME NEW s \in Server, NEW j \in Server, role'[s] = "Leader", s # j
               PROVE  nextIndex'[s][j] \in 1..(Len(log'[s]) + 1)
    BY Zenon DEF NextIndexInBounds
  <2>1. CASE s = i  BY Zenon, <1>3, <1>6, <2>1 DEF Peers
  <2>2. CASE s # i  BY Zenon, <1>1, <1>3, <1>5, <2>2 DEF NextIndexInBounds
  <2> QED BY Zenon, <2>1, <2>2
<1> QED BY ZenonT(30), <1>1, <1>3, <1>9, <1>10, <1>11, <1>12 DEF IndexInv, CommitApplied

\* Kill changes nothing that the indexes depend on.
LEMMA KillIndex ==
    ASSUME IndexInv, NEW i \in Server, Kill(i)
    PROVE  IndexInv' /\ Evolves
<1>1. /\ killed' = [killed EXCEPT ![i] = TRUE]
      /\ UNCHANGED <<currentTerm, votedFor, role, votesReceived, nextIndex, matchIndex, log,
                     commitIndex, applied, voteCalls, voteReplies, appendCalls, appendReplies>>
  BY Zenon DEF Kill, electionVars, leaderVars, logVars, voteRPCs, appendRPCs
<1>2. TypeOK'
  BY Zenon, <1>1 DEF IndexInv, TypeOK
<1>3. Evolves
  <2>1. currentTerm \in [Server -> Nat] /\ log \in [Server -> Seq(Entry)]
    BY Zenon DEF IndexInv, TypeOK
  <2> QED BY SMTT(30), <1>1, <2>1, EvolvesAt
<1>4. CallsWithinLog' /\ RepliesWithinLog'
  BY Zenon, <1>1, <1>2, <1>3, SentInv
<1> QED BY Zenon, <1>1, <1>2, <1>3, <1>4 DEF IndexInv, CommitApplied, NextIndexInBounds

\* A reply repeats the term of its call and an index the call carries.
LEMMA ReplyOfCall ==
    ASSUME IndexInv, NEW m \in appendCalls, NEW term \in Nat, NEW success \in BOOLEAN
    PROVE  LET r == AppendReply(m, term, success)
           IN  /\ r \in AppendEntriesReply
               /\ SentWithinLog(r, r.match)
<1> DEFINE r == AppendReply(m, term, success)
           last == m.prevLogIndex + Len(m.entries)
<1>1. /\ m.from \in Server /\ m.to \in Server /\ m.term \in Nat
      /\ m.prevLogIndex \in Nat /\ m.entries \in Seq(Entry)
      /\ log \in [Server -> Seq(Entry)]
  BY Zenon DEF IndexInv, TypeOK, AppendEntriesArgs
<1>2. last \in Nat /\ Len(log[m.from]) \in Nat
  BY <1>1
<1>3. SentWithinLog(m, last)
  BY Zenon DEF IndexInv, CallsWithinLog
<1>4. /\ r.from = m.from /\ r.term = m.term
      /\ r.match = IF success THEN last ELSE 0
  BY Zenon DEF AppendReply
<1>5. r \in AppendEntriesReply
  BY Zenon, <1>1, <1>2 DEF AppendReply, AppendEntriesReply
<1>6. SentWithinLog(r, r.match)
  <2> HIDE DEF r, last
  <2> QED BY SMTT(30), <1>2, <1>3, <1>4 DEF SentWithinLog
<1> QED BY Zenon, <1>5, <1>6

\* The answer to a call of an old term says nothing about a log.
LEMMA AppendEntriesStaleIndex ==
    ASSUME IndexInv, NEW m \in appendCalls, AppendEntriesStale(m)
    PROVE  IndexInv' /\ Evolves
<1>7. PICK r : r = AppendReply(m, currentTerm[m.to], FALSE)
  BY Zenon
<1>1. /\ appendReplies' = appendReplies \cup {r}
      /\ UNCHANGED <<currentTerm, votedFor, role, votesReceived, nextIndex, matchIndex, log,
                     commitIndex, applied, killed, voteCalls, voteReplies, appendCalls>>
  BY Zenon, <1>7 DEF AppendEntriesStale, electionVars, leaderVars, logVars, voteRPCs
<1>2. m.to \in Server /\ currentTerm[m.to] \in Nat
  BY Zenon DEF IndexInv, TypeOK, AppendEntriesArgs
<1>3. r \in AppendEntriesReply /\ SentWithinLog(r, r.match)
  BY Zenon, <1>2, <1>7, ReplyOfCall
<1>4. TypeOK'
  <2>1. appendReplies' \subseteq AppendEntriesReply
    BY Zenon, <1>1, <1>3 DEF IndexInv, TypeOK
  <2> QED BY Zenon, <1>1, <2>1 DEF IndexInv, TypeOK
<1>5. Evolves
  <2>1. currentTerm \in [Server -> Nat] /\ log \in [Server -> Seq(Entry)]
    BY Zenon DEF IndexInv, TypeOK
  <2> QED BY SMTT(30), <1>1, <1>2, <2>1, EvolvesAt
<1>6. CallsWithinLog' /\ RepliesWithinLog'
  <2>1. SentWithinLog(r, r.match)'
    BY Zenon, <1>1, <1>3 DEF SentWithinLog
  <2> QED BY Zenon, <1>1, <1>4, <1>5, <2>1, SentInv
<1> QED BY Zenon, <1>1, <1>4, <1>5, <1>6 DEF IndexInv, CommitApplied, NextIndexInBounds

\* A follower's answer speaks of no more than the call carried.
LEMMA AppendEntriesIndex ==
    ASSUME IndexInv, NEW m \in appendCalls, AppendEntries(m)
    PROVE  IndexInv' /\ Evolves
<1> DEFINE j == m.to
           newLog == AppendNew(log[j], m.prevLogIndex, m.entries)
           accept == PrevMatches(m, log[j])
           commit == FollowerCommit(m, newLog, commitIndex[j])
<1>1. TypeOK /\ CommitApplied /\ NextIndexInBounds
  BY Zenon DEF IndexInv
<1>2. /\ j \in Server /\ m.from \in Server /\ m.term \in Nat /\ m.prevLogIndex \in Nat
      /\ m.entries \in Seq(Entry) /\ m.leaderCommit \in Nat
      /\ currentTerm[j] \in Nat /\ log[j] \in Seq(Entry) /\ Len(log[j]) \in Nat
      /\ commitIndex[j] \in Nat /\ applied[j] \in Seq(Entry)
  <2>1. /\ j \in Server /\ m.from \in Server /\ m.term \in Nat /\ m.prevLogIndex \in Nat
        /\ m.entries \in Seq(Entry) /\ m.leaderCommit \in Nat
    BY Zenon, <1>1 DEF TypeOK, AppendEntriesArgs
  <2> QED BY SMTT(30), <1>1, <2>1 DEF TypeOK
<1>12. PICK r : r = AppendReply(m, m.term, accept)
  BY Zenon
<1>3. /\ m.term >= currentTerm[j]
      /\ currentTerm' = [currentTerm EXCEPT ![j] = m.term]
      /\ votedFor' = [votedFor EXCEPT ![j] = IF m.term > currentTerm[j] THEN Nil ELSE @]
      /\ role' = [role EXCEPT ![j] = "Follower"]
      /\ appendReplies' = appendReplies \cup {r}
      /\ UNCHANGED <<votesReceived, nextIndex, matchIndex, killed, voteCalls, voteReplies, appendCalls>>
  BY Zenon, <1>12 DEF AppendEntries, leaderVars, voteRPCs
<1>4. /\ log' \in [Server -> Seq(Entry)]
      /\ \A s \in Server : s # j => log'[s] = log[s]
      /\ commitIndex' \in [Server -> Nat]
      /\ applied' \in [Server -> Seq(Entry)]
      /\ CommitApplied'
  <2>1. CASE ~accept /\ UNCHANGED logVars
    BY Zenon, <1>1, <2>1 DEF TypeOK, logVars, CommitApplied
  <2>2. CASE accept /\ log' = [log EXCEPT ![j] = newLog] /\ applyLogs(j, newLog, commit)
    <3>1. m.prevLogIndex \in 0..Len(log[j])
      BY SMTT(30), <1>2, <2>2 DEF PrevMatches
    <3>2. newLog \in Seq(Entry) /\ Len(newLog) \in Nat
      BY SMTT(30), <1>2, <3>1, AppendNewType
    <3>3. commit \in Nat /\ (commit <= Len(newLog) \/ commit = commitIndex[j])
      <4> HIDE DEF newLog
      <4> QED BY <1>2, <3>2 DEF FollowerCommit
    <3>4. commitIndex[j] <= Len(applied[j])
      BY Zenon, <1>1, <1>2 DEF CommitApplied
    <3> DEFINE newApplied == applied[j] \o SubSeq(newLog, Len(applied[j]) + 1, commit)
    <3> HIDE DEF newLog, commit
    <3>5. newApplied \in Seq(Entry) /\ commit <= Len(newApplied)
      BY Zenon, <1>2, <3>2, <3>3, <3>4, ApplyType
    <3>6. commitIndex' = [commitIndex EXCEPT ![j] = commit] /\ applied' = [applied EXCEPT ![j] = newApplied]
      BY Zenon, <2>2 DEF applyLogs
    <3> HIDE DEF newApplied
    <3> QED BY Zenon, <1>1, <1>2, <2>2, <3>2, <3>3, <3>5, <3>6 DEF TypeOK, CommitApplied
  <2> QED BY Zenon, <2>1, <2>2 DEF AppendEntries
<1>5. /\ currentTerm'[j] = m.term /\ role'[j] = "Follower"
      /\ \A s \in Server : s # j => currentTerm'[s] = currentTerm[s] /\ role'[s] = role[s]
  BY Zenon, <1>1, <1>2, <1>3 DEF TypeOK
<1>6. accept \in BOOLEAN
  BY Zenon DEF PrevMatches
<1>7. r \in AppendEntriesReply /\ SentWithinLog(r, r.match)
  <2> HIDE DEF accept
  <2> QED BY Zenon, <1>2, <1>6, <1>12, ReplyOfCall
<1>8. TypeOK'
  <2>1. appendReplies' \subseteq AppendEntriesReply
    BY Zenon, <1>1, <1>3, <1>7 DEF TypeOK
  <2>2. /\ currentTerm' \in [Server -> Nat]
        /\ votedFor' \in [Server -> Server \cup {Nil}]
        /\ role' \in [Server -> Role]
    BY Zenon, <1>1, <1>2, <1>3 DEF TypeOK, Role
  <2> QED BY Zenon, <1>1, <1>3, <1>4, <2>1, <2>2 DEF TypeOK
<1>9. Evolves
  <2>1. currentTerm \in [Server -> Nat] /\ log \in [Server -> Seq(Entry)]
    BY Zenon, <1>1 DEF TypeOK
  <2>2. currentTerm'[j] >= currentTerm[j]
    BY Zenon, <1>3, <1>5
  <2> QED BY Zenon, <1>2, <1>4, <1>5, <2>1, <2>2, EvolvesAt
<1>10. CallsWithinLog' /\ RepliesWithinLog'
  <2>1. SentWithinLog(r, r.match)'
    <3>1. /\ r.from \in Server /\ r.term \in Nat /\ r.match \in Nat
          /\ currentTerm \in [Server -> Nat] /\ currentTerm' \in [Server -> Nat]
          /\ log \in [Server -> Seq(Entry)] /\ log' \in [Server -> Seq(Entry)]
      BY Zenon, <1>1, <1>7, <1>8 DEF TypeOK, AppendEntriesReply
    <3> QED BY Zenon, <1>7, <1>9, <3>1, SentKept
  <2> QED BY Zenon, <1>3, <1>8, <1>9, <2>1, SentInv
<1>11. NextIndexInBounds'
  <2>1. \A s \in Server : role'[s] = "Leader" => role[s] = "Leader" /\ log'[s] = log[s]
    BY Zenon, <1>4, <1>5
  <2> QED BY Zenon, <1>1, <1>3, <2>1 DEF NextIndexInBounds
<1> QED BY Zenon, <1>4, <1>8, <1>9, <1>10, <1>11 DEF IndexInv

\* A reply moves nextIndex to one past what the call carried, or one back but not
\* below 1.
LEMMA AppendEntriesRepliedIndex ==
    ASSUME IndexInv, NEW m \in appendReplies, AppendEntriesReplied(m)
    PROVE  IndexInv' /\ Evolves
<1> DEFINE i == m.from
           j == m.to
<1>1. TypeOK /\ CommitApplied /\ NextIndexInBounds
  BY Zenon DEF IndexInv
<1>2. /\ i \in Server /\ j \in Server /\ m.term \in Nat /\ m.replyTerm \in Nat /\ m.match \in Nat
      /\ currentTerm \in [Server -> Nat] /\ log \in [Server -> Seq(Entry)]
      /\ role \in [Server -> Role]
  BY Zenon, <1>1 DEF TypeOK, AppendEntriesReply
<1>3. currentTerm[i] \in Nat /\ log[i] \in Seq(Entry) /\ Len(log[i]) \in Nat
  BY <1>2
<1>4. /\ role[i] = "Leader" /\ currentTerm[i] = m.term
      /\ UNCHANGED <<log, votesReceived, killed, voteCalls, voteReplies, appendCalls, appendReplies>>
  BY Zenon DEF AppendEntriesReplied, voteRPCs, appendRPCs
<1>5. CASE /\ m.replyTerm > currentTerm[i]
           /\ becomeFollower(i, m.replyTerm)
           /\ UNCHANGED <<leaderVars, commitIndex, applied>>
  <2>1. /\ role' = [role EXCEPT ![i] = "Follower"]
        /\ currentTerm' = [currentTerm EXCEPT ![i] = m.replyTerm]
        /\ votedFor' = [votedFor EXCEPT ![i] = Nil]
        /\ UNCHANGED <<nextIndex, matchIndex, commitIndex, applied>>
    BY Zenon, <1>5 DEF becomeFollower, leaderVars
  <2>2. TypeOK'
    BY Zenon, <1>1, <1>2, <1>4, <2>1 DEF TypeOK, Role
  <2>3. Evolves
    <3>1. \A s \in Server : s # i => /\ currentTerm'[s] = currentTerm[s]
                                     /\ role'[s] = role[s] /\ log'[s] = log[s]
      BY Zenon, <1>2, <1>4, <2>1
    <3>2. currentTerm'[i] = m.replyTerm
      BY Zenon, <1>2, <2>1
    <3>3. currentTerm'[i] >= currentTerm[i] /\ currentTerm'[i] # currentTerm[i]
      BY SMTT(30), <1>2, <1>3, <1>5, <3>2
    <3> QED BY Zenon, <1>2, <3>1, <3>3, EvolvesAt
  <2>4. CallsWithinLog' /\ RepliesWithinLog'
    BY Zenon, <1>4, <2>2, <2>3, SentInv
  <2>5. NextIndexInBounds'
    <3>1. \A s \in Server : role'[s] = "Leader" => role[s] = "Leader"
      BY Zenon, <1>2, <2>1
    <3> QED BY Zenon, <1>1, <1>4, <2>1, <3>1 DEF NextIndexInBounds
  <2> QED BY ZenonT(30), <1>1, <2>1, <2>2, <2>3, <2>4, <2>5 DEF IndexInv, CommitApplied
<1>6. ASSUME UNCHANGED <<currentTerm, votedFor, role>>,
             nextIndex' \in [Server -> [Server -> Nat]],
             matchIndex' \in [Server -> [Server -> Nat]],
             commitIndex' \in [Server -> Nat],
             applied' \in [Server -> Seq(Entry)],
             CommitApplied', NextIndexInBounds'
      PROVE  IndexInv' /\ Evolves
  <2>1. TypeOK'
    BY Zenon, <1>1, <1>4, <1>6 DEF TypeOK
  <2>2. Evolves
    BY SMTT(30), <1>2, <1>4, <1>6, EvolvesAt
  <2>3. CallsWithinLog' /\ RepliesWithinLog'
    BY Zenon, <1>4, <2>1, <2>2, SentInv
  <2> QED BY Zenon, <1>6, <2>1, <2>2, <2>3 DEF IndexInv
<1>7. CASE /\ m.success
           /\ nextIndex' = [nextIndex EXCEPT ![i][j] = m.match + 1]
           /\ matchIndex' = [matchIndex EXCEPT ![i][j] = m.match]
           /\ checkAdvanceCommitIndex(i, matchIndex'[i])
           /\ UNCHANGED <<currentTerm, votedFor, role>>
  <2>1. /\ nextIndex' \in [Server -> [Server -> Nat]]
        /\ matchIndex' \in [Server -> [Server -> Nat]]
    <3>1. /\ nextIndex \in [Server -> [Server -> Nat]]
          /\ matchIndex \in [Server -> [Server -> Nat]]
      BY Zenon, <1>1 DEF TypeOK
    <3>4. m.match + 1 \in Nat
      BY <1>2
    <3>2. nextIndex' \in [Server -> [Server -> Nat]]
      <4>1. nextIndex' = [nextIndex EXCEPT ![i][j] = m.match + 1]  BY Zenon, <1>7
      <4>2. i \in Server /\ j \in Server  BY Zenon, <1>2
      <4> QED BY Zenon, <3>1, <3>4, <4>1, <4>2
    <3>3. matchIndex' \in [Server -> [Server -> Nat]]
      BY Zenon, <1>2, <1>7, <3>1
    <3> QED BY Zenon, <3>2, <3>3
  <2>2. /\ commitIndex' \in [Server -> Nat]
        /\ applied' \in [Server -> Seq(Entry)]
        /\ CommitApplied'
    <3>1. CASE UNCHANGED <<commitIndex, applied>>
      BY Zenon, <1>1, <3>1 DEF TypeOK, CommitApplied
    <3>2. ASSUME NEW N \in Committable(i, matchIndex'[i]), applyLogs(i, log[i], N)
          PROVE  /\ commitIndex' \in [Server -> Nat]
                 /\ applied' \in [Server -> Seq(Entry)]
                 /\ CommitApplied'
      <4>1. /\ commitIndex \in [Server -> Nat] /\ applied \in [Server -> Seq(Entry)]
            /\ commitIndex[i] \in Nat /\ applied[i] \in Seq(Entry)
        BY Zenon, <1>1, <1>2 DEF TypeOK
      <4>2. N \in Nat /\ N <= Len(log[i])
        BY <1>3, <3>2, <4>1 DEF Committable
      <4> DEFINE newApplied == applied[i] \o SubSeq(log[i], Len(applied[i]) + 1, N)
      <4>3. newApplied \in Seq(Entry) /\ N <= Len(newApplied)
        BY ZenonT(30), <1>3, <4>1, <4>2, ApplyType
      <4>4. commitIndex' = [commitIndex EXCEPT ![i] = N] /\ applied' = [applied EXCEPT ![i] = newApplied]
        BY Zenon, <3>2 DEF applyLogs
      <4> HIDE DEF newApplied
      <4> QED BY Zenon, <1>1, <1>2, <4>1, <4>2, <4>3, <4>4 DEF CommitApplied
    <3> QED BY Zenon, <1>7, <3>1, <3>2 DEF checkAdvanceCommitIndex
  <2>3. NextIndexInBounds'
    <3> SUFFICES ASSUME NEW s \in Server, NEW k \in Server, role'[s] = "Leader", s # k
                 PROVE  nextIndex'[s][k] \in 1..(Len(log'[s]) + 1)
      BY Zenon DEF NextIndexInBounds
    <3>1. CASE s = i /\ k = j
      <4>1. nextIndex'[s][k] = m.match + 1
        <5>1. nextIndex \in [Server -> [Server -> Nat]]  BY Zenon, <1>1 DEF TypeOK
        <5>2. nextIndex' = [nextIndex EXCEPT ![i][j] = m.match + 1]  BY Zenon, <1>7
        <5> QED BY Zenon, <3>1, <5>1, <5>2
      <4>2. m.match <= Len(log[i])
        BY Zenon, <1>4 DEF IndexInv, RepliesWithinLog, SentWithinLog
      <4> QED BY SMTT(30), <1>2, <1>3, <1>4, <3>1, <4>1, <4>2
    <3>2. CASE ~(s = i /\ k = j)
      <4>1. nextIndex'[s][k] = nextIndex[s][k]
        BY ZenonT(30), <1>1, <1>2, <1>7, <3>2 DEF TypeOK
      <4> QED BY Zenon, <1>1, <1>4, <1>7, <4>1 DEF NextIndexInBounds
    <3> QED BY Zenon, <3>1, <3>2
  <2> QED BY Zenon, <1>6, <1>7, <2>1, <2>2, <2>3
<1>8. CASE /\ nextIndex[i][j] > 1
           /\ nextIndex' = [nextIndex EXCEPT ![i][j] = @ - 1]
           /\ UNCHANGED <<currentTerm, votedFor, role, matchIndex, commitIndex, applied>>
  <2>1. nextIndex \in [Server -> [Server -> Nat]] /\ nextIndex[i][j] \in Nat
    BY Zenon, <1>1, <1>2 DEF TypeOK
  <2>2. nextIndex[i][j] - 1 \in Nat
    BY SMTT(30), <1>8, <2>1
  <2>3. nextIndex' \in [Server -> [Server -> Nat]]
    BY ZenonT(30), <1>2, <1>8, <2>1, <2>2
  <2>4. NextIndexInBounds'
    <3> SUFFICES ASSUME NEW s \in Server, NEW k \in Server, role'[s] = "Leader", s # k
                 PROVE  nextIndex'[s][k] \in 1..(Len(log'[s]) + 1)
      BY Zenon DEF NextIndexInBounds
    <3>1. nextIndex[s][k] \in 1..(Len(log[s]) + 1)
      BY Zenon, <1>1, <1>8 DEF NextIndexInBounds
    <3>2. CASE s = i /\ k = j
      <4>1. nextIndex'[s][k] = nextIndex[i][j] - 1
        BY Zenon, <1>2, <1>8, <2>1, <3>2
      <4>2. log'[s] = log[i] /\ nextIndex[i][j] \in 1..(Len(log[i]) + 1) /\ nextIndex[i][j] > 1
        BY Zenon, <1>4, <1>8, <3>1, <3>2
      <4>3. nextIndex[i][j] - 1 \in 1..(Len(log[i]) + 1)
        BY Zenon, <1>3, <2>1, <4>2, OneBack
      <4> QED BY Zenon, <4>1, <4>2, <4>3
    <3>3. CASE ~(s = i /\ k = j)
      <4>1. nextIndex'[s][k] = nextIndex[s][k]
        BY Zenon, <1>2, <1>8, <2>1, <3>3
      <4> QED BY Zenon, <1>4, <3>1, <4>1
    <3> QED BY Zenon, <3>2, <3>3
  <2>5. /\ matchIndex' \in [Server -> [Server -> Nat]] /\ commitIndex' \in [Server -> Nat]
        /\ applied' \in [Server -> Seq(Entry)] /\ CommitApplied'
    BY Zenon, <1>1, <1>8 DEF TypeOK, CommitApplied
  <2> QED BY ZenonT(30), <1>6, <1>8, <2>3, <2>4, <2>5
<1> QED BY Zenon, <1>5, <1>7, <1>8 DEF AppendEntriesReplied

\* Every step keeps the invariant and changes a node the way Evolves allows.
LEMMA NextIndexInv == IndexInv /\ [Next]_vars => IndexInv' /\ Evolves
<1> SUFFICES ASSUME IndexInv, [Next]_vars PROVE IndexInv' /\ Evolves
  BY Zenon
<1>1. ASSUME NEW i \in Server, runElectionLoop(i) PROVE IndexInv' /\ Evolves
  BY Zenon, <1>1, ElectionLoopIndex
<1>2. ASSUME NEW i \in Server, runHeartbeatLoop(i) PROVE IndexInv' /\ Evolves
  BY Zenon, <1>2, HeartbeatLoopIndex
<1>3. ASSUME NEW i \in Server, NEW v \in Value, Submit(i, v) PROVE IndexInv' /\ Evolves
  BY Zenon, <1>3, SubmitIndex
<1>4. ASSUME NEW i \in Server, Kill(i) PROVE IndexInv' /\ Evolves
  BY Zenon, <1>4, KillIndex
<1>5. ASSUME NEW m \in voteCalls, NEW j \in Server, RequestVote(m, j) PROVE IndexInv' /\ Evolves
  BY Zenon, <1>5, RequestVoteIndex
<1>6. ASSUME NEW m \in voteReplies, RequestVoteReplied(m) PROVE IndexInv' /\ Evolves
  BY Zenon, <1>6, RequestVoteRepliedIndex
<1>7. ASSUME NEW m \in appendCalls, AppendEntriesStale(m) PROVE IndexInv' /\ Evolves
  BY ZenonT(30), <1>7, AppendEntriesStaleIndex
<1>8. ASSUME NEW m \in appendCalls, AppendEntries(m) PROVE IndexInv' /\ Evolves
  BY Zenon, <1>8, AppendEntriesIndex
<1>9. ASSUME NEW m \in appendReplies, AppendEntriesReplied(m) PROVE IndexInv' /\ Evolves
  BY Zenon, <1>9, AppendEntriesRepliedIndex
<1>10. CASE UNCHANGED vars
  <2>1. UNCHANGED <<currentTerm, votedFor, role, votesReceived, nextIndex, matchIndex, log,
                    commitIndex, applied, killed, voteCalls, voteReplies,
                    appendCalls, appendReplies>>
    BY Zenon, <1>10 DEF vars, electionVars, leaderVars, logVars, voteRPCs, appendRPCs
  <2>2. IndexInv'
    BY ZenonT(30), <2>1 DEF IndexInv, TypeOK, CommitApplied, CallsWithinLog, RepliesWithinLog,
                SentWithinLog, NextIndexInBounds
  <2>3. Evolves
    <3>1. \A s \in Server : currentTerm[s] \in Nat /\ Len(log[s]) \in Nat
      BY DEF IndexInv, TypeOK
    <3>2. \A s \in Server : currentTerm[s] >= currentTerm[s] /\ Len(log[s]) >= Len(log[s])
      BY <3>1
    <3>3. currentTerm' = currentTerm /\ role' = role /\ log' = log
      BY Zenon, <2>1
    <3> QED BY Zenon, <3>2, <3>3 DEF Evolves
  <2> QED BY Zenon, <2>2, <2>3
<1> QED BY ZenonT(30), <1>1, <1>2, <1>3, <1>4, <1>5, <1>6, <1>7, <1>8, <1>9, <1>10 DEF Next

-----------------------------------------------------------------------------
(* The votes. *)

\* A step that gives no vote, and changes votedFor only in a new term.
LEMMA NoNewVote ==
    ASSUME TypeOK, TypeOK', VoteInv, voteCalls' = voteCalls, voteReplies' = voteReplies,
           \A s \in Server :
              /\ currentTerm'[s] >= currentTerm[s]
              /\ currentTerm'[s] = currentTerm[s] => votedFor'[s] = votedFor[s]
    PROVE  VoteKept' /\ OneVote'
<1>1. \A i, j, t : Voted(j, i, t)' <=> Voted(j, i, t)
  BY Zenon DEF Voted
<1>2. OneVote'
  BY Zenon, <1>1 DEF VoteInv, OneVote
<1>3. ASSUME NEW i \in Server, NEW j \in Server, NEW t \in Nat, Voted(j, i, t)'
      PROVE  currentTerm'[j] >= t /\ (currentTerm'[j] = t => votedFor'[j] = i)
  <2>1. currentTerm[j] >= t /\ (currentTerm[j] = t => votedFor[j] = i)
    BY Zenon, <1>1, <1>3 DEF VoteInv, VoteKept
  <2>2. currentTerm[j] \in Nat /\ currentTerm'[j] \in Nat
    BY Zenon DEF TypeOK
  <2> QED BY <2>1, <2>2
<1>4. VoteKept'
  BY Zenon, <1>3 DEF VoteKept
<1> QED BY Zenon, <1>2, <1>4

\* A step in which nobody becomes a candidate or a leader.
LEMMA NoNewRole ==
    ASSUME VoteInv, voteCalls \subseteq voteCalls', voteReplies \subseteq voteReplies',
           \A s \in Server :
              /\ role'[s] \in {"Candidate", "Leader"} =>
                    role'[s] = role[s] /\ currentTerm'[s] = currentTerm[s]
              /\ role'[s] = "Candidate" => votesReceived'[s] = votesReceived[s]
    PROVE  CandidateVoted' /\ LeaderWon' /\ (appendCalls' = appendCalls => CallWon')
<1>1. /\ \A i, j, t : Voted(j, i, t) => Voted(j, i, t)'
      /\ \A i, t : Won(i, t) => Won(i, t)'
  BY Zenon, VotesStay
<1>2. CandidateVoted'
  <2> SUFFICES ASSUME NEW i \in Server, role'[i] = "Candidate", NEW j \in votesReceived'[i]
               PROVE  Voted(j, i, currentTerm[i])'
    BY Zenon DEF CandidateVoted
  <2>1. role[i] = "Candidate" /\ currentTerm'[i] = currentTerm[i] /\ j \in votesReceived[i]
    BY Zenon
  <2>2. Voted(j, i, currentTerm[i])
    BY Zenon, <2>1 DEF VoteInv, CandidateVoted
  <2> QED BY Zenon, <2>1, <2>2 DEF Voted
<1>3. LeaderWon'
  <2> SUFFICES ASSUME NEW i \in Server, role'[i] = "Leader", Server # {i}
               PROVE  Won(i, currentTerm[i])'
    BY Zenon DEF LeaderWon
  <2>1. role[i] = "Leader" /\ currentTerm'[i] = currentTerm[i]
    BY Zenon
  <2>2. Won(i, currentTerm[i])
    BY Zenon, <2>1 DEF VoteInv, LeaderWon
  <2>3. PICK t : t = currentTerm[i]
    BY Zenon
  <2>4. Won(i, t)'
    BY Zenon, <1>1, <2>2, <2>3
  <2> QED BY SMTT(30), <2>1, <2>3, <2>4 DEF Won, Voted
<1>4. appendCalls' = appendCalls => CallWon'
  BY Zenon, <1>1 DEF VoteInv, CallWon
<1> QED BY Zenon, <1>2, <1>3, <1>4

\* A step that starts the calls of a node that has won.
LEMMA NewCallsWon ==
    ASSUME VoteInv, voteCalls \subseteq voteCalls', voteReplies \subseteq voteReplies',
           NEW i \in Server, NEW t, NEW ilog, NEW next, Server = {i} \/ Won(i, t),
           appendCalls' = appendCalls \cup broadcastHeartbeats(i, t, ilog, next)
    PROVE  CallWon'
<1>1. \A k, u : Won(k, u) => Won(k, u)'
  BY Zenon, VotesStay
<1>2. ASSUME NEW m \in broadcastHeartbeats(i, t, ilog, next)
      PROVE  m.from = i /\ m.term = t /\ Server # {i}
  BY DEF broadcastHeartbeats, Peers
<1>3. \A m \in appendCalls : Won(m.from, m.term)
  BY Zenon DEF VoteInv, CallWon
<1>4. \A m \in appendCalls' : Won(m.from, m.term)'
  BY Zenon, <1>1, <1>2, <1>3
<1> QED BY Zenon, <1>4 DEF CallWon

\* The calls of a leader are calls of a node that has won.
LEMMA LeaderCalls ==
    ASSUME VoteInv, NEW i \in Server, role[i] = "Leader", NEW ilog, NEW next,
           UNCHANGED <<currentTerm, votedFor, role, votesReceived, voteCalls, voteReplies>>,
           TypeOK, TypeOK',
           appendCalls' = appendCalls \cup broadcastHeartbeats(i, currentTerm[i], ilog, next)
    PROVE  VoteInv'
<1>1. VoteKept' /\ OneVote'
  <2>1. \A s \in Server : currentTerm[s] \in Nat
    BY Zenon DEF TypeOK
  <2> QED BY SMTT(30), <2>1, NoNewVote
<1>2. Server = {i} \/ Won(i, currentTerm[i])
  BY Zenon DEF VoteInv, LeaderWon
<1>3. CallWon'
  BY Zenon, <1>2, NewCallsWon
<1>4. CandidateVoted' /\ LeaderWon'
  BY Zenon, NoNewRole
<1> QED BY Zenon, <1>1, <1>3, <1>4, MajoritiesStay DEF VoteInv

\* NewRaftNode has given no vote.
LEMMA InitVote == Init /\ Majorities => VoteInv
<1> SUFFICES ASSUME Init, Majorities PROVE VoteInv
  BY Zenon
<1>1. \A i, j, t : ~ Voted(j, i, t)
  BY Zenon DEF Init, Voted
<1>2. \A i \in Server : role[i] = "Follower"
  BY Zenon DEF Init
<1>3. appendCalls = {}
  BY Zenon DEF Init
<1> QED BY Zenon, <1>1, <1>2, <1>3 DEF VoteInv, VoteKept, OneVote, CandidateVoted, LeaderWon, CallWon

\* A new candidate votes for itself in a term nobody has asked it about.
LEMMA ElectionLoopVote ==
    ASSUME IndexInv, IndexInv', VoteInv, NEW i \in Server, runElectionLoop(i)
    PROVE  VoteInv'
<1>1. TypeOK /\ TypeOK'
  BY Zenon DEF IndexInv
<1>2. /\ currentTerm' = [currentTerm EXCEPT ![i] = @ + 1]
      /\ votedFor' = [votedFor EXCEPT ![i] = i]
      /\ votesReceived' = [votesReceived EXCEPT ![i] = {i}]
      /\ voteReplies' = voteReplies
  BY Zenon DEF runElectionLoop, startElection
<1>3. /\ currentTerm \in [Server -> Nat] /\ votedFor \in [Server -> Server \cup {Nil}]
      /\ role \in [Server -> Role] /\ votesReceived \in [Server -> SUBSET Server]
  BY Zenon, <1>1 DEF TypeOK
<1>4. CASE IsMajority({i})
  <2>1. Server = {i}
    BY Zenon, <1>4 DEF VoteInv, Majorities
  <2>2. /\ role' = [role EXCEPT ![i] = "Leader"]
        /\ voteCalls' = voteCalls
        /\ appendCalls' = appendCalls \cup
             broadcastHeartbeats(i, currentTerm[i] + 1, log[i], nextIndex'[i])
    BY Zenon, <1>4 DEF runElectionLoop, startElection, becomeLeader
  <2>3. VoteKept' /\ OneVote'
    <3>1. \A s \in Server :
            /\ currentTerm'[s] >= currentTerm[s]
            /\ currentTerm'[s] = currentTerm[s] => votedFor'[s] = votedFor[s]
      BY SMTT(30), <1>2, <1>3
    <3> QED BY Zenon, <1>1, <1>2, <2>2, <3>1, NoNewVote
  <2>4. CallWon'
    BY Zenon, <1>2, <2>1, <2>2, NewCallsWon
  <2>5. CandidateVoted' /\ LeaderWon'
    <3>1. \A s \in Server : s = i /\ role'[s] = "Leader"
      BY Zenon, <1>3, <2>1, <2>2
    <3> QED BY Zenon, <2>1, <3>1 DEF CandidateVoted, LeaderWon
  <2> QED BY Zenon, <2>3, <2>4, <2>5, MajoritiesStay DEF VoteInv
<1>5. CASE ~ IsMajority({i})
  <2> DEFINE T == currentTerm[i] + 1
             c == [from |-> i, term |-> T,
                   lastLogIndex |-> Len(log[i]), lastLogTerm |-> LastTerm(log[i])]
  <2>1. /\ role' = [role EXCEPT ![i] = "Candidate"]
        /\ voteCalls' = voteCalls \cup {c}
        /\ appendCalls' = appendCalls
    BY Zenon, <1>5 DEF runElectionLoop, startElection
  <2>2. c.from = i /\ c.term = T
    BY Zenon
  <2> HIDE DEF c
  <2>3. \A k, j, t : Voted(j, k, t)' <=> Voted(j, k, t) \/ (j = i /\ k = i /\ t = T)
    BY ZenonT(30), <1>2, <2>1, <2>2 DEF Voted
  <2>4. T \in Nat /\ currentTerm'[i] = T /\ votedFor'[i] = i /\ T > currentTerm[i]
    BY <1>2, <1>3
  <2>5. \A s \in Server : s # i =>
           /\ currentTerm'[s] = currentTerm[s] /\ votedFor'[s] = votedFor[s]
           /\ role'[s] = role[s] /\ votesReceived'[s] = votesReceived[s]
    BY Zenon, <1>2, <1>3, <2>1
  <2>6. \A k, j \in Server : \A t \in Nat : Voted(j, k, t) =>
           /\ currentTerm[j] >= t
           /\ currentTerm[j] = t => votedFor[j] = k
    BY Zenon DEF VoteInv, VoteKept
  <2>7. VoteKept'
    <3> SUFFICES ASSUME NEW k \in Server, NEW j \in Server, NEW t \in Nat, Voted(j, k, t)'
                 PROVE  currentTerm'[j] >= t /\ (currentTerm'[j] = t => votedFor'[j] = k)
      BY Zenon DEF VoteKept
    <3>1. currentTerm[j] \in Nat
      BY Zenon, <1>3
    <3> HIDE DEF T
    <3> QED BY SMTT(30), <2>3, <2>4, <2>5, <2>6, <3>1
  <2>8. OneVote'
    <3> SUFFICES ASSUME NEW k \in Server, NEW l \in Server, NEW j \in Server, NEW t \in Nat,
                        Voted(j, k, t)', Voted(j, l, t)'
                 PROVE  k = l
      BY Zenon DEF OneVote
    <3>1. \A x \in Server : ~ Voted(i, x, T)
      BY <1>3, <2>4, <2>6
    <3> HIDE DEF T
    <3> QED BY Zenon, <2>3, <3>1 DEF VoteInv, OneVote
  <2>9. CallWon'
    <3>1. \A k, t : Won(k, t) => Won(k, t)'
      BY Zenon, <1>2, <2>1, VotesStay
    <3> QED BY Zenon, <2>1, <3>1 DEF VoteInv, CallWon
  <2>10. CandidateVoted'
    <3> SUFFICES ASSUME NEW s \in Server, role'[s] = "Candidate", NEW j \in votesReceived'[s]
                 PROVE  Voted(j, s, currentTerm[s])'
      BY Zenon DEF CandidateVoted
    <3>1. PICK t : t = currentTerm'[s]
      BY Zenon
    <3>2. Voted(j, s, t)'
      <4>1. CASE s = i
        <5>1. j = i
          BY Zenon, <1>2, <1>3, <4>1
        <5> QED BY Zenon, <2>3, <2>4, <3>1, <4>1, <5>1
      <4>2. CASE s # i
        <5>1. Voted(j, s, currentTerm[s])
          BY Zenon, <2>5, <4>2 DEF VoteInv, CandidateVoted
        <5> QED BY Zenon, <2>3, <2>5, <3>1, <4>2, <5>1
      <4> QED BY Zenon, <4>1, <4>2
    <3> QED BY Zenon, <3>1, <3>2 DEF Voted
  <2>11. LeaderWon'
    <3> SUFFICES ASSUME NEW s \in Server, role'[s] = "Leader", Server # {s}
                 PROVE  Won(s, currentTerm[s])'
      BY Zenon DEF LeaderWon
    <3>1. PICK t : t = currentTerm'[s]
      BY Zenon
    <3>2. s # i
      BY Zenon, <1>3, <2>1
    <3>3. Won(s, currentTerm[s])
      BY Zenon, <2>5, <3>2 DEF VoteInv, LeaderWon
    <3>4. Won(s, t)'
      BY Zenon, <1>2, <2>1, <2>5, <3>1, <3>2, <3>3, VotesStay
    <3> QED BY <3>1, <3>4 DEF Won, Voted
  <2> QED BY Zenon, <2>7, <2>8, <2>9, <2>10, <2>11, MajoritiesStay DEF VoteInv
<1> QED BY Zenon, <1>4, <1>5

\* A node grants a vote only when it has given none in the term, or the same.
LEMMA RequestVoteVote ==
    ASSUME IndexInv, IndexInv', VoteInv, NEW m \in voteCalls, NEW j \in Server, RequestVote(m, j)
    PROVE  VoteInv'
<1>1. TypeOK /\ TypeOK'
  BY Zenon DEF IndexInv
<1>2. m.from \in Server /\ m.term \in Nat
  BY Zenon, <1>1 DEF TypeOK, RequestVoteArgs
<1>3. /\ currentTerm \in [Server -> Nat] /\ votedFor \in [Server -> Server \cup {Nil}]
      /\ role \in [Server -> Role] /\ currentTerm[j] \in Nat
  BY Zenon, <1>1 DEF TypeOK
<1> DEFINE newer == m.term > currentTerm[j]
           term  == IF newer THEN m.term ELSE currentTerm[j]
           vote  == IF newer THEN Nil ELSE votedFor[j]
           grant == m.term = term /\ vote \in {Nil, m.from} /\ logUpToDate(m, log[j])
           r == [from |-> m.from, to |-> j, term |-> m.term,
                 replyTerm |-> term, voteGranted |-> grant]
<1>4. /\ currentTerm' = [currentTerm EXCEPT ![j] = term]
      /\ votedFor' = [votedFor EXCEPT ![j] = IF grant THEN m.from ELSE vote]
      /\ role' = [role EXCEPT ![j] = IF newer THEN "Follower" ELSE @]
      /\ voteReplies' = voteReplies \cup {r}
      /\ voteCalls' = voteCalls /\ votesReceived' = votesReceived /\ appendCalls' = appendCalls
  BY Zenon DEF RequestVote, voteRPCs, appendRPCs
<1>5. r.from = m.from /\ r.to = j /\ r.term = m.term /\ r.voteGranted = grant
  BY Zenon
<1>6. grant => m.term >= currentTerm[j] /\ (m.term = currentTerm[j] => votedFor[j] \in {Nil, m.from})
  BY SMTT(30), <1>2, <1>3
<1>7. /\ term \in Nat /\ term >= currentTerm[j] /\ term >= m.term
      /\ grant => m.term = term
      /\ ~ newer => term = currentTerm[j]
      /\ term = currentTerm[j] => ~ newer
      /\ ~ newer => vote = votedFor[j]
  BY SMTT(30), <1>2, <1>3
<1> HIDE DEF newer, term, vote, grant, r
<1>8. \A i, k, t : Voted(k, i, t)' <=>
          Voted(k, i, t) \/ (grant /\ k = j /\ i = m.from /\ t = m.term)
  BY SMTT(30), <1>4, <1>5 DEF Voted
<1>9. \A i, k \in Server : \A t \in Nat : Voted(k, i, t) =>
         /\ currentTerm[k] >= t
         /\ currentTerm[k] = t => votedFor[k] = i
  BY Zenon DEF VoteInv, VoteKept
<1>10. /\ currentTerm'[j] = term /\ votedFor'[j] = IF grant THEN m.from ELSE vote
       /\ \A s \in Server : s # j => currentTerm'[s] = currentTerm[s] /\ votedFor'[s] = votedFor[s]
  BY Zenon, <1>3, <1>4
<1>11. ASSUME NEW x \in Server, Voted(j, x, m.term), grant
       PROVE  x = m.from
  <2>1. currentTerm[j] >= m.term /\ (currentTerm[j] = m.term => votedFor[j] = x)
    BY Zenon, <1>2, <1>9, <1>11
  <2>2. currentTerm[j] = m.term
    BY SMTT(30), <1>2, <1>3, <1>6, <1>11, <2>1
  <2>3. x # Nil
    BY Zenon, ServerAssumption
  <2> QED BY Zenon, <1>6, <1>11, <2>1, <2>2, <2>3
<1>12. VoteKept'
  <2> SUFFICES ASSUME NEW i \in Server, NEW k \in Server, NEW t \in Nat, Voted(k, i, t)'
               PROVE  currentTerm'[k] >= t /\ (currentTerm'[k] = t => votedFor'[k] = i)
    BY Zenon DEF VoteKept
  <2>1. CASE k # j
    BY SMTT(30), <1>8, <1>9, <1>10, <2>1
  <2>2. CASE k = j /\ Voted(j, i, t)
    <3>1. currentTerm[j] >= t /\ (currentTerm[j] = t => votedFor[j] = i)
      BY Zenon, <1>9, <2>2
    <3>2. term >= t
      BY SMTT(30), <1>3, <1>7, <3>1
    <3>3. ASSUME term = t PROVE votedFor'[j] = i
      <4>1. currentTerm[j] = t /\ ~ newer /\ votedFor[j] = i
        BY SMTT(30), <1>3, <1>7, <3>1, <3>3
      <4>2. CASE grant
        <5>1. m.term = t
          BY Zenon, <1>7, <3>3, <4>2
        <5> QED BY ZenonT(30), <1>10, <1>11, <2>2, <4>2, <5>1
      <4>3. CASE ~ grant
        BY Zenon, <1>7, <1>10, <4>1, <4>3
      <4> QED BY Zenon, <4>2, <4>3
    <3> QED BY Zenon, <1>10, <2>2, <3>2, <3>3
  <2>3. CASE k = j /\ grant /\ i = m.from /\ t = m.term
    BY Zenon, <1>2, <1>7, <1>10, <2>3
  <2> QED BY Zenon, <1>8, <2>1, <2>2, <2>3
<1>13. OneVote'
  <2> SUFFICES ASSUME NEW i \in Server, NEW x \in Server, NEW k \in Server, NEW t \in Nat,
                      Voted(k, i, t)', Voted(k, x, t)'
               PROVE  i = x
    BY Zenon DEF OneVote
  <2> QED BY Zenon, <1>8, <1>11 DEF VoteInv, OneVote
<1>14. CandidateVoted' /\ LeaderWon' /\ CallWon'
  <2>1. \A s \in Server :
          /\ role'[s] \in {"Candidate", "Leader"} =>
                role'[s] = role[s] /\ currentTerm'[s] = currentTerm[s]
          /\ role'[s] = "Candidate" => votesReceived'[s] = votesReceived[s]
    BY Zenon, <1>3, <1>4, <1>7, <1>10
  <2> QED BY Zenon, <1>4, <2>1, NoNewRole
<1> QED BY Zenon, <1>12, <1>13, <1>14, MajoritiesStay DEF VoteInv

\* A candidate counts a vote given to it in its term, and wins with a majority.
LEMMA RequestVoteRepliedVote ==
    ASSUME IndexInv, IndexInv', VoteInv, NEW m \in voteReplies, RequestVoteReplied(m)
    PROVE  VoteInv'
<1> DEFINE i == m.from
           votes == votesReceived[i] \cup {m.to}
<1>1. TypeOK /\ TypeOK'
  BY Zenon DEF IndexInv
<1>2. i \in Server /\ m.to \in Server /\ m.term \in Nat /\ m.replyTerm \in Nat
  BY Zenon, <1>1 DEF TypeOK, RequestVoteReply
<1>3. /\ currentTerm \in [Server -> Nat] /\ role \in [Server -> Role]
      /\ votesReceived \in [Server -> SUBSET Server]
      /\ votedFor \in [Server -> Server \cup {Nil}]
  BY Zenon, <1>1 DEF TypeOK
<1>4. /\ role[i] = "Candidate" /\ currentTerm[i] = m.term
      /\ voteCalls' = voteCalls /\ voteReplies' = voteReplies
  BY Zenon DEF RequestVoteReplied, voteRPCs
<1>5. CASE /\ m.replyTerm > currentTerm[i]
           /\ becomeFollower(i, m.replyTerm)
           /\ UNCHANGED <<votesReceived, leaderVars, appendCalls>>
  <2>1. \A s \in Server :
          /\ currentTerm'[s] >= currentTerm[s]
          /\ currentTerm'[s] = currentTerm[s] => votedFor'[s] = votedFor[s]
    BY SMTT(30), <1>2, <1>3, <1>5 DEF becomeFollower
  <2>2. \A s \in Server :
          /\ role'[s] \in {"Candidate", "Leader"} =>
                role'[s] = role[s] /\ currentTerm'[s] = currentTerm[s]
          /\ role'[s] = "Candidate" => votesReceived'[s] = votesReceived[s]
    BY Zenon, <1>2, <1>3, <1>5 DEF becomeFollower
  <2>3. VoteKept' /\ OneVote'
    BY Zenon, <1>1, <1>4, <2>1, NoNewVote
  <2>4. CandidateVoted' /\ LeaderWon' /\ CallWon'
    BY Zenon, <1>4, <1>5, <2>2, NoNewRole
  <2> QED BY Zenon, <2>3, <2>4, MajoritiesStay DEF VoteInv
<1>6. CASE /\ m.voteGranted
           /\ votesReceived' = [votesReceived EXCEPT ![i] = votes]
           /\ UNCHANGED <<currentTerm, votedFor>>
           /\ IF IsMajority(votes)
              THEN becomeLeader(i, currentTerm[i])
              ELSE UNCHANGED <<role, leaderVars, appendCalls>>
  <2>1. VoteKept' /\ OneVote'
    <3>1. \A s \in Server : currentTerm[s] \in Nat
      BY Zenon, <1>3
    <3> QED BY SMTT(30), <1>1, <1>4, <1>6, <3>1, NoNewVote
  <2>2. \A j \in votes : Voted(j, i, currentTerm[i])
    <3>1. Voted(m.to, i, currentTerm[i])
      BY Zenon, <1>4, <1>6 DEF Voted
    <3> QED BY Zenon, <1>2, <1>4, <3>1 DEF VoteInv, CandidateVoted
  <2>3. \A s, j, t : Voted(j, s, t)' <=> Voted(j, s, t)
    BY Zenon, <1>4 DEF Voted
  <2>4. CASE ~ IsMajority(votes)
    <3>1. CandidateVoted'
      <4> SUFFICES ASSUME NEW s \in Server, role'[s] = "Candidate", NEW j \in votesReceived'[s]
                   PROVE  Voted(j, s, currentTerm[s])'
        BY Zenon DEF CandidateVoted
      <4>1. Voted(j, s, currentTerm[s])
        <5>1. CASE s = i
          BY ZenonT(30), <1>2, <1>3, <1>6, <2>2, <5>1
        <5>2. CASE s # i
          BY ZenonT(30), <1>2, <1>3, <1>6, <2>4, <5>2 DEF VoteInv, CandidateVoted
        <5> QED BY Zenon, <5>1, <5>2
      <4> QED BY Zenon, <1>4, <1>6, <4>1 DEF Voted
    <3>2. LeaderWon'
      <4> SUFFICES ASSUME NEW s \in Server, role'[s] = "Leader", Server # {s}
                   PROVE  Won(s, currentTerm[s])'
        BY Zenon DEF LeaderWon
      <4>1. Won(s, currentTerm[s])
        BY Zenon, <1>6, <2>4 DEF VoteInv, LeaderWon
      <4> QED BY ZenonT(30), <1>4, <1>6, <4>1 DEF Won, Voted, IsMajority
    <3>3. CallWon'
      <4>1. \A k, t : Won(k, t) => Won(k, t)'
        BY Zenon, <1>4, VotesStay
      <4> QED BY Zenon, <1>6, <2>4, <4>1 DEF VoteInv, CallWon
    <3> QED BY ZenonT(30), <2>1, <3>1, <3>2, <3>3, MajoritiesStay DEF VoteInv
  <2>5. CASE IsMajority(votes)
    <3>1. Won(i, currentTerm[i])
      <4>1. votes \in SUBSET Server
        BY Zenon, <1>2, <1>3
      <4> QED BY Zenon, <2>2, <2>5, <4>1 DEF Won
    <3>2. /\ role' = [role EXCEPT ![i] = "Leader"]
          /\ appendCalls' = appendCalls \cup
                broadcastHeartbeats(i, currentTerm[i], log[i], nextIndex'[i])
      BY Zenon, <1>6, <2>5 DEF becomeLeader
    <3>3. CallWon'
      BY ZenonT(30), <1>2, <1>4, <3>1, <3>2, NewCallsWon
    <3>4. CandidateVoted'
      <4> SUFFICES ASSUME NEW s \in Server, role'[s] = "Candidate", NEW j \in votesReceived'[s]
                   PROVE  Voted(j, s, currentTerm[s])'
        BY Zenon DEF CandidateVoted
      <4>1. s # i /\ role[s] = "Candidate" /\ j \in votesReceived[s]
        BY Zenon, <1>2, <1>3, <1>6, <3>2
      <4>2. Voted(j, s, currentTerm[s])
        BY Zenon, <4>1 DEF VoteInv, CandidateVoted
      <4> QED BY Zenon, <1>4, <1>6, <4>2 DEF Voted
    <3>5. LeaderWon'
      <4> SUFFICES ASSUME NEW s \in Server, role'[s] = "Leader", Server # {s}
                   PROVE  Won(s, currentTerm[s])'
        BY Zenon DEF LeaderWon
      <4>1. CASE s = i
        BY SMTT(30), <1>4, <1>6, <3>1, <4>1 DEF Won, Voted, IsMajority
      <4>2. CASE s # i
        <5>1. role[s] = "Leader"
          BY Zenon, <1>2, <1>3, <3>2, <4>2
        <5>2. Won(s, currentTerm[s])
          BY Zenon, <5>1 DEF VoteInv, LeaderWon
        <5> QED BY Zenon, <1>4, <1>6, <5>2 DEF Won, Voted, IsMajority
      <4> QED BY Zenon, <4>1, <4>2
    <3> QED BY ZenonT(30), <2>1, <3>3, <3>4, <3>5, MajoritiesStay DEF VoteInv
  <2> QED BY Zenon, <2>4, <2>5
<1> QED BY Zenon, <1>5, <1>6 DEF RequestVoteReplied

\* A step that leaves every vote, role and call alone.
LEMMA NothingElected ==
    ASSUME TypeOK, TypeOK', VoteInv,
           UNCHANGED <<currentTerm, votedFor, role, votesReceived, voteCalls, voteReplies,
                       appendCalls>>
    PROVE  VoteInv'
<1>1. \A s \in Server : currentTerm[s] \in Nat
  BY Zenon DEF TypeOK
<1>2. VoteKept' /\ OneVote'
  BY SMTT(30), <1>1, NoNewVote
<1>3. CandidateVoted' /\ LeaderWon' /\ CallWon'
  BY Zenon, NoNewRole
<1> QED BY Zenon, <1>2, <1>3, MajoritiesStay DEF VoteInv

\* A node that follows a leader, or learns of a newer term, keeps its vote in
\* the terms it has voted in.
LEMMA FollowVote ==
    ASSUME TypeOK, TypeOK', VoteInv, NEW j \in Server, NEW t \in Nat, t >= currentTerm[j],
           currentTerm' = [currentTerm EXCEPT ![j] = t],
           votedFor' = [votedFor EXCEPT ![j] = IF t > currentTerm[j] THEN Nil ELSE @],
           role' = [role EXCEPT ![j] = "Follower"],
           UNCHANGED <<votesReceived, voteCalls, voteReplies, appendCalls>>
    PROVE  VoteInv'
<1>1. /\ currentTerm \in [Server -> Nat] /\ votedFor \in [Server -> Server \cup {Nil}]
      /\ role \in [Server -> Role]
  BY Zenon DEF TypeOK
<1>2. \A s \in Server :
        /\ currentTerm'[s] >= currentTerm[s]
        /\ currentTerm'[s] = currentTerm[s] => votedFor'[s] = votedFor[s]
  BY <1>1
<1>3. \A s \in Server :
        /\ role'[s] \in {"Candidate", "Leader"} =>
              role'[s] = role[s] /\ currentTerm'[s] = currentTerm[s]
        /\ role'[s] = "Candidate" => votesReceived'[s] = votesReceived[s]
  BY Zenon, <1>1
<1>4. VoteKept' /\ OneVote'
  BY Zenon, <1>2, NoNewVote
<1>5. CandidateVoted' /\ LeaderWon' /\ CallWon'
  BY Zenon, <1>3, NoNewRole
<1> QED BY Zenon, <1>4, <1>5, MajoritiesStay DEF VoteInv

\* Accepting a call may end a candidacy and gives no vote.
LEMMA AppendEntriesVote ==
    ASSUME IndexInv, IndexInv', VoteInv, NEW m \in appendCalls, AppendEntries(m)
    PROVE  VoteInv'
<1>1. TypeOK /\ TypeOK'
  BY Zenon DEF IndexInv
<1>2. m.to \in Server /\ m.term \in Nat
  BY Zenon, <1>1 DEF TypeOK, AppendEntriesArgs
<1>3. /\ m.term >= currentTerm[m.to]
      /\ currentTerm' = [currentTerm EXCEPT ![m.to] = m.term]
      /\ votedFor' = [votedFor EXCEPT ![m.to] = IF m.term > currentTerm[m.to] THEN Nil ELSE @]
      /\ role' = [role EXCEPT ![m.to] = "Follower"]
      /\ UNCHANGED <<votesReceived, voteCalls, voteReplies, appendCalls>>
  BY Zenon DEF AppendEntries, voteRPCs
<1> QED BY Zenon, <1>1, <1>2, <1>3, FollowVote

\* Handling the answer to a call may end a leadership and gives no vote.
LEMMA AppendEntriesRepliedVote ==
    ASSUME IndexInv, IndexInv', VoteInv, NEW m \in appendReplies, AppendEntriesReplied(m)
    PROVE  VoteInv'
<1>1. TypeOK /\ TypeOK'
  BY Zenon DEF IndexInv
<1>2. m.from \in Server /\ m.replyTerm \in Nat /\ currentTerm[m.from] \in Nat
  BY Zenon, <1>1 DEF TypeOK, AppendEntriesReply
<1>3. UNCHANGED <<votesReceived, voteCalls, voteReplies, appendCalls>>
  BY Zenon DEF AppendEntriesReplied, voteRPCs, appendRPCs
<1>4. CASE m.replyTerm > currentTerm[m.from] /\ becomeFollower(m.from, m.replyTerm)
  <2>1. m.replyTerm >= currentTerm[m.from]
    BY <1>2, <1>4
  <2>2. /\ currentTerm' = [currentTerm EXCEPT ![m.from] = m.replyTerm]
        /\ votedFor' = [votedFor EXCEPT ![m.from] =
                           IF m.replyTerm > currentTerm[m.from] THEN Nil ELSE @]
        /\ role' = [role EXCEPT ![m.from] = "Follower"]
    BY Zenon, <1>4 DEF becomeFollower
  <2> QED BY ZenonT(30), <1>1, <1>2, <1>3, <2>1, <2>2, FollowVote
<1>5. CASE UNCHANGED <<currentTerm, votedFor, role>>
  BY Zenon, <1>1, <1>3, <1>5, NothingElected
<1> QED BY Zenon, <1>4, <1>5 DEF AppendEntriesReplied

\* Every step keeps the invariant.
LEMMA NextVoteInv == IndexInv /\ IndexInv' /\ VoteInv /\ [Next]_vars => VoteInv'
<1> SUFFICES ASSUME IndexInv, IndexInv', VoteInv, [Next]_vars PROVE VoteInv'
  BY Zenon
<1>0. TypeOK /\ TypeOK'
  BY Zenon DEF IndexInv
<1>1. ASSUME NEW i \in Server, runElectionLoop(i) PROVE VoteInv'
  BY Zenon, <1>1, ElectionLoopVote
<1>2. ASSUME NEW i \in Server, runHeartbeatLoop(i) PROVE VoteInv'
  BY Zenon, <1>0, <1>2, LeaderCalls DEF runHeartbeatLoop, electionVars, voteRPCs
<1>3. ASSUME NEW i \in Server, NEW v \in Value, Submit(i, v) PROVE VoteInv'
  BY Zenon, <1>0, <1>3, LeaderCalls DEF Submit, electionVars, voteRPCs
<1>4. ASSUME NEW i \in Server, Kill(i) PROVE VoteInv'
  BY Zenon, <1>0, <1>4, NothingElected DEF Kill, electionVars, voteRPCs, appendRPCs
<1>5. ASSUME NEW m \in voteCalls, NEW j \in Server, RequestVote(m, j) PROVE VoteInv'
  BY Zenon, <1>5, RequestVoteVote
<1>6. ASSUME NEW m \in voteReplies, RequestVoteReplied(m) PROVE VoteInv'
  BY Zenon, <1>6, RequestVoteRepliedVote
<1>7. ASSUME NEW m \in appendCalls, AppendEntriesStale(m) PROVE VoteInv'
  BY ZenonT(30), <1>0, <1>7, NothingElected DEF AppendEntriesStale, electionVars, voteRPCs
<1>8. ASSUME NEW m \in appendCalls, AppendEntries(m) PROVE VoteInv'
  BY Zenon, <1>8, AppendEntriesVote
<1>9. ASSUME NEW m \in appendReplies, AppendEntriesReplied(m) PROVE VoteInv'
  BY Zenon, <1>9, AppendEntriesRepliedVote
<1>10. CASE UNCHANGED vars
  BY Zenon, <1>0, <1>10, NothingElected DEF vars, electionVars, voteRPCs, appendRPCs
<1> QED BY ZenonT(30), <1>1, <1>2, <1>3, <1>4, <1>5, <1>6, <1>7, <1>8, <1>9, <1>10 DEF Next
=============================================================================
