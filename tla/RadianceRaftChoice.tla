------------------------- MODULE RadianceRaftChoice -------------------------
(***************************************************************************)
(* What RadianceRaft may choose, for every set of nodes and every bound:   *)
(* every step keeps ChoiceInv.                                             *)
(*                                                                         *)
(* The argument: as long as a link can still be chosen, every leader of a  *)
(* later term has it, because one of its voters had acknowledged it before *)
(* voting. So no link, call or log of a later term passes it by, and the   *)
(* logs that reach it agree up to it.                                      *)
(***************************************************************************)
EXTENDS RadianceRaftLinks

-----------------------------------------------------------------------------
(* What holds around a step. *)

\* What a step may assume on both of its sides.
LEMMA StepFacts ==
    ASSUME Step
    PROVE  /\ IndexInv /\ IndexInv' /\ TypeOK /\ TypeOK' /\ VoteInv /\ VoteInv'
           /\ LinkInv /\ LinkInv' /\ CallInv /\ CallInv' /\ ReplySound /\ ReplySound'
           /\ MatchReported /\ MatchReported' /\ Remembers /\ Evolves
<1>1. Remembers
  BY Zenon, NextRemembers DEF Step
<1> QED BY Zenon, <1>1 DEF Step, RaftInv, IndexInv, LogInv, ReplyInv

\* A term has one owner.
LEMMA TermOwner == VoteInv => OneOwner
BY Zenon, OwnerOnce DEF OneOwner

\* A link has an index above 0 and terms that are numbers.
LEMMA LinkTyped ==
    ASSUME TypeOK, NEW a \in Links
    PROVE  /\ a \in LinkRecord /\ a.index \in Nat /\ a.index # 0
           /\ a.entry.term \in Nat /\ a.prev \in Nat
<1>1. a \in LinkRecord /\ a.index # 0
  BY Zenon, LinksTyped
<1> QED BY Zenon, <1>1 DEF LinkRecord, Entry

\* Links are records of one type.
LEMMA LinkRecords == TypeOK => LinksAreRecords
BY Zenon, LinkTyped DEF LinksAreRecords

\* The owner of the term of a link does not change.
LEMMA OwnerStays ==
    ASSUME Step, NEW a \in Links, NEW j \in Server
    PROVE  Owner(j, a.entry.term)' <=> Owner(j, a.entry.term)
<1>1. TypeOK /\ LinkInv /\ VoteInv' /\ Remembers
  BY Zenon, StepFacts
<1>2. PICK t \in Nat : t = a.entry.term
  BY Zenon, <1>1, LinkTyped
<1>3. PICK s \in Server : Owner(s, t)
  BY Zenon, <1>1, <1>2 DEF LinkInv, LinkOwned
<1>4. \A k : Owner(k, t) => Owner(k, t)'
  BY Zenon, <1>1, VotesStay DEF Owner, Remembers
<1>5. Owner(j, t)' => j = s
  <2>1. VoteInv' => OneOwner'
    BY TermOwner, PTL
  <2> QED BY Zenon, <1>1, <1>3, <1>4, <2>1 DEF OneOwner
<1> QED BY Zenon, <1>2, <1>3, <1>4, <1>5

\* A new success is the reply to a call that has just been accepted.
LEMMA NewReply ==
    ASSUME Step, NEW r \in appendReplies', r \notin appendReplies, r.success
    PROVE  \E m \in appendCalls : /\ Accepts(m) /\ r.from = m.from /\ r.to = m.to
                                  /\ r.term = m.term /\ r.match = EndIndex(m)
<1>1. TypeOK /\ VoteInv' /\ LinkInv /\ IndexInv /\ IndexInv' /\ [Next]_vars
  BY Zenon, StepFacts DEF Step
<1>2. ~ Quiet
  BY Zenon DEF Quiet
<1>3. ~ \E i \in Server : Sends(i)
  BY Zenon DEF Sends
<1>4. ~ \E i \in Server, v \in Value : Submit(i, v)
  BY Zenon DEF Submit
<1>5. PICK m \in appendCalls : Accepts(m)
  BY Zenon, <1>1, <1>2, <1>3, <1>4, NextKinds
<1> QED BY Zenon, <1>1, <1>5, AcceptStep DEF LinkInv

\* An acknowledgement is never taken back.
LEMMA AckStays ==
    ASSUME Step, NEW a, NEW j, Acked(j, a)
    PROVE  Acked(j, a)'
<1>1. Remembers
  BY Zenon, StepFacts
<1>2. \A k, t : Owner(k, t) => Owner(k, t)'
  BY Zenon, <1>1, VotesStay DEF Owner, Remembers
<1> QED BY Zenon, <1>1, <1>2 DEF Acked, Remembers

\* Who acknowledges a link now has just accepted a call of its term.
LEMMA NewAck ==
    ASSUME Step, NEW a \in Links, NEW j \in Server, Acked(j, a)', ~ Acked(j, a)
    PROVE  \E m \in appendCalls : /\ Accepts(m) /\ j = m.to /\ m.term = a.entry.term
                                  /\ EndIndex(m) >= a.index /\ currentTerm[j] <= a.entry.term
<1>1. PICK r \in appendReplies' :
        r.success /\ r.to = j /\ r.term = a.entry.term /\ r.match >= a.index
  BY Zenon, OwnerStays DEF Acked
<1>2. r \notin appendReplies
  BY Zenon, <1>1 DEF Acked
<1>3. PICK m \in appendCalls : /\ Accepts(m) /\ r.to = m.to
                               /\ r.term = m.term /\ r.match = EndIndex(m)
  BY Zenon, <1>1, <1>2, NewReply
<1>4. m.term >= currentTerm[m.to] /\ m.term \in Nat /\ m.to \in Server
  BY Zenon, <1>3, AcceptStep, StepFacts DEF LinkInv
<1>5. currentTerm[m.to] \in Nat
  BY Zenon, <1>4, StepFacts DEF TypeOK
<1> QED BY Zenon, <1>1, <1>3, <1>4, <1>5

\* What is chosen stays chosen.
LEMMA ChosenStays ==
    ASSUME Step, NEW a, Chosen(a)
    PROVE  Chosen(a)'
BY Zenon, AckStays DEF Chosen, IsMajority

\* What is chosen could be chosen.
LEMMA ChosenChoosable == \A a : Chosen(a) => Choosable(a)
BY Zenon DEF Chosen, Choosable

\* A link that cannot be chosen any more stays so.
LEMMA ChoosableBefore ==
    ASSUME Step, NEW a \in Links, Choosable(a)'
    PROVE  Choosable(a)
<1>1. PICK Q \in SUBSET Server :
        IsMajority(Q) /\ \A j \in Q : Acked(j, a)' \/ currentTerm'[j] <= a.entry.term
  BY Zenon DEF Choosable, IsMajority
<1>2. ASSUME NEW j \in Q PROVE Acked(j, a) \/ currentTerm[j] <= a.entry.term
  <2>1. /\ currentTerm[j] \in Nat /\ currentTerm'[j] \in Nat
        /\ currentTerm'[j] >= currentTerm[j] /\ a.entry.term \in Nat
    BY Zenon, StepFacts, LinkTyped DEF TypeOK, Evolves
  <2>2. CASE currentTerm'[j] <= a.entry.term
    BY <2>1, <2>2
  <2>3. CASE Acked(j, a)'
    BY Zenon, <2>3, NewAck
  <2> QED BY Zenon, <1>1, <2>2, <2>3
<1> QED BY Zenon, <1>1, <1>2 DEF Choosable

-----------------------------------------------------------------------------
(* Why a leader has every link that can have been chosen before its term. *)

\* One of its voters had acknowledged the link, and found the candidate's log
\* no shorter than its own.
LEMMA LeaderCovers ==
    ASSUME RaftInv, ChoiceInv, NEW i \in Server, NEW t \in Nat, Leads(i, t) \/ FirstIn(i, t),
           NEW a \in Links, Choosable(a), a.entry.term < t
    PROVE  Covers(log[i], a)
<1>1. TypeOK /\ VoteInv /\ LinkInv
  BY Zenon DEF RaftInv, IndexInv, LogInv
<1>2. /\ a \in LinkRecord /\ a.entry.term \in Nat /\ log[i] \in Seq(Entry)
      /\ voteCalls \subseteq RequestVoteArgs
  BY Zenon, <1>1, LinkTyped DEF TypeOK
<1>3. CASE Server = {i}
  <2>1. Acked(i, a)
    BY Zenon, <1>3 DEF Acked, Owner
  <2> QED BY Zenon, <2>1 DEF ChoiceInv, AckedCovers
<1>4. CASE Server # {i}
  <2>1. Won(i, t) /\ currentTerm[i] = t /\ role[i] # "Follower"
    BY Zenon, <1>1, <1>4, LeaderOwns DEF FirstIn, Owner, Leads
  <2>2. PICK R \in SUBSET Server : IsMajority(R) /\ \A j \in R : Voted(j, i, t)
    BY Zenon, <2>1 DEF Won
  <2>3. PICK Q \in SUBSET Server :
          IsMajority(Q) /\ \A j \in Q : Acked(j, a) \/ currentTerm[j] <= a.entry.term
    BY Zenon DEF Choosable
  <2>4. PICK v \in Server : v \in Q /\ v \in R
    BY Zenon, <1>1, <2>2, <2>3 DEF VoteInv, Majorities
  <2>5. currentTerm[v] \in Nat /\ currentTerm[v] >= t
    BY Zenon, <1>1, <2>2, <2>4 DEF TypeOK, VoteInv, VoteKept
  <2>6. Acked(v, a) /\ Voted(v, i, t)
    BY SMTT(30), <1>2, <2>2, <2>3, <2>4, <2>5
  <2>7. PICK c \in voteCalls : c.from = i /\ c.term = t
    BY <2>6 DEF Voted, ChoiceInv, VoteCalls
  <2>8. AtLeast(c.lastLogIndex, c.lastLogTerm, a)
    BY Zenon, <1>2, <2>6, <2>7 DEF ChoiceInv, VotersSaw
  <2>9. /\ c.lastLogIndex \in Nat /\ c.lastLogIndex <= Len(log[i])
        /\ TermAt(log[i], c.lastLogIndex) = c.lastLogTerm
    BY Zenon, <1>2, <2>1, <2>7 DEF ChoiceInv, CandidateLog, RequestVoteArgs
  <2>10. LinksOf(log[i]) \subseteq Links
    BY Zenon, Linked
  <2> QED BY Zenon, <1>1, <1>2, <2>8, <2>9, <2>10, CoversPoint DEF LinkInv
<1> QED BY Zenon, <1>3, <1>4

\* A success of AppendEntries was given with the link in the log.
LEMMA ReplyCovers == RaftInv => RepliedCovers
<1> SUFFICES ASSUME RaftInv, NEW a \in Links, NEW r \in appendReplies,
                    r.success, r.term = a.entry.term, r.match >= a.index,
                    currentTerm[r.to] = a.entry.term
             PROVE  Covers(log[r.to], a)
  BY Zenon DEF RepliedCovers
<1>1. TypeOK /\ LinkInv /\ CallInv /\ ReplySound
  BY Zenon DEF RaftInv, IndexInv, LogInv, ReplyInv
<1>2. a \in LinkRecord /\ a.entry.term \in Nat /\ a.index \in Nat
  BY Zenon, <1>1, LinkTyped
<1>3. r.to \in Server
  BY Zenon, <1>1 DEF TypeOK, AppendEntriesReply
<1>4. PICK c \in appendCalls : Accepted(r, c)
  BY Zenon, <1>1 DEF ReplySound
<1>5. /\ EndIndex(c) <= Len(log[r.to]) /\ TermAt(log[r.to], EndIndex(c)) = EndTerm(c)
      /\ c.term = a.entry.term /\ EndIndex(c) >= a.index /\ EndIndex(c) \in Nat
  BY Zenon, <1>1, <1>4, CallTyped DEF Accepted
<1>6. EndTerm(c) = a.entry.term
  <2> SUFFICES ASSUME EndTerm(c) # a.entry.term PROVE FALSE
    BY Zenon
  <2>1. PICK f \in Links : f.index = EndIndex(c) + 1 /\ f.index <= a.index
    BY Zenon, <1>1, <1>5 DEF CallInv, CallBelowTerm
  <2> QED BY <1>2, <1>5, <2>1
<1>7. AtLeast(EndIndex(c), TermAt(log[r.to], EndIndex(c)), a)
  BY Zenon, <1>5, <1>6 DEF AtLeast
<1>8. log[r.to] \in Seq(Entry) /\ LinksOf(log[r.to]) \subseteq Links
  BY Zenon, <1>1, <1>3, Linked DEF TypeOK
<1> QED BY Zenon, <1>1, <1>2, <1>5, <1>7, <1>8, CoversPoint DEF LinkInv

\* Nobody acknowledges a link of a term it has not reached.
LEMMA AckedTerm == RaftInv => AckedReached
<1> SUFFICES ASSUME RaftInv, NEW a \in Links, NEW j \in Server, Acked(j, a)
             PROVE  currentTerm[j] >= a.entry.term
  BY Zenon DEF AckedReached
<1>1. TypeOK /\ VoteInv /\ LinkInv /\ ReplySound
  BY Zenon DEF RaftInv, IndexInv, LogInv, ReplyInv
<1>2. a.entry.term \in Nat /\ currentTerm[j] \in Nat
  BY Zenon, <1>1, LinkTyped DEF TypeOK
<1>3. CASE Owner(j, a.entry.term)
  <2>1. PICK s \in Server : Owner(s, a.entry.term) /\ currentTerm[s] >= a.entry.term
    BY Zenon, <1>1 DEF LinkInv, LinkOwned
  <2>2. s = j
    BY Zenon, <1>1, <1>2, <1>3, <2>1, OwnerOnce
  <2> QED BY Zenon, <2>1, <2>2
<1>4. ASSUME NEW r \in appendReplies, r.success, r.to = j, r.term = a.entry.term
      PROVE  currentTerm[j] >= a.entry.term
  BY Zenon, <1>1, <1>2, <1>4 DEF ReplySound, Accepted
<1> QED BY Zenon, <1>3, <1>4 DEF Acked

\* Nobody but the leader has acknowledged an entry when Submit makes it.
LEMMA OnlyLeaderAcked ==
    ASSUME Step, NEW i \in Server, NEW v \in Value, Submit(i, v), NEW j \in Server,
           NEW a, a = Top(log'[i]), Acked(j, a)'
    PROVE  j = i
<1>1. /\ IndexInv /\ IndexInv' /\ TypeOK /\ VoteInv /\ VoteInv' /\ ReplySound /\ Remembers
  BY Zenon, StepFacts
<1>2. PICK t, n : t = currentTerm[i] /\ n = Len(log[i])
  BY Zenon
<1>3. /\ Leads(i, t) /\ t \in Nat /\ n \in Nat /\ a.index = n + 1 /\ a.entry.term = t
      /\ appendReplies' = appendReplies /\ UNCHANGED <<voteCalls, voteReplies>>
  BY <1>1, <1>2, SubmitStep
<1>4. Owner(i, t)
  BY Zenon, <1>1, <1>3, LeaderOwns
<1>5. CASE Owner(j, t)'
  <2>1. Owner(j, t)
    BY ZenonT(30), <1>3, <1>5 DEF Owner, Won, Voted, IsMajority
  <2> QED BY Zenon, <1>1, <1>3, <1>4, <2>1, OwnerOnce
<1>6. ASSUME NEW r \in appendReplies, r.success, r.term = t, r.match >= n + 1
      PROVE  FALSE
  <2>1. PICK c \in appendCalls : c.from = r.from /\ c.term = t
    BY Zenon, <1>1, <1>6 DEF ReplySound, Accepted
  <2>2. Owner(c.from, t) /\ c.from \in Server
    BY Zenon, <1>1, <2>1, CallTyped DEF VoteInv, CallWon, Owner
  <2>3. r.from = i
    BY Zenon, <1>1, <1>3, <1>4, <2>1, <2>2, OwnerOnce
  <2>4. r.match <= n /\ r.match \in Nat
    BY Zenon, <1>1, <1>2, <1>3, <1>6, <2>3
       DEF IndexInv, RepliesWithinLog, SentWithinLog, Leads, TypeOK, AppendEntriesReply
  <2> QED BY <1>3, <1>6, <2>4
<1>7. Owner(j, t)' \/ \E r \in appendReplies : r.success /\ r.term = t /\ r.match >= n + 1
  BY Zenon, <1>2, <1>3 DEF Acked
<1> QED BY Zenon, <1>5, <1>6, <1>7

\* If a later term has been won, the new entry cannot be chosen: the voters
\* have left its term.
LEMMA LateSubmit ==
    ASSUME Step, NEW i \in Server, NEW v \in Value, Submit(i, v),
           NEW a, a = Top(log'[i]),
           NEW s \in Server, NEW t \in Nat, t > currentTerm[i], Won(s, t)
    PROVE  ~ Choosable(a)'
<1> SUFFICES ASSUME Choosable(a)' PROVE FALSE
  BY Zenon
<1>1. IndexInv /\ IndexInv' /\ TypeOK /\ VoteInv
  BY Zenon, StepFacts
<1>2. /\ a.entry.term = currentTerm[i] /\ currentTerm' = currentTerm
      /\ currentTerm[i] \in Nat
  BY Zenon, <1>1, SubmitStep
<1>3. PICK Q \in SUBSET Server :
        /\ IsMajority(Q)
        /\ \A j \in Q : Acked(j, a)' \/ currentTerm[j] <= currentTerm[i]
  BY Zenon, <1>2 DEF Choosable, IsMajority
<1>4. PICK R \in SUBSET Server : IsMajority(R) /\ \A j \in R : Voted(j, s, t)
  BY Zenon DEF Won
<1>5. PICK q \in Server : q \in Q /\ q \in R
  BY Zenon, <1>1, <1>3, <1>4 DEF VoteInv, Majorities
<1>6. currentTerm[q] >= t /\ currentTerm[q] \in Nat
  BY Zenon, <1>1, <1>4, <1>5 DEF VoteInv, VoteKept, TypeOK
<1>7. Acked(q, a)'
  BY SMTT(30), <1>2, <1>3, <1>5, <1>6
<1>8. q = i
  BY Zenon, <1>7, OnlyLeaderAcked
<1> QED BY <1>2, <1>6, <1>8

-----------------------------------------------------------------------------
(* The vote calls. *)

\* A step starts one election, gives one vote, or leaves the votes alone.
LEMMA VoteKinds ==
    ASSUME Step
    PROVE  \/ UNCHANGED <<voteCalls, voteReplies>>
           \/ \E i \in Server : NewCall(i)
           \/ \E m \in voteCalls, j \in Server : RequestVote(m, j)
<1>1. TypeOK /\ [Next]_vars
  BY Zenon, StepFacts DEF Step
<1>2. currentTerm \in [Server -> Nat]
  BY Zenon, <1>1 DEF TypeOK
<1>3. ASSUME NEW i \in Server, runElectionLoop(i)
      PROVE  UNCHANGED <<voteCalls, voteReplies>> \/ NewCall(i)
  <2>1. /\ currentTerm' = [currentTerm EXCEPT ![i] = @ + 1]
        /\ UNCHANGED <<voteReplies, log, appendReplies>>
    BY Zenon, <1>3 DEF runElectionLoop, startElection, logVars
  <2>2. \/ voteCalls' = voteCalls
        \/ /\ appendCalls' = appendCalls
           /\ voteCalls' = voteCalls \cup
                {[from |-> i, term |-> currentTerm[i] + 1,
                  lastLogIndex |-> Len(log[i]), lastLogTerm |-> LastTerm(log[i])]}
    BY Zenon, <1>3 DEF runElectionLoop, startElection
  <2>3. currentTerm'[i] = currentTerm[i] + 1
    BY Zenon, <1>2, <2>1
  <2> QED BY Zenon, <2>1, <2>2, <2>3 DEF NewCall
<1>4. ASSUME NEW i \in Server, runHeartbeatLoop(i) PROVE UNCHANGED <<voteCalls, voteReplies>>
  BY Zenon, <1>4 DEF runHeartbeatLoop, voteRPCs
<1>5. ASSUME NEW i \in Server, NEW v \in Value, Submit(i, v)
      PROVE  UNCHANGED <<voteCalls, voteReplies>>
  BY Zenon, <1>5 DEF Submit, voteRPCs
<1>6. ASSUME NEW i \in Server, Kill(i) PROVE UNCHANGED <<voteCalls, voteReplies>>
  BY Zenon, <1>6 DEF Kill, voteRPCs
<1>7. ASSUME NEW m \in voteReplies, RequestVoteReplied(m)
      PROVE  UNCHANGED <<voteCalls, voteReplies>>
  BY Zenon, <1>7 DEF RequestVoteReplied, voteRPCs
<1>8. ASSUME NEW m \in appendCalls, AppendEntriesStale(m)
      PROVE  UNCHANGED <<voteCalls, voteReplies>>
  BY Zenon, <1>8 DEF AppendEntriesStale, voteRPCs
<1>9. ASSUME NEW m \in appendCalls, AppendEntries(m) PROVE UNCHANGED <<voteCalls, voteReplies>>
  BY Zenon, <1>9 DEF AppendEntries, voteRPCs
<1>10. ASSUME NEW m \in appendReplies, AppendEntriesReplied(m)
       PROVE  UNCHANGED <<voteCalls, voteReplies>>
  BY Zenon, <1>10 DEF AppendEntriesReplied, voteRPCs
<1>11. CASE UNCHANGED vars
  BY Zenon, <1>11 DEF vars, voteRPCs
<1> QED BY ZenonT(30), <1>1, <1>3, <1>4, <1>5, <1>6, <1>7, <1>8, <1>9, <1>10, <1>11 DEF Next

\* The kinds of steps again, and the only step that makes a link.
LEMMA StepKinds ==
    ASSUME Step
    PROVE  \/ Quiet
           \/ \E i \in Server : Sends(i)
           \/ \E i \in Server, v \in Value : Submit(i, v)
           \/ \E m \in appendCalls : Accepts(m)
BY Zenon, StepFacts, NextKinds DEF Step

\* Only Submit makes a link, at the end of its leader's log.
LEMMA StepLinks ==
    ASSUME Step
    PROVE  /\ Links \subseteq Links'
           /\ \A a \in Links' : \/ a \in Links
                                \/ \E i \in Server, v \in Value : Submit(i, v) /\ a = Top(log'[i])
<1>1. CASE Quiet
  BY Zenon, <1>1 DEF Quiet, Links, SentLinks
<1>2. ASSUME NEW i \in Server, Sends(i) PROVE Links' = Links
  BY Zenon, <1>2, SendsKeepsLinks, StepFacts
<1>3. ASSUME NEW m \in appendCalls, Accepts(m) PROVE Links' = Links
  BY Zenon, <1>3, AcceptKeepsLinks, StepFacts DEF CallInv
<1>4. ASSUME NEW i \in Server, NEW v \in Value, Submit(i, v)
      PROVE  Links \subseteq Links' /\ \A a \in Links' : a \in Links \/ a = Top(log'[i])
  BY Zenon, <1>4, SubmitNewLink, StepFacts
<1> QED BY Zenon, <1>1, <1>2, <1>3, <1>4, StepKinds

\* A vote request is answered once; a vote is granted to an up-to-date log.
LEMMA RequestVoteAnswer ==
    ASSUME NEW m \in voteCalls, NEW j \in Server, RequestVote(m, j)
    PROVE  /\ voteCalls' = voteCalls
           /\ \E e : /\ e.from = m.from /\ e.term = m.term /\ e.to = j
                     /\ e.voteGranted => logUpToDate(m, log[j])
                     /\ voteReplies' = voteReplies \cup {e}
<1> DEFINE newer == m.term > currentTerm[j]
           term  == IF newer THEN m.term ELSE currentTerm[j]
           vote  == IF newer THEN Nil ELSE votedFor[j]
           grant == m.term = term /\ vote \in {Nil, m.from} /\ logUpToDate(m, log[j])
           e == [from |-> m.from, to |-> j, term |-> m.term,
                 replyTerm |-> term, voteGranted |-> grant]
<1>1. voteReplies' = voteReplies \cup {e} /\ voteCalls' = voteCalls
  BY Zenon DEF RequestVote
<1>2. e.from = m.from /\ e.term = m.term /\ e.to = j /\ e.voteGranted = grant
  BY Zenon
<1>3. grant => logUpToDate(m, log[j])
  BY Zenon
<1> HIDE DEF newer, term, vote, grant, e
<1> QED BY Zenon, <1>1, <1>2, <1>3

\* A node asks for votes once in a term, and votes answer a call.
LEMMA NextVoteCalls ==
    ASSUME Step, VoteCalls
    PROVE  VoteCalls'
<1>1. TypeOK /\ TypeOK' /\ Evolves /\ Remembers
  BY Zenon, StepFacts
<1>2. ASSUME NEW c \in voteCalls
      PROVE  /\ c.from \in Server /\ c.term \in Nat /\ c.term <= currentTerm[c.from]
             /\ c.term <= currentTerm'[c.from]
             /\ currentTerm[c.from] \in Nat /\ currentTerm'[c.from] \in Nat
  <2>1. c.from \in Server /\ c.term \in Nat
    BY Zenon, <1>1 DEF TypeOK, RequestVoteArgs
  <2>2. currentTerm[c.from] \in Nat /\ currentTerm'[c.from] \in Nat
    BY Zenon, <1>1, <2>1 DEF TypeOK
  <2> QED BY <1>1, <2>1, <2>2 DEF VoteCalls, Evolves
<1>3. CASE UNCHANGED <<voteCalls, voteReplies>>
  BY Zenon, <1>2, <1>3 DEF VoteCalls
<1>4. ASSUME NEW i \in Server, NewCall(i) PROVE VoteCalls'
  <2>1. PICK n : n = [from |-> i, term |-> currentTerm[i] + 1,
                      lastLogIndex |-> Len(log[i]), lastLogTerm |-> LastTerm(log[i])]
    BY Zenon
  <2>2. /\ n.from = i /\ n.term = currentTerm[i] + 1 /\ currentTerm'[i] = n.term
        /\ voteCalls' = voteCalls \cup {n} /\ voteReplies' = voteReplies
    BY Zenon, <1>4, <2>1 DEF NewCall
  <2>3. currentTerm[i] \in Nat
    BY Zenon, <1>1 DEF TypeOK
  <2>4. \A c \in voteCalls : c.from = i => c.term # n.term
    BY SMTT(30), <1>2, <2>2, <2>3
  <2>5. \A c \in voteCalls' : c.term <= currentTerm'[c.from]
    BY SMTT(30), <1>2, <2>2, <2>3
  <2>6. \A c, d \in voteCalls' : c.from = d.from /\ c.term = d.term => c = d
    BY ZenonT(30), <2>2, <2>4 DEF VoteCalls
  <2>7. \A r \in voteReplies' : \E c \in voteCalls' : c.from = r.from /\ c.term = r.term
    BY Zenon, <2>2 DEF VoteCalls
  <2> QED BY Zenon, <2>5, <2>6, <2>7 DEF VoteCalls
<1>5. ASSUME NEW m \in voteCalls, NEW j \in Server, RequestVote(m, j) PROVE VoteCalls'
  <2>1. /\ voteCalls' = voteCalls
        /\ \E e : e.from = m.from /\ e.term = m.term /\ voteReplies' = voteReplies \cup {e}
    BY Zenon, <1>5, RequestVoteAnswer
  <2> QED BY Zenon, <1>2, <2>1 DEF VoteCalls
<1> QED BY Zenon, <1>3, <1>4, <1>5, VoteKinds

\* A candidate's log only grows while it is in the election.
LEMMA NextCandidateLog ==
    ASSUME Step, VoteCalls, CandidateLog
    PROVE  CandidateLog'
<1> SUFFICES ASSUME NEW c \in voteCalls', currentTerm'[c.from] = c.term,
                    role'[c.from] # "Follower"
             PROVE  /\ c.lastLogIndex <= Len(log'[c.from])
                    /\ TermAt(log'[c.from], c.lastLogIndex) = c.lastLogTerm
  BY Zenon DEF CandidateLog
<1>1. TypeOK /\ TypeOK' /\ Evolves /\ IndexInv /\ IndexInv' /\ LinkInv
  BY Zenon, StepFacts
<1>2. CASE c \in voteCalls
  <2>1. c.from \in Server /\ c.term \in Nat /\ c.lastLogIndex \in Nat
    BY Zenon, <1>1, <1>2 DEF TypeOK, RequestVoteArgs
  <2>2. /\ currentTerm[c.from] \in Nat /\ currentTerm'[c.from] \in Nat
        /\ role[c.from] \in Role /\ role'[c.from] \in Role /\ log[c.from] \in Seq(Entry)
    BY Zenon, <1>1, <2>1 DEF TypeOK
  <2>3. currentTerm[c.from] = c.term
    BY SMTT(30), <1>1, <1>2, <2>1, <2>2 DEF VoteCalls, Evolves
  <2>4. role[c.from] # "Follower"
    BY Zenon, <1>1, <2>1, <2>2, <2>3 DEF Role, Evolves
  <2>5. /\ c.lastLogIndex <= Len(log[c.from])
        /\ TermAt(log[c.from], c.lastLogIndex) = c.lastLogTerm
    BY Zenon, <1>2, <2>3, <2>4 DEF CandidateLog
  <2>6. CASE log'[c.from] = log[c.from]
    BY Zenon, <2>5, <2>6
  <2>7. ASSUME NEW i \in Server, NEW v \in Value, Submit(i, v), c.from = i
        PROVE  /\ c.lastLogIndex <= Len(log'[c.from])
               /\ TermAt(log'[c.from], c.lastLogIndex) = c.lastLogTerm
    <3>1. /\ Len(log'[i]) = Len(log[i]) + 1
          /\ \A k \in 0..Len(log[i]) : TermAt(log'[i], k) = TermAt(log[i], k)
      BY Zenon, <1>1, <2>7, SubmitStep
    <3>2. Len(log[i]) \in Nat /\ c.lastLogIndex \in 0..Len(log[i])
      BY SMTT(30), <2>1, <2>2, <2>5, <2>7
    <3> QED BY SMTT(30), <2>1, <2>5, <2>7, <3>1, <3>2
  <2>8. ASSUME NEW i \in Server, NEW v \in Value, Submit(i, v), c.from # i
        PROVE  log'[c.from] = log[c.from]
    BY Zenon, <1>1, <2>1, <2>8, SubmitStep
  <2>9. ASSUME NEW m \in appendCalls, Accepts(m) PROVE log'[c.from] = log[c.from]
    BY Zenon, <1>1, <2>1, <2>9, AcceptStep DEF LinkInv
  <2>10. CASE Quiet \/ \E i \in Server : Sends(i)
    BY Zenon, <2>6, <2>10 DEF Quiet, Sends
  <2> QED BY ZenonT(30), <2>6, <2>7, <2>8, <2>9, <2>10, StepKinds
<1>3. CASE c \notin voteCalls
  <2>1. ASSUME NEW m \in voteCalls, NEW j \in Server, RequestVote(m, j) PROVE FALSE
    BY Zenon, <1>3, <2>1 DEF RequestVote
  <2>2. PICK i \in Server : NewCall(i)
    BY Zenon, <1>3, <2>1, VoteKinds
  <2>3. c.from = i /\ c.lastLogIndex = Len(log[i]) /\ c.lastLogTerm = LastTerm(log[i])
        /\ log' = log
    BY SMTT(30), <1>3, <2>2 DEF NewCall
  <2>4. Len(log[i]) \in Nat
    BY <1>1 DEF TypeOK
  <2> QED BY SMTT(30), <2>3, <2>4 DEF LastTerm
<1> QED BY Zenon, <1>2, <1>3

-----------------------------------------------------------------------------
(* No step passes a link by that can be chosen. *)

\* The entry a leader adds follows every link that can have been chosen.
LEMMA NextLinksPass ==
    ASSUME Step, ChoiceInv
    PROVE  LinksPass'
<1> SUFFICES ASSUME NEW a \in Links', NEW b \in Links', Choosable(a)',
                    b.entry.term > a.entry.term
             PROVE  AtLeast(b.index - 1, b.prev, a)
  BY Zenon DEF LinksPass, AtLeast
<1>1. IndexInv /\ IndexInv' /\ TypeOK /\ LinkInv /\ RaftInv
  BY Zenon, StepFacts DEF Step
<1>2. CASE a \in Links /\ b \in Links
  <2>1. Choosable(a)
    BY Zenon, <1>2, ChoosableBefore
  <2> QED BY Zenon, <1>2, <2>1 DEF ChoiceInv, LinksPass
<1>3. ASSUME NEW i \in Server, NEW v \in Value, Submit(i, v), a = Top(log'[i]), b \in Links
      PROVE  FALSE
  <2>1. a.entry.term = currentTerm[i] /\ currentTerm[i] \in Nat /\ b.entry.term \in Nat
    BY Zenon, <1>1, <1>3, SubmitStep, LinkTyped
  <2>2. PICK s \in Server : Owner(s, b.entry.term) /\ currentTerm[s] >= b.entry.term
    BY Zenon, <1>1, <1>3 DEF LinkInv, LinkOwned
  <2>3. currentTerm[s] \in Nat
    BY Zenon, <1>1 DEF TypeOK
  <2>4. Server # {s}
    BY SMTT(30), <2>1, <2>2, <2>3
  <2>5. Won(s, b.entry.term)
    BY Zenon, <2>2, <2>4 DEF Owner
  <2> QED BY Zenon, <1>3, <2>1, <2>5, LateSubmit
<1>4. ASSUME NEW i \in Server, NEW v \in Value, Submit(i, v), a \in Links, b = Top(log'[i])
      PROVE  AtLeast(b.index - 1, b.prev, a)
  <2>1. /\ b.entry.term = currentTerm[i] /\ currentTerm[i] \in Nat /\ log[i] \in Seq(Entry)
        /\ b.index = Len(log[i]) + 1 /\ b.prev = LastTerm(log[i]) /\ Leads(i, currentTerm[i])
    BY Zenon, <1>1, <1>4, SubmitStep
  <2>2. Choosable(a)
    BY Zenon, <1>4, ChoosableBefore
  <2>3. Covers(log[i], a)
    BY Zenon, <1>1, <1>4, <2>1, <2>2, LeaderCovers
  <2>4. b.index - 1 = Len(log[i])
    BY SMTT(30), <2>1
  <2> QED BY Zenon, <2>1, <2>3, <2>4 DEF Covers
<1>5. ASSUME NEW i \in Server, NEW v \in Value, Submit(i, v), a = Top(log'[i]),
             NEW k \in Server, NEW w \in Value, Submit(k, w), b = Top(log'[k])
      PROVE  FALSE
  <2>1. \A e \in Links' : e \in Links \/ e = a
    BY Zenon, <1>1, <1>5, SubmitNewLink, StepFacts
  <2>2. b \in Links \/ b = a
    BY Zenon, <2>1
  <2>3. a.entry.term \in Nat
    BY Zenon, <1>1, <1>5, SubmitStep
  <2> QED BY SMTT(30), <1>3, <1>5, <2>2, <2>3
<1> QED BY Zenon, <1>2, <1>3, <1>4, <1>5, StepLinks

\* Neither does a call: it ends where the leader's log ends.
LEMMA NextCallsPass ==
    ASSUME Step, ChoiceInv
    PROVE  CallsPass'
<1> SUFFICES ASSUME NEW a \in Links', NEW m \in appendCalls', Choosable(a)',
                    m.term > a.entry.term
             PROVE  AtLeast(EndIndex(m), EndTerm(m), a)
  BY Zenon DEF CallsPass, AtLeast, EndIndex, EndTerm
<1>1. IndexInv /\ IndexInv' /\ TypeOK /\ TypeOK' /\ VoteInv /\ LinkInv /\ RaftInv /\ Evolves
  BY Zenon, StepFacts DEF Step
<1>2. CASE a \in Links
  <2>1. Choosable(a)
    BY Zenon, <1>2, ChoosableBefore
  <2>2. CASE m \in appendCalls
    BY Zenon, <1>2, <2>1, <2>2 DEF ChoiceInv, CallsPass
  <2>3. ASSUME NEW i \in Server, Sends(i), m \notin appendCalls
        PROVE  AtLeast(EndIndex(m), EndTerm(m), a)
    <3>1. /\ m.term = currentTerm'[i] /\ EndIndex(m) = Len(log[i])
          /\ EndTerm(m) = LastTerm(log[i])
      BY Zenon, <1>1, <2>3, SendsCalls
    <3>2. currentTerm'[i] \in Nat
      BY Zenon, <1>1 DEF TypeOK
    <3>3. Leads(i, currentTerm'[i]) \/ FirstIn(i, currentTerm'[i])
      BY Zenon, <2>3 DEF Sends
    <3>4. Covers(log[i], a)
      BY Zenon, <1>1, <1>2, <2>1, <3>1, <3>2, <3>3, LeaderCovers
    <3> QED BY Zenon, <3>1, <3>4 DEF Covers
  <2>4. ASSUME NEW i \in Server, NEW v \in Value, Submit(i, v), m \notin appendCalls
        PROVE  AtLeast(EndIndex(m), EndTerm(m), a)
    <3>1. EndTerm(m) = m.term
      BY SMTT(30), <1>1, <2>4, SubmitStep, SubmitCalls
    <3> QED BY Zenon, <3>1 DEF AtLeast
  <2>5. CASE Quiet
    BY Zenon, <2>2, <2>5 DEF Quiet
  <2>6. ASSUME NEW c \in appendCalls, Accepts(c) PROVE m \in appendCalls
    BY Zenon, <1>1, <2>6, AcceptStep DEF LinkInv
  <2> QED BY Zenon, <2>2, <2>3, <2>4, <2>5, <2>6, StepKinds
<1>3. ASSUME NEW i \in Server, NEW v \in Value, Submit(i, v), a = Top(log'[i])
      PROVE  FALSE
  <2>1. /\ a.entry.term = currentTerm[i] /\ currentTerm[i] \in Nat
        /\ appendCalls' = appendCalls \cup
             broadcastHeartbeats(i, currentTerm[i], log'[i], nextIndex[i])
    BY Zenon, <1>1, <1>3, SubmitStep
  <2>2. CASE m \in appendCalls
    <3>1. Won(m.from, m.term) /\ m.from \in Server /\ m.term \in Nat
      BY Zenon, <1>1, <2>2, CallTyped DEF VoteInv, CallWon
    <3> QED BY Zenon, <1>3, <2>1, <3>1, LateSubmit
  <2>3. CASE m \notin appendCalls
    <3>1. m.term = currentTerm[i]
      BY Zenon, <1>1, <1>3, <2>1, <2>3, SubmitCalls
    <3> QED BY SMTT(30), <2>1, <3>1
  <2> QED BY Zenon, <2>2, <2>3
<1> QED BY Zenon, <1>2, <1>3, StepLinks

\* A node that accepts a call keeps what it has acknowledged.
LEMMA AcceptCovers ==
    ASSUME Step, ChoiceInv, NEW m \in appendCalls, Accepts(m),
           NEW a \in Links, Choosable(a), Acked(m.to, a)'
    PROVE  Covers(log'[m.to], a)
<1>1. /\ IndexInv /\ TypeOK /\ TypeOK' /\ VoteInv /\ VoteInv' /\ LinkInv /\ LinkInv'
      /\ CallInv /\ RaftInv' /\ Remembers
  BY Zenon, StepFacts DEF Step
<1>2. Links' = Links
  BY Zenon, <1>1, AcceptKeepsLinks DEF CallInv
<1>3. PICK j, t, l : j = m.to /\ t = a.entry.term /\ l = log'[j]
  BY Zenon
<1>4. /\ j \in Server /\ currentTerm'[j] = m.term /\ l \in Seq(Entry)
      /\ EndIndex(m) <= Len(l) /\ TermAt(l, EndIndex(m)) = EndTerm(m)
  BY Zenon, <1>1, <1>3, AcceptStep DEF LinkInv
<1>5. /\ a \in LinkRecord /\ t \in Nat /\ m.term \in Nat /\ m.from \in Server
      /\ EndIndex(m) \in Nat
  BY Zenon, <1>1, <1>3, LinkTyped, CallTyped
<1>6. CASE m.term > t
  <2>1. AtLeast(EndIndex(m), TermAt(l, EndIndex(m)), a)
    BY Zenon, <1>3, <1>4, <1>6 DEF ChoiceInv, CallsPass
  <2>2. LinksOf(l) \subseteq Links
    BY Zenon, <1>2, <1>3, <1>4 DEF Links
  <2> QED BY ZenonT(30), <1>1, <1>3, <1>4, <1>5, <2>1, <2>2, CoversPoint DEF LinkInv
<1>7. CASE m.term = t
  <2>1. ~ Owner(j, t)'
    <3>1. Owner(m.from, t)'
      BY Zenon, <1>1, <1>7, VotesStay DEF Owner, Remembers, VoteInv, CallWon
    <3>2. OneOwner'
      <4>1. VoteInv' => OneOwner'
        BY TermOwner, PTL
      <4> QED BY Zenon, <1>1, <4>1
    <3>3. m.from # j
      BY Zenon, <1>1, <1>3 DEF CallInv, CallEnds
    <3> QED BY Zenon, <1>4, <1>5, <3>1, <3>2, <3>3 DEF OneOwner
  <2>2. PICK r \in appendReplies' : r.success /\ r.to = j /\ r.term = t /\ r.match >= a.index
    BY Zenon, <1>3, <2>1 DEF Acked
  <2>3. RepliedCovers'
    <3>1. RaftInv' => RepliedCovers'
      BY ReplyCovers, PTL
    <3> QED BY Zenon, <1>1, <3>1
  <2>4. Covers(log[r.to], a)'
    BY Zenon, <1>2, <1>3, <1>4, <1>7, <2>2, <2>3 DEF RepliedCovers
  <2> QED BY Zenon, <1>3, <2>2, <2>4 DEF Covers, AtLeast, LastTerm
<1>8. CASE m.term < t
  <2>1. AckedReached'
    <3>1. RaftInv' => AckedReached'
      BY AckedTerm, PTL
    <3> QED BY Zenon, <1>1, <3>1
  <2>2. currentTerm'[j] >= t
    BY Zenon, <1>2, <1>3, <1>4, <2>1 DEF AckedReached
  <2> QED BY SMTT(30), <1>4, <1>5, <1>8, <2>2
<1> QED BY SMTT(30), <1>5, <1>6, <1>7, <1>8

\* A node that has acknowledged a link keeps a log that reaches it.
LEMMA NextAckedCovers ==
    ASSUME Step, ChoiceInv
    PROVE  AckedCovers'
<1> SUFFICES ASSUME NEW a \in Links', NEW j \in Server, Choosable(a)', Acked(j, a)'
             PROVE  Covers(log'[j], a)
  BY Zenon DEF AckedCovers, Covers, AtLeast, LastTerm
<1>1. IndexInv /\ IndexInv' /\ TypeOK /\ LinkInv /\ LinkInv'
  BY Zenon, StepFacts
<1>2. CASE a \in Links
  <2>1. Choosable(a)
    BY Zenon, <1>2, ChoosableBefore
  <2>2. ASSUME NEW m \in appendCalls, Accepts(m), j = m.to
        PROVE  Covers(log'[j], a)
    BY Zenon, <1>2, <2>1, <2>2, AcceptCovers
  <2>3. CASE Acked(j, a)
    <3>1. Covers(log[j], a)
      BY Zenon, <1>2, <2>1, <2>3 DEF ChoiceInv, AckedCovers
    <3>2. CASE log'[j] = log[j]
      BY Zenon, <3>1, <3>2
    <3>3. CASE Quiet \/ \E i \in Server : Sends(i)
      BY Zenon, <3>2, <3>3 DEF Quiet, Sends
    <3>4. ASSUME NEW m \in appendCalls, Accepts(m), j # m.to PROVE log'[j] = log[j]
      BY Zenon, <1>1, <3>4, AcceptStep DEF LinkInv
    <3>5. ASSUME NEW i \in Server, NEW v \in Value, Submit(i, v), j # i
          PROVE  log'[j] = log[j]
      BY Zenon, <1>1, <3>5, SubmitStep
    <3>6. ASSUME NEW i \in Server, NEW v \in Value, Submit(i, v), j = i
          PROVE  Covers(log'[j], a)
      <4>1. /\ Len(log'[i]) = Len(log[i]) + 1 /\ LastTerm(log'[i]) = currentTerm[i]
            /\ log[i] \in Seq(Entry) /\ currentTerm[i] \in Nat
        BY Zenon, <1>1, <3>6, SubmitStep
      <4>2. LastTerm(log[i]) <= currentTerm[i] /\ LastTerm(log[i]) \in Nat
        BY SMTT(30), <1>1, <4>1, TermAtType DEF LinkInv, LogTerms, LastTerm
      <4>3. a.index \in Nat /\ a.entry.term \in Nat /\ Len(log[i]) \in Nat
        BY SMTT(30), <1>1, <1>2, <4>1, LinkTyped
      <4> QED BY SMTT(30), <3>1, <3>6, <4>1, <4>2, <4>3 DEF Covers, AtLeast
    <3> QED BY ZenonT(30), <2>2, <3>2, <3>3, <3>4, <3>5, <3>6, StepKinds
  <2>4. CASE ~ Acked(j, a)
    BY Zenon, <1>2, <2>2, <2>4, NewAck
  <2> QED BY Zenon, <2>3, <2>4
<1>3. ASSUME NEW i \in Server, NEW v \in Value, Submit(i, v), a = Top(log'[i])
      PROVE  Covers(log'[j], a)
  <2>1. j = i
    BY Zenon, <1>3, OnlyLeaderAcked
  <2>2. /\ a.index = Len(log[i]) + 1 /\ a.entry.term = currentTerm[i] /\ log[i] \in Seq(Entry)
        /\ Len(log'[i]) = Len(log[i]) + 1 /\ LastTerm(log'[i]) = currentTerm[i]
    BY Zenon, <1>1, <1>3, SubmitStep
  <2> QED BY SMTT(30), <2>1, <2>2 DEF Covers, AtLeast
<1> QED BY Zenon, <1>2, <1>3, StepLinks

\* A node gives its vote to a log no shorter than its own, and acknowledges
\* nothing of an earlier term afterwards.
LEMMA NextVotersSaw ==
    ASSUME Step, ChoiceInv
    PROVE  VotersSaw'
<1> SUFFICES ASSUME NEW a \in Links', NEW c \in voteCalls', NEW v \in Server, Choosable(a)',
                    c.term > a.entry.term, Voted(v, c.from, c.term)', Acked(v, a)'
             PROVE  AtLeast(c.lastLogIndex, c.lastLogTerm, a)
  BY Zenon DEF VotersSaw, AtLeast
<1>1. /\ IndexInv /\ IndexInv' /\ TypeOK /\ TypeOK' /\ VoteInv' /\ LinkInv
  BY Zenon, StepFacts
<1>2. c.from \in Server /\ c.term \in Nat /\ c \in RequestVoteArgs
  BY Zenon, <1>1 DEF TypeOK, RequestVoteArgs
<1>3. currentTerm'[v] >= c.term /\ currentTerm'[v] \in Nat
  BY Zenon, <1>1, <1>2 DEF VoteInv, VoteKept, TypeOK
<1>4. ASSUME NEW i \in Server, NEW w \in Value, Submit(i, w), a = Top(log'[i]) PROVE FALSE
  <2>1. v = i
    BY Zenon, <1>4, OnlyLeaderAcked
  <2>2. a.entry.term = currentTerm[i] /\ currentTerm' = currentTerm /\ currentTerm[i] \in Nat
    BY Zenon, <1>1, <1>4, SubmitStep
  <2> QED BY SMTT(30), <1>2, <1>3, <2>1, <2>2
<1>5. a \in Links
  BY Zenon, <1>4, StepLinks
<1>6. Choosable(a)
  BY Zenon, <1>5, ChoosableBefore
<1>7. Acked(v, a)
  <2> SUFFICES ASSUME ~ Acked(v, a) PROVE FALSE
    BY Zenon
  <2>1. PICK m \in appendCalls : Accepts(m) /\ v = m.to /\ m.term = a.entry.term
    BY Zenon, <1>5, NewAck
  <2>2. currentTerm'[v] = a.entry.term
    BY Zenon, <1>1, <2>1, AcceptStep DEF LinkInv
  <2> QED BY SMTT(30), <1>2, <1>3, <2>2
<1>8. Covers(log[v], a)
  BY Zenon, <1>5, <1>6, <1>7 DEF ChoiceInv, AckedCovers
<1>9. ASSUME NEW x \in voteCalls
      PROVE  /\ x.from \in Server /\ x.term \in Nat /\ currentTerm[x.from] \in Nat
             /\ x.term < currentTerm[x.from] + 1
  <2>1. x.from \in Server /\ x.term \in Nat
    BY Zenon, <1>1 DEF TypeOK, RequestVoteArgs
  <2>2. currentTerm[x.from] \in Nat /\ x.term <= currentTerm[x.from]
    BY Zenon, <1>1, <2>1 DEF TypeOK, ChoiceInv, VoteCalls
  <2> QED BY SMTT(30), <2>1, <2>2
<1>10. CASE c \in voteCalls /\ Voted(v, c.from, c.term)
  BY Zenon, <1>5, <1>6, <1>7, <1>10 DEF ChoiceInv, VotersSaw
<1>11. CASE UNCHANGED <<voteCalls, voteReplies>>
  BY Zenon, <1>10, <1>11 DEF Voted
<1>12. ASSUME NEW i \in Server, NewCall(i)
       PROVE  AtLeast(c.lastLogIndex, c.lastLogTerm, a)
  <2>1. PICK n : /\ n.from = i /\ n.term = currentTerm[i] + 1
                 /\ n.lastLogIndex = Len(log[i]) /\ n.lastLogTerm = LastTerm(log[i])
                 /\ voteCalls' = voteCalls \cup {n} /\ voteReplies' = voteReplies
    BY Zenon, <1>12 DEF NewCall
  <2>2. CASE c = n
    <3>1. \A r \in voteReplies : r.from = i => r.term # n.term
      <4> SUFFICES ASSUME NEW r \in voteReplies, r.from = i, r.term = n.term PROVE FALSE
        BY Zenon
      <4>1. PICK x \in voteCalls : x.from = i /\ x.term = n.term
        BY ZenonT(30) DEF ChoiceInv, VoteCalls
      <4> QED BY SMTT(30), <1>9, <2>1, <4>1
    <3>2. v = i
      BY Zenon, <2>1, <2>2, <3>1 DEF Voted
    <3> QED BY Zenon, <1>8, <2>1, <2>2, <3>2 DEF Covers
  <2>3. CASE c \in voteCalls
    <3>1. c.from = i => c.term # n.term
      BY SMTT(30), <1>9, <2>1, <2>3
    <3>2. Voted(v, c.from, c.term)
      BY Zenon, <2>1, <3>1 DEF Voted
    <3> QED BY Zenon, <1>10, <2>3, <3>2
  <2> QED BY Zenon, <2>1, <2>2, <2>3
<1>13. ASSUME NEW m \in voteCalls, NEW j \in Server, RequestVote(m, j)
       PROVE  AtLeast(c.lastLogIndex, c.lastLogTerm, a)
  <2>1. /\ voteCalls' = voteCalls
        /\ \E e : /\ e.from = m.from /\ e.term = m.term /\ e.to = j
                  /\ e.voteGranted => logUpToDate(m, log[j])
                  /\ voteReplies' = voteReplies \cup {e}
    BY Zenon, <1>13, RequestVoteAnswer
  <2>2. PICK e : /\ e.from = m.from /\ e.term = m.term /\ e.to = j
                 /\ e.voteGranted => logUpToDate(m, log[j])
                 /\ voteReplies' = voteReplies \cup {e}
    BY Zenon, <2>1
  <2>3. CASE ~ Voted(v, c.from, c.term)
    <3>1. e.voteGranted /\ e.from = c.from /\ e.to = v /\ e.term = c.term
      BY Zenon, <2>1, <2>2, <2>3 DEF Voted
    <3>2. c = m
      <4>1. c \in voteCalls /\ c.from = m.from /\ c.term = m.term
        BY Zenon, <2>1, <2>2, <3>1
      <4>2. VoteCalls
        BY Zenon DEF ChoiceInv
      <4> QED BY Zenon, <4>1, <4>2 DEF VoteCalls
    <3>3. logUpToDate(c, log[v])
      BY Zenon, <2>2, <3>1, <3>2
    <3>4. /\ c.lastLogIndex \in Nat /\ c.lastLogTerm \in Nat /\ log[v] \in Seq(Entry)
          /\ a.index \in Nat /\ a.entry.term \in Nat
      BY ZenonT(30), <1>1, <1>2, <1>5, LinkTyped DEF TypeOK, RequestVoteArgs
    <3>5. LastTerm(log[v]) \in Nat /\ Len(log[v]) \in Nat
      BY SMTT(30), <3>4, TermAtType DEF LastTerm
    <3> QED BY SMTT(30), <1>8, <3>3, <3>4, <3>5 DEF logUpToDate, Covers, AtLeast
  <2> QED BY Zenon, <1>10, <2>1, <2>3
<1> QED BY Zenon, <1>11, <1>12, <1>13, VoteKinds

\* Every step keeps ChoiceInv.
LEMMA NextChoiceInv ==
    ASSUME Step, ChoiceInv
    PROVE  ChoiceInv'
<1>1. VoteCalls' /\ CandidateLog'
  BY Zenon, NextVoteCalls, NextCandidateLog DEF ChoiceInv
<1> QED BY Zenon, <1>1, NextLinksPass, NextCallsPass, NextAckedCovers, NextVotersSaw DEF ChoiceInv
=============================================================================
