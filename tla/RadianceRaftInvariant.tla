----------------------- MODULE RadianceRaftInvariant ------------------------
(***************************************************************************)
(* The inductive invariant of RadianceRaft and the kinds of step it is     *)
(* proved by. Nothing is proved here; the proofs are in RadianceRaftLinks, *)
(* RadianceRaftElection, RadianceRaftLog, RadianceRaftChoice and           *)
(* RadianceRaftCommit, and the theorems in RadianceRaftProofs.             *)
(*                                                                         *)
(* Votes, calls and replies are never removed, so they record all that was *)
(* ever said. A link is an entry with its index and the term of the entry  *)
(* below it. The logs of the nodes and the calls sent so far are all made  *)
(* of links, and only Submit makes a new one. A link is chosen when a      *)
(* majority has it, acknowledged in its own term: that is what             *)
(* checkAdvanceCommitIndex waits for.                                      *)
(***************************************************************************)
EXTENDS RadianceRaft

-----------------------------------------------------------------------------
(* Type correctness and the index arithmetic it depends on. *)

\* lastApplied has caught up with commitIndex at the end of every critical section.
CommitApplied == \A i \in Server : commitIndex[i] <= Len(applied[i])

\* The last index a call of the current term carries exists in the log of the
\* leader that sent it, and a candidate has not sent any in its term.
SentWithinLog(m, last) ==
    /\ m.term <= currentTerm[m.from]
    /\ m.term = currentTerm[m.from]
          => /\ role[m.from] # "Candidate"
             /\ role[m.from] = "Leader" => last <= Len(log[m.from])

CallsWithinLog == \A m \in appendCalls : SentWithinLog(m, m.prevLogIndex + Len(m.entries))

RepliesWithinLog == \A m \in appendReplies : SentWithinLog(m, m.match)

IndexInv ==
    /\ TypeOK
    /\ CommitApplied
    /\ CallsWithinLog
    /\ RepliesWithinLog
    /\ NextIndexInBounds

(* How one step may change a node: its term never goes back, it does not     *)
(* return to being a candidate in a term, and it leads a term only as a      *)
(* candidate of that term that has just won, or by extending its log.        *)
Evolves ==
    \A s \in Server :
        /\ currentTerm'[s] >= currentTerm[s]
        /\ currentTerm'[s] = currentTerm[s] =>
             /\ role'[s] = "Candidate" => role[s] = "Candidate"
             /\ role'[s] = "Leader" =>
                  \/ role[s] = "Candidate"
                  \/ role[s] = "Leader" /\ Len(log'[s]) >= Len(log[s])

-----------------------------------------------------------------------------
(* The votes. *)

\* Node j has voted for i in term t: by a reply, or for itself.
Voted(j, i, t) ==
    \/ \E r \in voteReplies : r.voteGranted /\ r.from = i /\ r.to = j /\ r.term = t
    \/ j = i /\ \E c \in voteCalls : c.from = i /\ c.term = t

Won(i, t) == \E Q \in SUBSET Server : IsMajority(Q) /\ \A j \in Q : Voted(j, i, t)

\* Two majorities of the nodes have a node in common, and a node that is a
\* majority by itself is the only node: all that is used of cardinalities.
Majorities ==
    /\ \A Q, R \in SUBSET Server :
            IsMajority(Q) /\ IsMajority(R) => \E j \in Server : j \in Q /\ j \in R
    /\ \A i \in Server : IsMajority({i}) => Server = {i}

\* A vote is remembered as long as the node is in the term it was given in.
VoteKept ==
    \A i, j \in Server : \A t \in Nat :
        Voted(j, i, t) => /\ currentTerm[j] >= t
                          /\ currentTerm[j] = t => votedFor[j] = i

OneVote ==
    \A i, k, j \in Server : \A t \in Nat : Voted(j, i, t) /\ Voted(j, k, t) => i = k

\* A candidate counts votes it was given in its term.
CandidateVoted ==
    \A i \in Server : role[i] = "Candidate"
        => \A j \in votesReceived[i] : Voted(j, i, currentTerm[i])

\* A leader has won its term, or has no peer to ask.
LeaderWon == \A i \in Server : role[i] = "Leader" => Server = {i} \/ Won(i, currentTerm[i])

CallWon == \A m \in appendCalls : Won(m.from, m.term)

VoteInv == Majorities /\ VoteKept /\ OneVote /\ CandidateVoted /\ LeaderWon /\ CallWon

-----------------------------------------------------------------------------
(* The links, the calls and the replies. *)

LinkRecord == [index : Nat, entry : Entry, prev : Nat]

Link(l, k) == [index |-> k, entry |-> l[k], prev |-> TermAt(l, k - 1)]

\* The link of the k-th entry of a call.
CallLink(m, k) == [index |-> m.prevLogIndex + k, entry |-> m.entries[k],
                   prev |-> IF k = 1 THEN m.prevLogTerm ELSE m.entries[k - 1].term]

LinksOf(l) == {Link(l, k) : k \in 1..Len(l)}

CallLinks(m) == {CallLink(m, k) : k \in 1..Len(m.entries)}

SentLinks == UNION {CallLinks(m) : m \in appendCalls}

Links == (UNION {LinksOf(log[i]) : i \in Server}) \cup SentLinks

\* Where a call ends: the last entry it carries, or the one it follows.
EndIndex(m) == m.prevLogIndex + Len(m.entries)

EndTerm(m) == IF Len(m.entries) = 0 THEN m.prevLogTerm ELSE m.entries[Len(m.entries)].term

\* Node i has been, or may yet be, the leader of term t, and nobody else.
Owner(i, t) == Server = {i} \/ Won(i, t)

Leads(i, t) == role[i] = "Leader" /\ currentTerm[i] = t

\* The entry at index k, of term t, is at least as late as a link: what
\* logUpToDate compares.
AtLeast(k, t, a) == t > a.entry.term \/ (t = a.entry.term /\ k >= a.index)

Covers(l, a) == AtLeast(Len(l), LastTerm(l), a)

\* A set of numbers that is not empty has a smallest: all that is used of
\* induction, down a log.
WellOrdered == \A T \in SUBSET Nat : T # {} => \E x \in T : \A y \in T : x <= y

(* What a set of links must be for the logs made of them to match. *)
Unique(L) == \A a, b \in L : a.index = b.index /\ a.entry.term = b.entry.term => a = b

Ordered(L) == \A a \in L : a.prev <= a.entry.term

\* The entries of a term follow each other.
Runs(L) == \A a, b \in L :
    a.entry.term = b.entry.term /\ a.index < b.index => b.prev = a.entry.term

\* A leader has every link of its term, at the end of its log.
LeaderHolds ==
    \A s \in Server : \A a \in Links :
        Leads(s, a.entry.term) =>
            /\ a.index <= Len(log[s]) /\ Link(log[s], a.index) = a
            /\ LastTerm(log[s]) = a.entry.term

\* A link was made by the leader of its term.
LinkOwned ==
    \A a \in Links : \E s \in Server :
        /\ Owner(s, a.entry.term)
        /\ currentTerm[s] >= a.entry.term
        /\ currentTerm[s] = a.entry.term => role[s] # "Candidate"

\* Links are not lost when a log is cut: they have been sent.
LinkSent == \A i \in Server : Server = {i} \/ LinksOf(log[i]) \subseteq SentLinks

LogTerms == \A i \in Server : LastTerm(log[i]) <= currentTerm[i]

LinkInv ==
    /\ WellOrdered
    /\ Unique(Links) /\ Ordered(Links) /\ Runs(Links)
    /\ LeaderHolds /\ LinkOwned /\ LinkSent /\ LogTerms

\* A call ends in a link, or before the first entry.
CallEnds ==
    \A m \in appendCalls :
        /\ m.from # m.to
        /\ EndTerm(m) <= m.term
        /\ EndIndex(m) = 0 => EndTerm(m) = 0
        /\ EndIndex(m) # 0 => \E a \in Links : a.index = EndIndex(m) /\ a.entry.term = EndTerm(m)

\* It ends where the log of its leader ended, and goes on with entries of the term.
CallsOfLeader ==
    \A m \in appendCalls : \A s \in Server :
        Leads(s, m.term) =>
            /\ EndIndex(m) <= Len(log[s]) /\ TermAt(log[s], EndIndex(m)) = EndTerm(m)
            /\ EndIndex(m) < Len(log[s]) => log[s][EndIndex(m) + 1].term = m.term

\* A call without an entry of its term ends right below the first one.
CallBelowTerm ==
    \A m \in appendCalls :
        EndTerm(m) # m.term =>
            \A a \in Links : a.entry.term = m.term =>
                \E f \in Links : /\ f.index = EndIndex(m) + 1 /\ f.index <= a.index
                                 /\ f.entry.term = m.term /\ f.prev = EndTerm(m)

\* Between two calls of a term the leader has only added entries of the term.
CallsGrow ==
    \A m, c \in appendCalls :
        m.term = c.term =>
            /\ EndIndex(m) = EndIndex(c) => EndTerm(m) = EndTerm(c)
            /\ EndIndex(m) < EndIndex(c) => EndTerm(c) = c.term

CallInv == CallEnds /\ CallsOfLeader /\ CallBelowTerm /\ CallsGrow

\* A success reports the end of a call, and the peer that has accepted it has
\* the end in its log for as long as it is in the term.
Accepted(r, c) ==
    /\ c.from = r.from /\ c.to = r.to /\ c.term = r.term /\ EndIndex(c) = r.match
    /\ r.term <= currentTerm[r.to]
    /\ currentTerm[r.to] = r.term =>
         EndIndex(c) <= Len(log[r.to]) /\ TermAt(log[r.to], EndIndex(c)) = EndTerm(c)

ReplySound == \A r \in appendReplies : r.success => \E c \in appendCalls : Accepted(r, c)

\* A leader's matchIndex was reported to it in its term.
MatchReported ==
    \A i, j \in Server :
        role[i] = "Leader" /\ i # j /\ matchIndex[i][j] # 0 =>
            \E r \in appendReplies : /\ r.success /\ r.from = i /\ r.to = j
                                     /\ r.term = currentTerm[i] /\ r.match = matchIndex[i][j]

ReplyInv == ReplySound /\ MatchReported

LogInv == LinkInv /\ CallInv /\ ReplyInv

RaftInv == IndexInv /\ VoteInv /\ LogInv

-----------------------------------------------------------------------------
(* The kinds of step: what each may change of the links and the calls. *)

\* Calls and replies are never taken back.
Remembers ==
    /\ voteCalls \subseteq voteCalls' /\ voteReplies \subseteq voteReplies'
    /\ appendCalls \subseteq appendCalls' /\ appendReplies \subseteq appendReplies'

NoNewLeader(s) == role'[s] = "Leader" => role[s] = "Leader" /\ currentTerm'[s] = currentTerm[s]

\* Logs and calls stay as they are, and no call is accepted.
Quiet ==
    /\ log' = log /\ appendCalls' = appendCalls
    /\ \A s \in Server : NoNewLeader(s)
    /\ \A r \in appendReplies' : r.success => r \in appendReplies

\* Node i is about to lead a term that had no leader before.
FirstIn(i, t) ==
    \/ role[i] = "Candidate" /\ currentTerm[i] = t /\ Owner(i, t)
    \/ Server = {i} /\ t > currentTerm[i]

\* Node i sends what it has, as the leader it is or has just become.
Sends(i) ==
    /\ log' = log /\ appendReplies' = appendReplies
    /\ \A s \in Server : s # i => NoNewLeader(s)
    /\ role'[i] = "Leader"
    /\ Leads(i, currentTerm'[i]) \/ FirstIn(i, currentTerm'[i])
    /\ appendCalls' = appendCalls \cup
         broadcastHeartbeats(i, currentTerm'[i], log[i], nextIndex'[i])

Accepts(m) == AppendEntries(m) /\ PrevMatches(m, log[m.to])

\* The last link of a log.
Top(l) == Link(l, Len(l))

\* How the matchIndex of a leader changes: not at all, to zero when it is
\* elected, or to what a reply of its term reports.
MatchEvolves(s) ==
    \/ /\ role[s] = "Leader" /\ currentTerm'[s] = currentTerm[s]
       /\ matchIndex'[s] = matchIndex[s]
    \/ \A j \in Server : j # s => matchIndex'[s][j] = 0
    \/ /\ role[s] = "Leader" /\ currentTerm'[s] = currentTerm[s]
       /\ \E r \in appendReplies :
            /\ r.success /\ r.from = s /\ r.term = currentTerm[s]
            /\ matchIndex'[s] = [matchIndex[s] EXCEPT ![r.to] = r.match]

-----------------------------------------------------------------------------
(* What is chosen. *)

\* Node j has acknowledged a link in its term: as its leader, or by a reply.
Acked(j, a) ==
    \/ Owner(j, a.entry.term)
    \/ \E r \in appendReplies :
          r.success /\ r.to = j /\ r.term = a.entry.term /\ r.match >= a.index

Chosen(a) == \E Q \in SUBSET Server : IsMajority(Q) /\ \A j \in Q : Acked(j, a)

\* A node that has left the term without acknowledging never will.
Choosable(a) ==
    \E Q \in SUBSET Server :
        IsMajority(Q) /\ \A j \in Q : Acked(j, a) \/ currentTerm[j] <= a.entry.term

(* The calls of an election say how far the candidate's log reaches. *)
VoteCalls ==
    /\ \A c \in voteCalls : c.term <= currentTerm[c.from]
    /\ \A c, d \in voteCalls : c.from = d.from /\ c.term = d.term => c = d
    /\ \A r \in voteReplies : \E c \in voteCalls : c.from = r.from /\ c.term = r.term

CandidateLog ==
    \A c \in voteCalls :
        currentTerm[c.from] = c.term /\ role[c.from] # "Follower" =>
            /\ c.lastLogIndex <= Len(log[c.from])
            /\ TermAt(log[c.from], c.lastLogIndex) = c.lastLogTerm

(* Nothing of a later term passes a link by while it can be chosen: no link, *)
(* no call; a node that has acknowledged it keeps a log that reaches it, and *)
(* gives its later votes only to such logs.                                  *)
LinksPass ==
    \A a, b \in Links :
        Choosable(a) /\ b.entry.term > a.entry.term => AtLeast(b.index - 1, b.prev, a)

CallsPass ==
    \A a \in Links, m \in appendCalls :
        Choosable(a) /\ m.term > a.entry.term => AtLeast(EndIndex(m), EndTerm(m), a)

AckedCovers ==
    \A a \in Links, j \in Server : Choosable(a) /\ Acked(j, a) => Covers(log[j], a)

VotersSaw ==
    \A a \in Links, c \in voteCalls, v \in Server :
        Choosable(a) /\ c.term > a.entry.term /\ Voted(v, c.from, c.term) /\ Acked(v, a)
            => AtLeast(c.lastLogIndex, c.lastLogTerm, a)

ChoiceInv == VoteCalls /\ CandidateLog /\ LinksPass /\ CallsPass /\ AckedCovers /\ VotersSaw

\* A step of the system, with the invariant proved so far on both sides of it.
Step == RaftInv /\ RaftInv' /\ Evolves /\ [Next]_vars

OneOwner == \A i, k \in Server : \A t \in Nat : Owner(i, t) /\ Owner(k, t) => i = k

LinksAreRecords == Links \subseteq LinkRecord

\* A node in the term of a link that has acknowledged it by a reply has it.
RepliedCovers ==
    \A a \in Links, r \in appendReplies :
        /\ r.success /\ r.term = a.entry.term /\ r.match >= a.index
        /\ currentTerm[r.to] = a.entry.term
        => Covers(log[r.to], a)

\* A node that has acknowledged a link is not behind its term.
AckedReached ==
    \A a \in Links, j \in Server : Acked(j, a) => currentTerm[j] >= a.entry.term

\* How a step may change the votes: a new candidate's call, one vote, or none.
NewCall(i) ==
    /\ currentTerm'[i] = currentTerm[i] + 1
    /\ voteCalls' = voteCalls \cup
         {[from |-> i, term |-> currentTerm[i] + 1,
           lastLogIndex |-> Len(log[i]), lastLogTerm |-> LastTerm(log[i])]}
    /\ UNCHANGED <<voteReplies, log, appendCalls, appendReplies>>

-----------------------------------------------------------------------------
(* What is committed. *)

\* A commit index is that of a chosen link or below it.
Backed(commit, term, k, t) ==
    \E a \in Links : /\ Chosen(a) /\ commit <= a.index /\ a.entry.term <= term
                     /\ AtLeast(k, t, a)

CommitChosen ==
    \A j \in Server : commitIndex[j] # 0 =>
        Backed(commitIndex[j], currentTerm[j], Len(log[j]), LastTerm(log[j]))

CallCommitChosen ==
    \A m \in appendCalls : m.leaderCommit # 0 =>
        Backed(m.leaderCommit, m.term, EndIndex(m), EndTerm(m))

CommitInv == CommitChosen /\ CallCommitChosen /\ AppliedInLog /\ CommitWithinCall

\* A commit index moves when a leader counts a majority, or when a call is accepted.
Commits(i, N) ==
    /\ Leads(i, currentTerm[i])
    /\ UNCHANGED <<currentTerm, role, log, appendCalls>>
    /\ N \in Committable(i, matchIndex'[i]) /\ applyLogs(i, log[i], N)

FollowsCommit(m) ==
    /\ Accepts(m)
    /\ applyLogs(m.to, log'[m.to], FollowerCommit(m, log'[m.to], commitIndex[m.to]))

\* The inductive invariant.
SafetyInv == RaftInv /\ ChoiceInv /\ CommitInv
=============================================================================
