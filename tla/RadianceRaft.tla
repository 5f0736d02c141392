---------------------------- MODULE RadianceRaft ----------------------------
(***************************************************************************)
(* The consensus layer (pkg/consensus): RaftNode and the PeerTransport it  *)
(* is given.                                                               *)
(*                                                                         *)
(* Every critical section of RaftNode.mu is one action.  A remote call is  *)
(* three critical sections: the one that starts the goroutine and captures *)
(* the arguments, the handler at the peer, and the one that handles the    *)
(* reply at the caller.  voteCalls and appendCalls hold the arguments of   *)
(* every call started, voteReplies and appendReplies every reply produced. *)
(* Nothing is removed from them:                                           *)
(*  - a call or a reply that is never handled is a lost one (the transport *)
(*    returned false, or the goroutine is still waiting);                  *)
(*  - an AppendEntries call may be handled again at any later time, which  *)
(*    is what the copies of it that runHeartbeatLoop sends do;             *)
(*  - a RequestVote call is started once per peer and election, so it is   *)
(*    answered once.                                                       *)
(* The election deadline is random and the clock is not modelled: a node   *)
(* that is not a leader may time out at any moment.                        *)
(***************************************************************************)
EXTENDS Integers, Sequences, FiniteSets

CONSTANTS
    Server,     \* the node identifiers
    Value,      \* the commands (key, value, tombstone) clients submit
    Nil,        \* votedFor = -1
    MaxElections, \* bound: how many elections with peers are started
    MaxLog,     \* bound: no command is submitted to a longer log
    MaxCalls,   \* bound: heartbeats stop once a leader has this many distinct calls out
    MaxKills    \* bound: how many nodes may be killed

ASSUME ServerAssumption == IsFiniteSet(Server) /\ Nil \notin Server
ASSUME BoundAssumption == MaxElections \in Nat /\ MaxCalls \in Nat /\ MaxLog \in Nat /\ MaxKills \in Nat

VARIABLES
    currentTerm, votedFor, role,
    log,            \* log[i][k] is r.log[k]; the dummy entry 0 is not stored
    commitIndex,
    nextIndex, matchIndex,
    votesReceived,  \* the peers (and self) counted in the current election
    applied,        \* what applyLogs has sent on applyCh; its length is lastApplied
    killed,
    voteCalls, voteReplies, appendCalls, appendReplies

electionVars == <<currentTerm, votedFor, role, votesReceived>>
leaderVars   == <<nextIndex, matchIndex>>
logVars      == <<log, commitIndex, applied>>
voteRPCs     == <<voteCalls, voteReplies>>
appendRPCs   == <<appendCalls, appendReplies>>
vars == <<electionVars, leaderVars, logVars, killed, voteRPCs, appendRPCs>>

Role  == {"Follower", "Candidate", "Leader"}
Entry == [index : Nat, term : Nat, cmd : Value]

\* The vote calls of one election carry the same arguments to every peer.
RequestVoteArgs == [from : Server, term : Nat, lastLogIndex : Nat, lastLogTerm : Nat]
\* A reply keeps the direction and the term of its call: from is the caller.
RequestVoteReply == [from : Server, to : Server, term : Nat,
                     replyTerm : Nat, voteGranted : BOOLEAN]
AppendEntriesArgs == [from : Server, to : Server, term : Nat,
                      prevLogIndex : Nat, prevLogTerm : Nat,
                      entries : Seq(Entry), leaderCommit : Nat]
\* match is pIdx + len(entriesToSend), which the goroutine remembers.
AppendEntriesReply == [from : Server, to : Server, term : Nat,
                       replyTerm : Nat, success : BOOLEAN, match : Nat]

Peers(i) == Server \ {i}
\* Mutant: half of the nodes are enough.
IsMajorityHalf(S) == Cardinality(S) >= Cardinality(Server) \div 2
IsMajority(S) == Cardinality(S) >= (Cardinality(Server) \div 2) + 1

\* The term of entry k; entry 0 is the dummy of NewRaftNode.
TermAt(l, k) == IF k = 0 THEN 0 ELSE l[k].term
LastTerm(l)  == TermAt(l, Len(l))

TypeOK ==
    /\ currentTerm \in [Server -> Nat]
    /\ votedFor \in [Server -> Server \cup {Nil}]
    /\ role \in [Server -> Role]
    /\ log \in [Server -> Seq(Entry)]
    /\ commitIndex \in [Server -> Nat]
    /\ nextIndex \in [Server -> [Server -> Nat]]
    /\ matchIndex \in [Server -> [Server -> Nat]]
    /\ votesReceived \in [Server -> SUBSET Server]
    /\ applied \in [Server -> Seq(Entry)]
    /\ killed \in [Server -> BOOLEAN]
    /\ voteCalls \subseteq RequestVoteArgs
    /\ voteReplies \subseteq RequestVoteReply
    /\ appendCalls \subseteq AppendEntriesArgs
    /\ appendReplies \subseteq AppendEntriesReply

\* NewRaftNode, on every node.
Init ==
    /\ currentTerm = [i \in Server |-> 0]
    /\ votedFor = [i \in Server |-> Nil]
    /\ role = [i \in Server |-> "Follower"]
    /\ log = [i \in Server |-> <<>>]
    /\ commitIndex = [i \in Server |-> 0]
    /\ nextIndex = [i \in Server |-> [j \in Server |-> 0]]
    /\ matchIndex = [i \in Server |-> [j \in Server |-> 0]]
    /\ votesReceived = [i \in Server |-> {}]
    /\ applied = [i \in Server |-> <<>>]
    /\ killed = [i \in Server |-> FALSE]
    /\ voteCalls = {} /\ voteReplies = {}
    /\ appendCalls = {} /\ appendReplies = {}
-----------------------------------------------------------------------------
(* Steps shared by several critical sections. *)

\* Mutant: a call carries one entry at most.
broadcastHeartbeatsOneEntry(i, term, ilog, next) ==
    LET prev(j) == IF next[j] < 1 THEN 0 ELSE next[j] - 1
    IN  {[from |-> i, to |-> j, term |-> term,
          prevLogIndex |-> prev(j), prevLogTerm |-> TermAt(ilog, prev(j)),
          entries |-> IF prev(j) < Len(ilog) THEN <<ilog[prev(j) + 1]>> ELSE <<>>,
          leaderCommit |-> commitIndex[i]] : j \in Peers(i)}
\* The calls broadcastHeartbeats starts: each peer gets everything from its
\* nextIndex to the end of the log.
broadcastHeartbeats(i, term, ilog, next) ==
    LET prev(j) == IF next[j] < 1 THEN 0 ELSE next[j] - 1
    IN  {[from |-> i, to |-> j, term |-> term,
          prevLogIndex |-> prev(j), prevLogTerm |-> TermAt(ilog, prev(j)),
          entries |-> SubSeq(ilog, prev(j) + 1, Len(ilog)),
          leaderCommit |-> commitIndex[i]] : j \in Peers(i)}

becomeLeader(i, term) ==
    /\ role' = [role EXCEPT ![i] = "Leader"]
    /\ nextIndex' = [nextIndex EXCEPT ![i] =
                        [j \in Server |-> IF j = i THEN @[j] ELSE Len(log[i]) + 1]]
    /\ matchIndex' = [matchIndex EXCEPT ![i] =
                        [j \in Server |-> IF j = i THEN @[j] ELSE 0]]
    /\ appendCalls' = appendCalls \cup broadcastHeartbeats(i, term, log[i], nextIndex'[i])

becomeFollower(i, term) ==
    /\ role' = [role EXCEPT ![i] = "Follower"]
    /\ currentTerm' = [currentTerm EXCEPT ![i] = term]
    /\ votedFor' = [votedFor EXCEPT ![i] = Nil]

\* Set the commit index and apply up to it.
applyLogs(i, ilog, commit) ==
    /\ commitIndex' = [commitIndex EXCEPT ![i] = commit]
    /\ applied' = [applied EXCEPT ![i] = @ \o SubSeq(ilog, Len(@) + 1, commit)]
-----------------------------------------------------------------------------
(* Elections *)

startElection(i) ==
    /\ currentTerm' = [currentTerm EXCEPT ![i] = @ + 1]
    /\ votedFor' = [votedFor EXCEPT ![i] = i]
    /\ votesReceived' = [votesReceived EXCEPT ![i] = {i}]
    /\ IF IsMajority({i})
       THEN becomeLeader(i, currentTerm[i] + 1) /\ UNCHANGED voteCalls
       ELSE /\ role' = [role EXCEPT ![i] = "Candidate"]
            /\ voteCalls' = voteCalls \cup
                 {[from |-> i, term |-> currentTerm[i] + 1,
                   lastLogIndex |-> Len(log[i]), lastLogTerm |-> LastTerm(log[i])]}
            /\ UNCHANGED <<leaderVars, appendCalls>>
    /\ UNCHANGED <<logVars, voteReplies, appendReplies>>

\* The election timer fires.
runElectionLoop(i) ==
    /\ ~killed[i]
    /\ role[i] # "Leader"
    /\ Cardinality(voteCalls) < MaxElections
    /\ startElection(i)
    /\ UNCHANGED killed

\* Mutant: the terms of the last entries decide alone.
logUpToDateByTerm(m, l) == m.lastLogTerm >= LastTerm(l)
\* Mutant: every log is up to date.
logUpToDateAlways(m, l) == TRUE
\* The candidate's log is at least as up to date as l.
logUpToDate(m, l) ==
    \/ m.lastLogTerm > LastTerm(l)
    \/ m.lastLogTerm = LastTerm(l) /\ m.lastLogIndex >= Len(l)

\* The handler of a vote request at the peer j.
RequestVote(m, j) ==
    LET newer == m.term > currentTerm[j]
        term  == IF newer THEN m.term ELSE currentTerm[j]
        vote  == IF newer THEN Nil ELSE votedFor[j]
        grant == m.term = term /\ vote \in {Nil, m.from} /\ logUpToDate(m, log[j])
    IN  /\ j # m.from
        /\ \A r \in voteReplies : <<r.from, r.to, r.term>> # <<m.from, j, m.term>>
        /\ currentTerm' = [currentTerm EXCEPT ![j] = term]
        /\ votedFor' = [votedFor EXCEPT ![j] = IF grant THEN m.from ELSE vote]
        /\ role' = [role EXCEPT ![j] = IF newer THEN "Follower" ELSE @]
        /\ voteReplies' = voteReplies \cup
             {[from |-> m.from, to |-> j, term |-> m.term,
               replyTerm |-> term, voteGranted |-> grant]}
        /\ UNCHANGED <<votesReceived, leaderVars, logVars, killed, voteCalls, appendRPCs>>

\* The candidate handles a reply of the election it is still in.
RequestVoteReplied(m) ==
    LET i     == m.from
        votes == votesReceived[i] \cup {m.to}
    IN  /\ role[i] = "Candidate" /\ currentTerm[i] = m.term
        /\ \/ /\ m.replyTerm > currentTerm[i]
              /\ becomeFollower(i, m.replyTerm)
              /\ UNCHANGED <<votesReceived, leaderVars, appendCalls>>
           \/ /\ m.replyTerm <= currentTerm[i]
              /\ m.voteGranted
              /\ votesReceived' = [votesReceived EXCEPT ![i] = votes]
              /\ UNCHANGED <<currentTerm, votedFor>>
              /\ IF IsMajority(votes)
                 THEN becomeLeader(i, currentTerm[i])
                 ELSE UNCHANGED <<role, leaderVars, appendCalls>>
        /\ UNCHANGED <<logVars, killed, voteRPCs, appendReplies>>
-----------------------------------------------------------------------------
(* Replication *)

runHeartbeatLoop(i) ==
    /\ ~killed[i]
    /\ role[i] = "Leader"
    /\ Cardinality({c \in appendCalls : c.from = i /\ c.term = currentTerm[i]}) < MaxCalls
    /\ UNCHANGED <<electionVars, leaderVars, logVars, killed, voteRPCs, appendReplies>>
    /\ appendCalls' = appendCalls \cup broadcastHeartbeats(i, currentTerm[i], log[i], nextIndex[i])

\* A client command reaches a leader; any other node refuses it.
Submit(i, cmd) ==
    LET entry == [index |-> Len(log[i]) + 1, term |-> currentTerm[i], cmd |-> cmd]
    IN  /\ role[i] = "Leader"
        /\ Len(log[i]) < MaxLog
        /\ log' = [log EXCEPT ![i] = Append(@, entry)]
        /\ UNCHANGED <<electionVars, leaderVars, commitIndex, applied, killed,
                       voteRPCs, appendReplies>>
        /\ appendCalls' = appendCalls \cup
             broadcastHeartbeats(i, currentTerm[i], log'[i], nextIndex[i])

\* Mutant: an entry of another term at the same index is taken for the same.
ConflictsLengthOnly(l, prev, entries) == {k \in 1..Len(entries) : prev + k > Len(l)}
\* The positions of entries whose copy in l is missing or of another term.
Conflicts(l, prev, entries) ==
    {k \in 1..Len(entries) : prev + k > Len(l) \/ l[prev + k].term # entries[k].term}

\* Mutant: the log always ends with the entries of the call.
AppendNewTruncates(l, prev, entries) == SubSeq(l, 1, prev) \o entries
\* The log after the append loop of AppendEntries: entries already there are
\* kept, from the first conflict on they are replaced.
AppendNew(l, prev, entries) ==
    LET C == Conflicts(l, prev, entries)
    IN  IF C = {} THEN l
        ELSE [k \in 1..(prev + Len(entries)) |->
                IF \A c \in C : k < prev + c THEN l[k] ELSE entries[k - prev]]

\* The consistency check of AppendEntries.
PrevMatches(m, l) ==
    m.prevLogIndex <= Len(l) /\ TermAt(l, m.prevLogIndex) = m.prevLogTerm

\* Mutant: the leader's commit index is taken over even when it is behind.
FollowerCommitAlways(m, l, commit) ==
    IF m.leaderCommit < Len(l) THEN m.leaderCommit ELSE Len(l)
\* Mutant: the dummy entry is counted twice at the end of the log.
FollowerCommitOneShort(m, l, commit) ==
    IF m.leaderCommit <= commit THEN commit
    ELSE IF m.leaderCommit < Len(l) THEN m.leaderCommit ELSE Len(l) - 1
\* What the follower's commit index becomes.
FollowerCommit(m, l, commit) ==
    IF m.leaderCommit <= commit THEN commit
    ELSE IF m.leaderCommit < Len(l) THEN m.leaderCommit ELSE Len(l)

\* Mutant: the index after the last entry sent is reported.
AppendReplyOnePast(m, term, success) ==
    [from |-> m.from, to |-> m.to, term |-> m.term,
     replyTerm |-> term, success |-> success,
     match |-> IF success THEN m.prevLogIndex + Len(m.entries) + 1 ELSE 0]
\* Mutant: the index before the last entry sent is reported.
AppendReplyOneShort(m, term, success) ==
    [from |-> m.from, to |-> m.to, term |-> m.term,
     replyTerm |-> term, success |-> success,
     match |-> IF success THEN m.prevLogIndex + Len(m.entries) - 1 ELSE 0]
\* What the goroutine of a call has once it is answered: the reply, and the end of
\* what it sent, from which it works out nextIndex and matchIndex.
AppendReply(m, term, success) ==
    [from |-> m.from, to |-> m.to, term |-> m.term,
     replyTerm |-> term, success |-> success,
     match |-> IF success THEN m.prevLogIndex + Len(m.entries) ELSE 0]

\* The handler at the peer m.to, for a call of an older term.
AppendEntriesStale(m) ==
    /\ m.term < currentTerm[m.to]
    /\ appendReplies' = appendReplies \cup {AppendReply(m, currentTerm[m.to], FALSE)}
    /\ UNCHANGED <<electionVars, leaderVars, logVars, killed, voteRPCs, appendCalls>>

\* The handler at the peer m.to, for a call of its own or a newer term.
AppendEntries(m) ==
    LET j      == m.to
        newLog == AppendNew(log[j], m.prevLogIndex, m.entries)
        accept == PrevMatches(m, log[j])
    IN  /\ m.term >= currentTerm[j]
        /\ currentTerm' = [currentTerm EXCEPT ![j] = m.term]
        /\ votedFor' = [votedFor EXCEPT ![j] = IF m.term > currentTerm[j] THEN Nil ELSE @]
        /\ role' = [role EXCEPT ![j] = "Follower"]
        /\ appendReplies' = appendReplies \cup {AppendReply(m, m.term, accept)}
        /\ \/ /\ ~accept
              /\ UNCHANGED logVars
           \/ /\ accept
              /\ log' = [log EXCEPT ![j] = newLog]
              /\ applyLogs(j, newLog, FollowerCommit(m, newLog, commitIndex[j]))
        /\ UNCHANGED <<votesReceived, leaderVars, killed, voteRPCs, appendCalls>>

\* Mutant: a peer counts for N when it stores the entry before N.
CommittableOneEarly(i, match) ==
    {N \in (commitIndex[i] + 1)..Len(log[i]) :
        /\ log[i][N].term = currentTerm[i]
        /\ IsMajority({i} \cup {j \in Peers(i) : match[j] >= N - 1})}
\* checkAdvanceCommitIndex: the last entry of the leader's own term that a
\* majority stores, if it is beyond the commit index.
Committable(i, match) ==
    {N \in (commitIndex[i] + 1)..Len(log[i]) :
        /\ log[i][N].term = currentTerm[i]
        /\ IsMajority({i} \cup {j \in Peers(i) : match[j] >= N})}

checkAdvanceCommitIndex(i, match) ==
    LET C == Committable(i, match)
    IN  \/ C = {} /\ UNCHANGED <<commitIndex, applied>>
        \/ \E N \in C : (\A M \in C : M <= N) /\ applyLogs(i, log[i], N)

\* The leader handles a reply to a call of the term it still leads.
AppendEntriesReplied(m) ==
    LET i == m.from
        j == m.to
    IN  /\ role[i] = "Leader" /\ currentTerm[i] = m.term
        /\ \/ /\ m.replyTerm > currentTerm[i]
              /\ becomeFollower(i, m.replyTerm)
              /\ UNCHANGED <<leaderVars, commitIndex, applied>>
           \/ /\ m.replyTerm <= currentTerm[i] /\ m.success
              /\ nextIndex' = [nextIndex EXCEPT ![i][j] = m.match + 1]
              /\ matchIndex' = [matchIndex EXCEPT ![i][j] = m.match]
              /\ checkAdvanceCommitIndex(i, matchIndex'[i])
              /\ UNCHANGED <<currentTerm, votedFor, role>>
           \/ /\ m.replyTerm <= currentTerm[i] /\ ~m.success
              /\ nextIndex[i][j] > 1
              /\ nextIndex' = [nextIndex EXCEPT ![i][j] = @ - 1]
              /\ UNCHANGED <<currentTerm, votedFor, role, matchIndex, commitIndex, applied>>
        /\ UNCHANGED <<log, votesReceived, killed, voteRPCs, appendRPCs>>

\* Kill stops the timers and nothing else: the handlers go on answering.
Kill(i) ==
    /\ ~killed[i]
    /\ Cardinality({j \in Server : killed[j]}) < MaxKills
    /\ killed' = [killed EXCEPT ![i] = TRUE]
    /\ UNCHANGED <<electionVars, leaderVars, logVars, voteRPCs, appendRPCs>>
-----------------------------------------------------------------------------
Next ==
    \/ \E i \in Server : runElectionLoop(i)
    \/ \E i \in Server : runHeartbeatLoop(i)
    \/ \E i \in Server, v \in Value : Submit(i, v)
    \/ \E i \in Server : Kill(i)
    \/ \E m \in voteCalls, j \in Server : RequestVote(m, j)
    \/ \E m \in voteReplies : RequestVoteReplied(m)
    \/ \E m \in appendCalls : AppendEntriesStale(m)
    \/ \E m \in appendCalls : AppendEntries(m)
    \/ \E m \in appendReplies : AppendEntriesReplied(m)

Spec == Init /\ [][Next]_vars

(* Fairness: the timer goroutines keep ticking, the transport delivers the   *)
(* calls a leader is sending now, and the goroutines that wait for a reply   *)
(* get to handle it.  The first two are strong: a reply of an old call may   *)
(* be handled again and again here, and take nextIndex back each time, while *)
(* the program has finitely many old calls; it cannot be kept for ever from  *)
(* the states in which the next call is sent or delivered.                   *)
DeliverFresh(i, j) ==
    \E m \in appendCalls :
        /\ role[i] = "Leader" /\ m.from = i /\ m.to = j
        /\ m \in broadcastHeartbeats(i, currentTerm[i], log[i], nextIndex[i])
        /\ AppendEntriesStale(m) \/ AppendEntries(m)
ReplySuccess(i, j) ==
    \E m \in appendReplies : m.from = i /\ m.to = j /\ m.success
                              /\ m.match = Len(log[i]) /\ AppendEntriesReplied(m)
ReplyFailure(i, j) ==
    \E m \in appendReplies : m.from = i /\ m.to = j /\ ~m.success /\ AppendEntriesReplied(m)
Fairness ==
    \A i \in Server :
        /\ SF_vars(runHeartbeatLoop(i))
        /\ \A j \in Peers(i) :
            /\ SF_vars(DeliverFresh(i, j))
            /\ WF_vars(ReplySuccess(i, j))
            /\ WF_vars(ReplyFailure(i, j))
FairSpec == Spec /\ Fairness
-----------------------------------------------------------------------------
(* What consensus promises. *)

\* Election safety: a term has at most one leader, ever.  becomeLeader
\* broadcasts at once, so the calls sent name every leader there has been.
\* Two candidates that count replies at the same time, and replies that come
\* after the node has moved on, must not break it.
ElectionSafety ==
    /\ \A i, j \in Server : role[i] = "Leader" /\ role[j] = "Leader"
                             /\ currentTerm[i] = currentTerm[j] => i = j
    /\ \A m1, m2 \in appendCalls : m1.term = m2.term => m1.from = m2.from

\* Log matching: two logs with an entry of the same term at the same index
\* are identical up to it, whatever the append loop of AppendEntries kept or
\* truncated on the way.
LogMatching ==
    \A i, j \in Server :
        \A k \in DOMAIN log[i] \cap DOMAIN log[j] :
            log[i][k].term = log[j][k].term
                => SubSeq(log[i], 1, k) = SubSeq(log[j], 1, k)

\* State machine safety: no two nodes ever send different commands on applyCh
\* at the same index.
StateMachineSafety ==
    \A i, j \in Server :
        \A k \in DOMAIN applied[i] \cap DOMAIN applied[j] : applied[i][k] = applied[j][k]

\* Leader completeness: a leader holds every entry committed by a node that
\* is not ahead of its term.
LeaderCompleteness ==
    \A i, j \in Server :
        role[i] = "Leader" /\ currentTerm[i] >= currentTerm[j]
            => /\ Len(applied[j]) <= Len(log[i])
               /\ \A k \in DOMAIN applied[j] : log[i][k] = applied[j][k]

\* An entry committed anywhere stays on a majority of the nodes, so the loss
\* of a minority cannot lose it.
CommittedOnMajority ==
    \A i \in Server :
        \A k \in 1..commitIndex[i] :
            IsMajority({j \in Server : k <= Len(log[j]) /\ log[j][k] = applied[i][k]})

\* What a node has applied is still the front of its own log: AppendEntries
\* never truncates a committed entry, and applyLogs never indexes past the log.
AppliedInLog ==
    \A i \in Server : /\ commitIndex[i] <= Len(log[i])
                      /\ applied[i] = SubSeq(log[i], 1, commitIndex[i])

\* A leader's matchIndex is never ahead of what the peer stores: as long as the
\* peer is in the leader's term the logs agree up to it, however late or out
\* of order the replies were handled.
MatchIndexSound ==
    \A i, j \in Server :
        role[i] = "Leader" /\ i # j /\ currentTerm[j] = currentTerm[i]
            => /\ matchIndex[i][j] <= Len(log[i]) /\ matchIndex[i][j] <= Len(log[j])
               /\ SubSeq(log[i], 1, matchIndex[i][j]) = SubSeq(log[j], 1, matchIndex[i][j])

\* broadcastHeartbeats indexes log[nextIndex-1]: the index is always there.
NextIndexInBounds ==
    \A i, j \in Server :
        role[i] = "Leader" /\ i # j => nextIndex[i][j] \in 1..(Len(log[i]) + 1)

\* A call never announces a commit index beyond the entries it carries.  The
\* follower bounds LeaderCommit by the length of its whole log, not by the last
\* entry of the call, and is right only because of this.
CommitWithinCall ==
    \A m \in appendCalls : m.leaderCommit <= m.prevLogIndex + Len(m.entries)

\* A heartbeat delivered late never takes a commit index back.
CommitMonotonic ==
    [][\A i \in Server : commitIndex'[i] >= commitIndex[i]]_vars

\* A command a leader has accepted is committed on every node, unless the
\* leader is deposed or killed first.  Stale replies may take nextIndex and
\* matchIndex back, and only a heartbeat repairs them.
AcceptedIsCommitted ==
    \A i \in Server, k \in 1..MaxLog :
        (/\ role[i] = "Leader" /\ ~killed[i]
         /\ k <= Len(log[i]) /\ TermAt(log[i], k) = currentTerm[i])
            ~> \/ \A j \in Server : commitIndex[j] >= k
               \/ role[i] # "Leader" \/ killed[i]
=============================================================================
