------------------------- MODULE RadianceRaftRestart -------------------------
(***************************************************************************)
(* RadianceRaft with nodes that crash and come back.  A restarted process  *)
(* calls NewRaftNode: currentTerm, votedFor and log are fields of the      *)
(* struct and nothing reads them back from disk, so they start over.  The  *)
(* goroutines of the old process are gone, and with them its calls and the *)
(* replies it was waiting for; replies it has given stay with the callers. *)
(***************************************************************************)
EXTENDS RadianceRaft, TLC

CONSTANT MaxRestarts    \* bound: how many nodes may restart

VARIABLE restarts

Symmetry == Permutations(Server)

\* NewRaftNode for a node that was running before.
NewRaftNode(i) ==
    /\ currentTerm' = [currentTerm EXCEPT ![i] = 0]
    /\ votedFor' = [votedFor EXCEPT ![i] = Nil]
    /\ role' = [role EXCEPT ![i] = "Follower"]
    /\ log' = [log EXCEPT ![i] = <<>>]
    /\ commitIndex' = [commitIndex EXCEPT ![i] = 0]
    /\ nextIndex' = [nextIndex EXCEPT ![i] = [j \in Server |-> 0]]
    /\ matchIndex' = [matchIndex EXCEPT ![i] = [j \in Server |-> 0]]
    /\ votesReceived' = [votesReceived EXCEPT ![i] = {}]
    /\ applied' = [applied EXCEPT ![i] = <<>>]
    /\ killed' = [killed EXCEPT ![i] = FALSE]
    /\ voteCalls' = {m \in voteCalls : m.from # i}
    /\ voteReplies' = {m \in voteReplies : m.from # i}
    /\ appendCalls' = {m \in appendCalls : m.from # i}
    /\ appendReplies' = {m \in appendReplies : m.from # i}

Restart(i) ==
    /\ restarts < MaxRestarts
    /\ restarts' = restarts + 1
    /\ NewRaftNode(i)

RestartInit == Init /\ restarts = 0
RestartNext ==
    \/ Next /\ UNCHANGED restarts
    \/ \E i \in Server : Restart(i)
RestartSpec == RestartInit /\ [][RestartNext]_<<vars, restarts>>

\* "A 3-node cluster must survive 1 node crash without losing quorum or
\* committed entries": what a node has applied is in the log of every leader
\* of the same or a later term, one crash or not.
CommittedSurvivesCrash == LeaderCompleteness
=============================================================================
