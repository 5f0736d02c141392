--------------------------- MODULE MCRadianceRaft ---------------------------
(***************************************************************************)
(* RadianceRaft for TLC.  The nodes are interchangeable.  LiveView leaves   *)
(* out what no later step can read: the leader's tables of a node that is  *)
(* not a leader (becomeLeader sets them anew), the vote count of a node    *)
(* that is not a candidate, the content of replies whose caller has left   *)
(* the role or the term they are for, and calls of a past leader that the  *)
(* peer would refuse.  It keeps every leader there has been.               *)
(***************************************************************************)
EXTENDS RadianceRaftNode, TLC

Symmetry == Permutations(Server)

Waiting(m, r) == role[m.from] = r /\ currentTerm[m.from] = m.term

LiveView ==
    <<currentTerm, votedFor, role, logVars, killed, voteCalls,
      [i \in Server |-> IF role[i] = "Leader" THEN <<nextIndex[i], matchIndex[i]>> ELSE <<>>],
      [i \in Server |-> IF role[i] = "Candidate" THEN votesReceived[i] ELSE {}],
      {IF Waiting(m, "Candidate") THEN m
       ELSE [from |-> m.from, to |-> m.to, term |-> m.term] : m \in voteReplies},
      {m \in appendCalls : Waiting(m, "Leader") \/ m.term >= currentTerm[m.to]},
      {m \in appendReplies : Waiting(m, "Leader")},
      {<<m.term, m.from>> : m \in appendCalls}>>
=============================================================================
