-------------------------- MODULE RadianceRaftNode --------------------------
(***************************************************************************)
(* Every node of RadianceRaft implements NodeLog, the view of it that the  *)
(* daemon has.                                                             *)
(***************************************************************************)
EXTENDS RadianceRaft

Node(i) == INSTANCE NodeLog WITH
    leads <- role[i] = "Leader", log <- log[i], commitIndex <- commitIndex[i]

\* Whatever the cluster does, each node's log and commit index move as NodeLog
\* allows: a committed entry is never replaced, a leader's own log only grows, and
\* entries give way only to others.
ImplementsNodeLog == [][\A i \in Server : Node(i)!NodeLogNext]_vars
=============================================================================
