------------------------------- MODULE NodeLog -------------------------------
(***************************************************************************)
(* What one RaftNode promises the daemon around it, as an abstract         *)
(* specification: the log grows under its own leader, another leader       *)
(* replaces entries only above the commit index and only by others, and    *)
(* the commit index never goes back.  RadianceRaftNode shows that every    *)
(* node of RadianceRaft is one; HallownestNode is built on it.             *)
(***************************************************************************)
EXTENDS Integers, Sequences

VARIABLES leads, log, commitIndex

nodeLogVars == <<leads, log, commitIndex>>

Kept(n) == SubSeq(log', 1, n) = SubSeq(log, 1, n)

\* Submit at the leader: one more entry.
Submitted ==
    /\ leads /\ leads'
    /\ Len(log') = Len(log) + 1 /\ Kept(Len(log))
    /\ commitIndex' = commitIndex

\* AppendEntries from another leader: entries are added after a part of the log
\* that has all that is committed, and as much of it is committed.
Replicated ==
    /\ ~leads'
    /\ log' = log \/ \E n \in commitIndex..Len(log) : Len(log') > n /\ Kept(n)
    /\ commitIndex' \in commitIndex..Len(log')

\* A reply lets the leader commit.
Committed ==
    /\ leads /\ leads'
    /\ log' = log
    /\ commitIndex' \in (commitIndex + 1)..Len(log)

\* Elections won and lost.
RoleChanged == UNCHANGED <<log, commitIndex>>

NodeLogNext == Submitted \/ Replicated \/ Committed \/ RoleChanged

NodeLogInit == leads = FALSE /\ log = <<>> /\ commitIndex = 0
=============================================================================
