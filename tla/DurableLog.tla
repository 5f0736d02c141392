----------------------------- MODULE DurableLog -----------------------------
(***************************************************************************)
(* What a write-ahead log promises its readers: entries are added at the   *)
(* end, a crash takes some of the entries that are not yet durable from    *)
(* the end, and nothing else ever changes.                                 *)
(***************************************************************************)
EXTENDS Naturals, Sequences

CONSTANT Entry

VARIABLES
    entries,    \* what a replay returns
    durable     \* how many of them a crash cannot take

Init == entries = <<>> /\ durable = 0

Write == \E e \in Entry : entries' = Append(entries, e) /\ UNCHANGED durable

Sync == durable' = Len(entries) /\ UNCHANGED entries

Crash ==
    \E n \in durable..Len(entries) :
        /\ entries' = SubSeq(entries, 1, n)
        /\ durable' = n

Spec == Init /\ [][Write \/ Sync \/ Crash]_<<entries, durable>>
=============================================================================
