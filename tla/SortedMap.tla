------------------------------ MODULE SortedMap ------------------------------
(***************************************************************************)
(* What the MemTable promises: a map from keys to their last record.  One  *)
(* insert is under way at a time; it changes the map at its own key, to    *)
(* its own record, in one step, and does not end before it has.            *)
(***************************************************************************)
CONSTANTS Key, Record, Absent
VARIABLES map, pending

Begin ==
    /\ pending = Absent
    /\ pending' \in [key : Key, record : Record]
    /\ UNCHANGED map

End ==
    /\ pending # Absent
    /\ map' = [map EXCEPT ![pending.key] = pending.record]
    /\ pending' = Absent

Spec ==
    /\ map = [k \in Key |-> Absent] /\ pending = Absent
    /\ [][Begin \/ End]_<<map, pending>>
=============================================================================
