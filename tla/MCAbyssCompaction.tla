-------------------------- MODULE MCAbyssCompaction --------------------------
(* AbyssCompaction with three keys; the hashes make the filter answer yes    *)
(* for keys that were not added.                                             *)
EXTENDS AbyssCompaction

MCH1 == (1 :> 3) @@ (2 :> 6) @@ (3 :> 2) @@ (9 :> 5)
MCH2 == (1 :> 1) @@ (2 :> 5) @@ (3 :> 2) @@ (9 :> 3)
=============================================================================
