---------------------------- MODULE MCOutputLocks ----------------------------
(***************************************************************************)
(* Four outputs of one case-insensitive directory.  The lock paths of A    *)
(* and C differ only by case, so they are one entry; the names of B and D  *)
(* agree on their first 96 bytes, so they have one lock path.  (A, B) and  *)
(* (B, C) open their two entries in opposite orders.                       *)
(***************************************************************************)
EXTENDS OutputLocks, TLC

CONSTANTS A, B, C, D, EA, EB

MCTargets  == {{A, B}, {B, C}, {A, C}, {B, D}}
MCLockPath == (A :> 1) @@ (B :> 2) @@ (C :> 3) @@ (D :> 2)
MCEntryOf  == (1 :> EA) @@ (2 :> EB) @@ (3 :> EA)
=============================================================================
