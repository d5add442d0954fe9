------------------------- MODULE MCSessionDirectory -------------------------
(* SessionDirectory with symmetric processes and process IDs.              *)
EXTENDS SessionDirectory, TLC

Symmetry == Permutations(Procs) \cup Permutations(Pids)
=============================================================================
