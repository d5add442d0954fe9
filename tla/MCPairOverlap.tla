--------------------------- MODULE MCPairOverlap ---------------------------
(***************************************************************************)
(* Three pairs that share outputs: P1 = (S1, R1), P2 = (S1, R2) and        *)
(* P3 = (S2, R1).  Runs of P2 and P3 hold disjoint locks, and each of them *)
(* recovers one half of an interrupted run of P1 while the other does the  *)
(* same with the other half.                                               *)
(***************************************************************************)
EXTENDS PairPublication, TLC

CONSTANTS S1, S2, R1, R2, P1, P2, P3

MCSummaryOf == (P1 :> S1) @@ (P2 :> S1) @@ (P3 :> S2)
MCReportOf  == (P1 :> R1) @@ (P2 :> R2) @@ (P3 :> R1)
=============================================================================
