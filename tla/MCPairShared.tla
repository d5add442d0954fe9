--------------------------- MODULE MCPairShared ----------------------------
(* Two pairs that share their summary: P1 = (S, R1) and P2 = (S, R2). *)
EXTENDS PairPublication, TLC

CONSTANTS S, R1, R2, P1, P2

MCSummaryOf == (P1 :> S) @@ (P2 :> S)
MCReportOf  == (P1 :> R1) @@ (P2 :> R2)
=============================================================================
