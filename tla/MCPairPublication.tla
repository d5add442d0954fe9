------------------------- MODULE MCPairPublication -------------------------
(* One pair of outputs, S and R1. *)
EXTENDS PairPublication, TLC

CONSTANTS S, R1, P1

MCSummaryOf == (P1 :> S)
MCReportOf  == (P1 :> R1)
=============================================================================
