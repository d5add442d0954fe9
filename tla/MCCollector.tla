---------------------------- MODULE MCCollector ----------------------------
(* Collector with one mode of each kind: keys go into sequences, into text *)
(* runs and control-key counts, or nowhere.                                *)
EXTENDS Collector

MCModes == {"normal", "insert", "command"}
=============================================================================
