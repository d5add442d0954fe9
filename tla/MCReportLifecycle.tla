-------------------------- MODULE MCReportLifecycle --------------------------
(* Small instance of ReportLifecycle: two paths the executable may have. *)
EXTENDS ReportLifecycle, TLC

CONSTANTS b1, b2
=============================================================================
