---------------------------- MODULE AtomicPairs ----------------------------
(***************************************************************************)
(* What the analyzer promises of its output files: a run publishes its     *)
(* summary and its report together or not at all, whatever other run uses  *)
(* one of the two files.  A version is a positive number; Absent stands    *)
(* for a file that does not exist.                                         *)
(***************************************************************************)
EXTENDS Naturals

CONSTANTS Outputs,     \* the output files
          Pairs,       \* the pairs of files runs of the analyzer publish
          SummaryOf,   \* SummaryOf[p] is the summary file of pair p
          ReportOf     \* ReportOf[p] is its report file

Absent == 0

VARIABLE value   \* value[o] is the version a reader of o may rely on

Init == value \in [Outputs -> Nat]

(* A run publishes version v of both files of the pair p in one step. *)
Publish(p) ==
  LET v == value'[SummaryOf[p]]
  IN  /\ v # Absent
      /\ v # value[SummaryOf[p]]
      /\ v # value[ReportOf[p]]
      /\ value' = [value EXCEPT ![SummaryOf[p]] = v, ![ReportOf[p]] = v]

Next == \E p \in Pairs : Publish(p)

Spec == Init /\ [][Next]_value
=============================================================================
