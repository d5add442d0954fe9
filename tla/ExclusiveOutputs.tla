-------------------------- MODULE ExclusiveOutputs --------------------------
(***************************************************************************)
(* What the publication locks promise: a run that recovers or publishes    *)
(* has every output file it names to itself.                               *)
(***************************************************************************)
CONSTANTS Runs,     \* the runs of the analyzer
          Outputs   \* the output files

VARIABLE inside     \* inside[r]: the outputs r may recover and publish

Init == inside = [r \in Runs |-> {}]

Enter(r) ==
  \E s \in SUBSET Outputs :
    /\ inside[r] = {}
    /\ \A q \in Runs : inside[q] \cap s = {}
    /\ inside' = [inside EXCEPT ![r] = s]

Leave(r) == inside' = [inside EXCEPT ![r] = {}]

Next == \E r \in Runs : Enter(r) \/ Leave(r)

Spec == Init /\ [][Next]_inside
=============================================================================
