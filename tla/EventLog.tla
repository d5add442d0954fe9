------------------------------ MODULE EventLog ------------------------------
(***************************************************************************)
(* What the analyzer accepts as session logs (validator.rs): one validator *)
(* reads all logs of a run, one after the other, and every log must close  *)
(* the session it opens.  Sizes, schema versions, the limit on sessions    *)
(* and times are left out: one clock stamps all events of a session in the *)
(* order they are queued.                                                  *)
(***************************************************************************)
EXTENDS Naturals, FiniteSets, SequencesExt

NoSession == 0

Event(Ids) == [kind : {"session_start", "key_sequence", "text_run", "control_key_use",
                       "mapping_use", "mode_transition", "session_end"},
               session : Ids, keys : SUBSET Nat]

(* JsonlValidator: the open session, the session IDs seen, no error so far. *)
NewValidator == [active |-> NoSession, seen |-> {}, ok |-> TRUE]

ValidPayload(e) == e.kind \in {"key_sequence", "mapping_use", "control_key_use"} => e.keys # {}

(* session_start opens a session whose ID is new; every other event belongs *)
(* to the open session, and session_end closes it.                          *)
ValidEvent(v, e) ==
  /\ ValidPayload(e)
  /\ IF e.kind = "session_start"
     THEN v.active = NoSession /\ e.session \notin v.seen
     ELSE v.active # NoSession /\ v.active = e.session

ValidateEvent(v, e) ==
  IF ~v.ok \/ ~ValidEvent(v, e) THEN [v EXCEPT !.ok = FALSE]
  ELSE IF e.kind = "session_start"
  THEN [v EXCEPT !.active = e.session, !.seen = @ \cup {e.session}]
  ELSE IF e.kind = "session_end" THEN [v EXCEPT !.active = NoSession]
  ELSE v

(* What reading the events of a log one after the other makes of v ... *)
Read(v, log) ==
  LET after[n \in 0..Len(log)] ==
        IF n = 0 THEN v ELSE ValidateEvent(after[n - 1], log[n])
  IN  after[Len(log)]

Consume(v, log) ==
  LET end == Read(v, log)
  IN  [end EXCEPT !.ok = @ /\ end.active = NoSession]

(* ... and what reading the logs of a run one after the other does. *)
Accepted(logs) ==
  LET after[n \in 0..Len(logs)] ==
        IF n = 0 THEN NewValidator ELSE Consume(after[n - 1], logs[n])
  IN  after[Len(logs)].ok
=============================================================================
