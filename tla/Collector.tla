----------------------------- MODULE Collector ------------------------------
(***************************************************************************)
(* One Neovim's collector (collector.lua) and the write and finish of its  *)
(* session file (storage.lua): typed keys are aggregated into events,      *)
(* events wait in a bounded queue, and a deferred function, a pause, a     *)
(* stop or a flush writes the queue to the file.                           *)
(*                                                                         *)
(* Lua runs one callback, command or deferred function at a time, so each  *)
(* is one step; what interleaves is their order.  An operation on the      *)
(* collector is a set of outcomes: the object afterwards, and whether it   *)
(* returned ("done"), returned false ("refused") or raised an error, which *)
(* leaves every assignment made so far in place.                           *)
(***************************************************************************)
EXTENDS EventLog

CONSTANTS Modes,              \* the editor modes a key is typed in
          Buckets,            \* the pairs of text-input mode and control key
          MaxPending,         \* MAX_PENDING_EVENTS
          MaxSequenceKeys,    \* collection.max_sequence_keys
          MaxBuckets,         \* MAX_CONTROL_KEY_BUCKETS
          MaxKeys, MaxCalls, MaxFaults, MaxSessions,   \* bounds on what may happen
          None

SequenceModes == Modes \cap {"normal", "visual", "operator_pending"}

ASSUME CollectorAssumption ==
  /\ Modes \subseteq {"normal", "visual", "operator_pending", "insert", "command", "search", "other"}
  /\ Buckets \subseteq Nat \ {0} /\ IsFiniteSet(Buckets)
  /\ MaxPending \in Nat \ {0} /\ MaxSequenceKeys \in Nat \ {0}
  /\ MaxBuckets \in 0..MaxPending       \* both are 1024: a queue with nothing in it takes all buckets
  /\ MaxKeys \in Nat /\ MaxCalls \in Nat /\ MaxFaults \in Nat /\ MaxSessions \in Nat
  /\ None \notin Modes /\ None \notin Seq(Event(0..MaxSessions))

VARIABLES col,     \* the collector and its session writer
          logs,    \* the session logs published, in order
          pressed, \* the keys the callback was called with so far are 1..pressed
          calls,   \* pauses, starts, stops and flushes so far
          next_session   \* session IDs are drawn fresh

vars == <<col, logs, pressed, calls, next_session>>

Errors == {"none", "limit", "control_limit", "write", "callback", "raised"}
Ids    == 0..MaxSessions

(* pending: the encoded events not yet written; sequence, text and control  *)
(* hold the keys not yet in an event; scheduled is _flush_scheduled, and    *)
(* deferred the epochs of the deferred writes that have yet to run.         *)
(* payload, consumed and file are the writer's: the batch it is in the      *)
(* middle of, how much of it is written, and the partial file.              *)
NoInput   == [sequence |-> {}, text |-> {}, control |-> [b \in Buckets |-> {}]]

ColState ==
  [state : {"stopped", "recording", "paused", "stopping"}, error : Errors, session : Ids,
   last_mode : Modes \cup {None}, pending : Seq(Event(Ids)),
   input : [sequence : SUBSET Nat, text : SUBSET Nat, control : [Buckets -> SUBSET Nat]],
   in_callback : BOOLEAN, end_queued : BOOLEAN, epoch : Nat, scheduled : BOOLEAN,
   deferred : SUBSET Nat, payload : {None} \cup Seq(Event(Ids)), consumed : Nat,
   file : Seq(Event(Ids)), published : BOOLEAN, faults : 0..MaxFaults]

(* Besides the types: the queue stays within its limit, an unfinished batch *)
(* has something left to write, and a stopped collector holds nothing.      *)
TypeOK ==
  /\ col \in ColState /\ ~col.in_callback
  /\ Len(col.pending) <= MaxPending
  /\ IF col.payload = None THEN col.consumed = 0 ELSE col.consumed \in 0..Len(col.payload) - 1
  /\ col.state = "stopped" => /\ col.pending = <<>> /\ col.payload = None
                              /\ col.input = NoInput /\ ~col.scheduled
  /\ pressed \in 0..MaxKeys /\ calls \in 0..MaxCalls
  /\ next_session \in 1..MaxSessions + 1

-----------------------------------------------------------------------------
(* Outcomes *)

Done(c)    == [col |-> c, end |-> "done"]
Refused(c) == [col |-> c, end |-> "refused"]
Raised(c)  == [col |-> c, end |-> "raised"]

(* Go on where the code checks what an operation returns ... *)
Then(outcomes, Next(_)) ==
  UNION {IF o.end = "done" THEN Next(o.col) ELSE {o} : o \in outcomes}
(* ... and where it ignores it. *)
Anyway(outcomes, Next(_)) ==
  UNION {IF o.end # "raised" THEN Next(o.col) ELSE {o} : o \in outcomes}

(* A call into Neovim or the file system, which may fail. *)
MayFail(c) ==
  {Done(c)} \cup (IF c.faults > 0 THEN {Raised([c EXCEPT !.faults = @ - 1])} ELSE {})

-----------------------------------------------------------------------------
(* The queue and the session writer *)

Ev(c, kind, keys) == [kind |-> kind, session |-> c.session, keys |-> keys]

(* A mutant: a retry writes the whole batch again. *)
WriteAgain(c) ==
  LET batch == IF c.payload = None THEN c.pending ELSE c.payload
  IN  IF batch # c.pending THEN {Raised(c)}
      ELSE {Done([c EXCEPT !.file = @ \o batch, !.payload = None, !.consumed = 0])}
           \cup {Raised([c EXCEPT !.file = @ \o SubSeq(batch, 1, n), !.payload = batch,
                                  !.consumed = n, !.faults = @ - 1]) :
                   n \in {m \in 0..Len(batch) - 1 : c.faults > 0}}

(* SessionStorage:write.  A write that fails has written some of the batch; *)
(* the next call goes on from there and insists on the same batch.          *)
Write(c) ==
  LET batch == IF c.payload = None THEN c.pending ELSE c.payload
      rest  == SubSeq(batch, c.consumed + 1, Len(batch))
  IN  IF batch # c.pending THEN {Raised(c)}
      ELSE {Done([c EXCEPT !.file = @ \o rest, !.payload = None, !.consumed = 0])}
           \cup {Raised([c EXCEPT !.file = @ \o SubSeq(rest, 1, n), !.payload = batch,
                                  !.consumed = @ + n, !.faults = @ - 1]) :
                   n \in {m \in 0..Len(rest) - 1 : c.faults > 0}}

(* A mutant: the queue is cleared before the batch is written. *)
WriteCleared(c) ==
  IF c.pending = <<>> THEN {Done(c)}
  ELSE {[o EXCEPT !.col.pending = <<>>] : o \in Write(c)}

WritePending(c) ==
  IF c.pending = <<>> THEN {Done(c)}
  ELSE Then(Write(c), LAMBDA d : {Done([d EXCEPT !.pending = <<>>])})

(* At the limit the batch is dropped, and the open sequence and text with it. *)
OverLimit(c) == [c EXCEPT !.error = "limit", !.input.sequence = {}, !.input.text = {}]

SchedulePendingWrite(c) ==
  IF c.scheduled THEN c
  ELSE [c EXCEPT !.scheduled = TRUE, !.deferred = @ \cup {c.epoch}]

(* A mutant: the limit is compared with the queue as it was. *)
QueuePastLimit(c, events) ==
  IF c.in_callback /\ c.error # "none" THEN {Refused(c)}
  ELSE IF Len(c.pending) > MaxPending THEN {Refused(OverLimit(c))}
  ELSE LET queued == [c EXCEPT !.pending = @ \o events]
       IN  IF c.in_callback THEN {Done(SchedulePendingWrite(queued))} ELSE WritePending(queued)

QueueMany(c, events) ==
  IF c.in_callback /\ c.error # "none" THEN {Refused(c)}
  ELSE IF Len(c.pending) + Len(events) > MaxPending THEN {Refused(OverLimit(c))}
  ELSE LET queued == [c EXCEPT !.pending = @ \o events]
       IN  IF c.in_callback THEN {Done(SchedulePendingWrite(queued))} ELSE WritePending(queued)

Queue(c, kind, keys) == QueueMany(c, <<Ev(c, kind, keys)>>)

-----------------------------------------------------------------------------
(* From keys to events *)

EmitSequence(c) ==
  IF c.input.sequence = {} THEN {Done(c)}
  ELSE Queue([c EXCEPT !.input.sequence = {}], "key_sequence", c.input.sequence)

EmitTextRun(c) ==
  IF c.input.text = {} THEN {Done(c)}
  ELSE Queue([c EXCEPT !.input.text = {}], "text_run", c.input.text)

HeldBuckets(c) == {b \in Buckets : c.input.control[b] # {}}

Ascending(S) ==
  CHOOSE s \in [1..Cardinality(S) -> S] :
    Range(s) = S /\ \A i, j \in DOMAIN s : i < j => s[i] < s[j]

(* In a callback one place is kept for the mode transition that follows, so *)
(* only some of the buckets may fit; those queued are cleared.              *)
Room(c) == MaxPending - Len(c.pending) - (IF c.in_callback THEN 1 ELSE 0)

Batch(c) ==
  LET held == Ascending(HeldBuckets(c))
  IN  SubSeq(held, 1, IF Room(c) < Len(held) THEN Room(c) ELSE Len(held))

Counts(c) ==
  [i \in DOMAIN Batch(c) |-> Ev(c, "control_key_use", c.input.control[Batch(c)[i]])]

EmitControlKeys(c) ==
  LET Cleared(d) == [d EXCEPT !.input.control =
                       [b \in Buckets |-> IF b \in ToSet(Batch(c)) THEN {} ELSE @[b]]]
  IN  IF HeldBuckets(c) = {} THEN {Done(c)}
      ELSE IF Len(c.pending) >= MaxPending THEN {Refused(OverLimit(c))}
      ELSE IF Room(c) = 0 THEN {Done(c)}
      ELSE Then(QueueMany(c, Counts(c)), LAMBDA d : {Done(Cleared(d))})

FlushInput(c) ==
  LET sequence == {IF o.end = "refused" THEN Refused([o.col EXCEPT !.input.text = {}]) ELSE o :
                     o \in EmitSequence(c)}
  IN  Then(Then(sequence, EmitTextRun), EmitControlKeys)

(* late: the key came after sequence_timeout_ms. *)
RecordSequence(c, k, late) ==
  LET Add(d) == {Done([d EXCEPT !.input.sequence = @ \cup {k}])}
      full   == late \/ Cardinality(c.input.sequence) >= MaxSequenceKeys
  IN  IF full THEN Then(EmitSequence(c), Add) ELSE Add(c)

RecordTextKeys(c, k) == [c EXCEPT !.input.text = @ \cup {k}]

(* bucket is None unless the key is a control key and they are captured. *)
RecordControlKeys(c, k, bucket) ==
  IF bucket = None THEN c
  ELSE IF c.input.control[bucket] = {} /\ Cardinality(HeldBuckets(c)) >= MaxBuckets
  THEN [c EXCEPT !.error = "control_limit"]
  ELSE [c EXCEPT !.input.control[bucket] = @ \cup {k}]

(* resolved: the key completes exactly one mapping that mapping_resolver knows. *)
RecordMappingUse(c, k, resolved) ==
  IF resolved THEN Queue(c, "mapping_use", {k}) ELSE {Done(c)}

-----------------------------------------------------------------------------
(* The on_key callback *)

EnterMode(c, mode) ==
  LET entered == [c EXCEPT !.last_mode = mode]
  IN  IF c.last_mode \in {None, mode} THEN {Done(entered)}
      ELSE Then(FlushInput(entered), LAMBDA d : Queue(d, "mode_transition", {}))

(* A key k of a callback whose typed string is empty is no key at all; one  *)
(* that counts is first translated by Neovim.                               *)
Record(c, mode, k, in) ==
  IF in.typed /\ mode \in SequenceModes
  THEN Then(Then(MayFail(c), LAMBDA d : RecordSequence(d, k, in.late)),
            LAMBDA d : RecordMappingUse(d, k, in.resolved))
  ELSE IF in.typed /\ mode = "insert"
  THEN Then(MayFail(c), LAMBDA d : {Done(RecordControlKeys(RecordTextKeys(d, k), k, in.bucket))})
  ELSE {Done(c)}

Leave(c) == [c EXCEPT !.last_mode = None]

(* The buffer and the mode are read first, from Neovim. *)
HandleKey(c, k, in) ==
  IF in.excluded THEN Then(MayFail(c), LAMBDA d : FlushInput(Leave(d)))
  ELSE Then(Then(MayFail(c), LAMBDA d : EnterMode(d, in.mode)),
            LAMBDA d : Record(d, in.mode, k, in))

(* A field that plays no part has one value. *)
Input ==
  {in \in [mode : Modes, excluded : BOOLEAN, typed : BOOLEAN, late : BOOLEAN,
           resolved : BOOLEAN, bucket : Buckets \cup {None}] :
     /\ in.excluded => ~in.typed
     /\ ~in.typed => ~in.late /\ ~in.resolved /\ in.bucket = None
     /\ in.mode \notin SequenceModes => ~in.late /\ ~in.resolved
     /\ in.mode # "insert" => in.bucket = None}

(* An error inside the callback must not reach Neovim: it is recorded, and  *)
(* input is ignored until the collector is started again.                   *)
OnKey ==
  /\ col.state = "recording" /\ col.error = "none"
  /\ pressed < MaxKeys
  /\ pressed' = pressed + 1
  /\ \E in \in Input : \E o \in HandleKey([col EXCEPT !.in_callback = TRUE], pressed', in) :
       col' = [o.col EXCEPT !.in_callback = FALSE,
                            !.error = IF o.end = "raised" THEN "callback" ELSE @]
  /\ UNCHANGED <<logs, calls, next_session>>

-----------------------------------------------------------------------------
(* The deferred write *)

RunDeferred(epoch) ==
  /\ epoch \in col.deferred
  /\ LET c == [col EXCEPT !.deferred = @ \ {epoch}]
         d == [c EXCEPT !.scheduled = FALSE]
     IN  IF epoch # c.epoch THEN col' = c
         ELSE IF c.state # "recording" \/ c.error # "none" THEN col' = d
         ELSE \E o \in WritePending(d) :
                col' = [o.col EXCEPT !.error = IF o.end = "raised" THEN "write" ELSE @]
  /\ UNCHANGED <<logs, pressed, calls, next_session>>

-----------------------------------------------------------------------------
(* Commands *)

(* fsync of the session file, unless it is closed already. *)
Sync(c) == IF c.published THEN {Done(c)} ELSE MayFail(c)

FlushAll(c) == Then(Anyway(Then(WritePending(c), FlushInput), WritePending), Sync)

(* The result of a command on col: an error is recorded only where the      *)
(* command says so, and reported to the user in any case.                   *)
Ends(outcomes, Success(_)) ==
  \E o \in outcomes :
    col' = IF o.end = "raised" THEN [o.col EXCEPT !.error = "raised"] ELSE Success(o.col)

Call == calls < MaxCalls /\ calls' = calls + 1

(* Registering the callback is the last step of start that can fail. *)
Recording(c) == [c EXCEPT !.state = "recording", !.error = "none"]

(* A mutant: the deferred write of the old session counts for the next one. *)
ResetButScheduled(c) ==
  [c EXCEPT !.state = "stopped", !.session = 0, !.last_mode = None, !.pending = <<>>,
            !.input = NoInput, !.end_queued = FALSE, !.epoch = @ + 1,
            !.payload = None, !.consumed = 0, !.file = <<>>, !.published = FALSE]

Reset(c) ==
  [c EXCEPT !.state = "stopped", !.session = 0, !.last_mode = None, !.pending = <<>>,
            !.input = NoInput, !.end_queued = FALSE, !.epoch = @ + 1, !.scheduled = FALSE,
            !.payload = None, !.consumed = 0, !.file = <<>>, !.published = FALSE]

(* A start that fails leaves no file behind. *)
Start ==
  /\ Call
  /\ col.state = "stopped" /\ next_session <= MaxSessions
  /\ next_session' = next_session + 1
  /\ \E o \in Then(Then(Queue([col EXCEPT !.session = next_session], "session_start", {}),
                        FlushAll), MayFail) :
       col' = IF o.end = "raised" THEN [Reset(o.col) EXCEPT !.error = "raised"]
              ELSE Recording(o.col)
  /\ UNCHANGED <<logs, pressed>>

Resume ==
  /\ Call
  /\ col.state = "paused"
  /\ Ends(Then(FlushAll(col), MayFail), LAMBDA c : Recording(Leave(c)))
  /\ UNCHANGED <<logs, pressed, next_session>>

Pause ==
  /\ Call
  /\ col.state = "recording"
  /\ Ends(FlushAll([col EXCEPT !.state = "paused"]), Leave)
  /\ UNCHANGED <<logs, pressed, next_session>>

(* SessionStorage:finish fails before or after the rename that publishes;   *)
(* SessionDirectory has its steps.                                          *)
Finish(c) ==
  LET published == [c EXCEPT !.published = TRUE]
  IN  MayFail(published) \cup {o \in MayFail(c) : o.end = "raised"}

(* A mutant: session_end counts as queued only once it is written. *)
EndSessionOnceWritten(c) ==
  IF c.end_queued THEN {Done(c)}
  ELSE Anyway(FlushInput(c), LAMBDA d : Then(Queue(d, "session_end", {}),
                                             LAMBDA e : {Done([e EXCEPT !.end_queued = TRUE])}))

EndSession(c) ==
  IF c.end_queued THEN {Done(c)}
  ELSE Anyway(FlushInput(c), LAMBDA d : Queue([d EXCEPT !.end_queued = TRUE], "session_end", {}))

(* Whatever fails, the next stop goes on from there. *)
Stop ==
  /\ Call
  /\ col.state # "stopped"
  /\ LET begun  == Leave([col EXCEPT !.state = "stopping"])
         ended  == Anyway(Then(WritePending(begun), EndSession), FlushAll)
     IN  \E o \in Then(ended, Finish) :
           /\ col' = IF o.end = "raised" THEN [o.col EXCEPT !.error = "raised"]
                     ELSE [Reset(o.col) EXCEPT !.error = "none"]
           /\ logs' = IF o.col.published /\ ~col.published THEN Append(logs, o.col.file) ELSE logs
  /\ UNCHANGED <<pressed, next_session>>

(* require("key-insights").flush(): its error goes to the caller alone. *)
Flush ==
  /\ Call
  /\ col.state # "stopped"
  /\ \E o \in FlushAll(col) : col' = o.col
  /\ UNCHANGED <<logs, pressed, next_session>>

-----------------------------------------------------------------------------
Init ==
  /\ col = [state |-> "stopped", error |-> "none", session |-> 0, last_mode |-> None,
            pending |-> <<>>, input |-> NoInput, in_callback |-> FALSE, end_queued |-> FALSE,
            epoch |-> 0, scheduled |-> FALSE, deferred |-> {}, payload |-> None, consumed |-> 0,
            file |-> <<>>, published |-> FALSE, faults |-> MaxFaults]
  /\ logs = <<>> /\ pressed = 0 /\ calls = 0 /\ next_session = 1

Deferred == \E epoch \in 0..MaxCalls : RunDeferred(epoch)

Next == OnKey \/ Deferred \/ Start \/ Resume \/ Pause \/ Stop \/ Flush

(* vim.schedule: Neovim's event loop runs every deferred function. *)
Spec == Init /\ [][Next]_vars /\ WF_vars(Deferred)

-----------------------------------------------------------------------------
(* Properties *)

(* The keys of an event, each with the kind of the event. *)
Marks(log) == UNION {{<<e.kind, k>> : k \in e.keys} : e \in ToSet(log)}

InMemory(c) ==
  {<<"key_sequence", k>> : k \in c.input.sequence} \cup {<<"text_run", k>> : k \in c.input.text}
  \cup {<<"control_key_use", k>> : k \in UNION Range(c.input.control)}

Kept == InMemory(col) \cup Marks(col.pending) \cup Marks(col.file)
        \cup UNION {Marks(log) : log \in ToSet(logs)}

(* Every log the collector publishes is one the analyzer accepts: it starts *)
(* and ends its session once, and nothing comes after the end, whatever     *)
(* writes failed on the way and however often the user stopped.             *)
PublishedIsValid == Accepted(logs)

(* What is still to be written of the queue goes on where the file ends.    *)
Trail(c) == c.file \o SubSeq(c.pending, c.consumed + 1, Len(c.pending))

Typed(e) == e.kind \in {"key_sequence", "text_run"}

(* A key of a sequence or a text run is written once, in the order typed:   *)
(* retrying a batch that was partly written neither repeats nor skips it,   *)
(* and no event of an open aggregate is overtaken by a later key.           *)
WrittenOnceInOrder ==
  LET trail == Trail(col)
  IN  \A i \in DOMAIN trail : Typed(trail[i]) =>
        /\ \A j \in DOMAIN trail : i < j /\ Typed(trail[j]) =>
             \A k \in trail[i].keys, l \in trail[j].keys : k < l
        /\ \A k \in trail[i].keys, l \in col.input.sequence \cup col.input.text : k < l

(* A key that is once held reaches the file: no failed write, pause, flush, *)
(* deferred call or stop drops it.  The one exception is the queue's limit, *)
(* and then the collector says so.                                          *)
NothingLostSilently == [][Kept \subseteq Kept' \/ col'.error = "limit"]_vars

(* While the collector records, a batch that waits in the queue is written  *)
(* (or the collector reports an error): the deferred write is neither lost  *)
(* when the session before it had one outstanding, nor when the queue is    *)
(* filled and flushed again.  A batch whose write already failed under a    *)
(* public flush is that caller's to retry.                                  *)
Waiting == /\ col.state = "recording" /\ col.error = "none"
           /\ col.pending # <<>> /\ col.payload = None
PendingIsWritten == Waiting ~> ~Waiting

(* docs/collector-lifecycle.md:42, "Retrying after a transient failure      *)
(* neither changes the in-flight batch nor appends a duplicate": a batch    *)
(* whose write failed is what the next write retries, and the press of a    *)
(* control key is counted by one event.                                     *)
RetryIsExact ==
  /\ col.payload # None => col.payload = col.pending
  /\ \A i, j \in DOMAIN col.file :
       i # j /\ col.file[i].kind = "control_key_use" /\ col.file[j].kind = "control_key_use"
         => col.file[i].keys \cap col.file[j].keys = {}
=============================================================================
