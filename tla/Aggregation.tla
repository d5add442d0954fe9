---------------------------- MODULE Aggregation ----------------------------
(***************************************************************************)
(* From events to a summary (validator.rs, analyzer.rs, ergonomics.rs).    *)
(* One validator and one accumulator read all logs of a run, event by      *)
(* event.  Ranked lists are the sets of their entries; counters of events  *)
(* do not overflow, sums of times do.                                      *)
(***************************************************************************)
EXTENDS EventLog, Integers

CONSTANTS Order,                 \* tokens, mapping IDs and modes, in the order of their bytes
          Size,                  \* bytes of each
          MaxSessions,           \* MAX_SESSIONS_PER_LOG
          MaxDistinctItems, MaxRetainedTokenBytes, MaxRankedItems, MaxCandidates,
          MinSessions, MinSequenceKeys, MinObservations,  \* MIN_CANDIDATE_*
          MaxTime                \* u64::MAX milliseconds

Token == DOMAIN Size

ASSUME AggregationConstants ==
  /\ Order \in Seq(Token) /\ ToSet(Order) = Token /\ Size \in [Token -> Nat]
  /\ {MaxSessions, MaxDistinctItems, MaxRetainedTokenBytes, MaxRankedItems, MaxCandidates,
      MinSessions, MinSequenceKeys, MinObservations, MaxTime} \subseteq Nat
  /\ MinObservations > 0

Position(x) == CHOOSE i \in DOMAIN Order : Order[i] = x
Less(x, y) == Position(x) < Position(y)

NoError == "none"
NoSnapshot == [present |-> FALSE, mappings |-> <<>>]
Empty == <<>>
With(f, k, v) == [x \in DOMAIN f \cup {k} |-> IF x = k THEN v ELSE f[x]]
Tally(f, k, n) == With(f, k, IF k \in DOMAIN f THEN f[k] + n ELSE n)
TallyPair(f, k, n) == With(f, k, IF k \in DOMAIN f THEN <<f[k][1] + 1, f[k][2] + n>> ELSE <<1, n>>)
CountOf(f, k) == IF k \in DOMAIN f THEN f[k] ELSE 0

(***************************************************************************)
(* Validation: EventLog, with times and the limit on sessions.             *)
(***************************************************************************)
NewReader == [log |-> NewValidator, elapsed |-> 0, events |-> 0]

(* What EventLog sees of an event: empty payloads and zero counts are malformed. *)
Shape(e) ==
  [kind |-> e.kind, session |-> e.session,
   keys |-> CASE e.kind \in {"key_sequence", "mapping_use"} -> ToSet(e.keys)
              [] e.kind = "control_key_use" /\ e.count > 0   -> {e.key}
              [] OTHER                                       -> {}]

ValidTimes(v, e) ==
  /\ IF e.kind = "session_start" THEN e.elapsed = 0 ELSE e.elapsed >= v.elapsed
  /\ e.kind = "key_sequence" => e.duration <= e.elapsed

ReadEvent(v, e) ==
  IF ValidTimes(v, e) /\ (e.kind = "session_start" => Cardinality(v.log.seen) < MaxSessions)
  THEN [log |-> ValidateEvent(v.log, Shape(e)), elapsed |-> e.elapsed, events |-> v.events + 1]
  ELSE [v EXCEPT !.log.ok = FALSE]

(***************************************************************************)
(* The accumulator and its shared budget.                                  *)
(***************************************************************************)
NewAccumulator ==
  [error |-> NoError, retained_token_bytes |-> 0, total_session_duration_ms |-> 0,
   key_sequences |-> 0, sequence_keys |-> 0, text_runs |-> 0, text_keys |-> 0,
   control_key_uses |-> 0, mode_transitions |-> 0, mapping_uses |-> 0,
   repeated_key_runs |-> 0, repeated_key_presses |-> 0,
   modes |-> Empty, keys |-> Empty, control_keys |-> Empty, mappings |-> Empty, repeated_keys |-> Empty,
   session_duration |-> Empty, sequence_length |-> Empty, latency |-> Empty, operations |-> Empty,
   count_occurrences |-> 0, count_digit_presses |-> 0, transitions |-> Empty, repeated_motions |-> Empty]

RecordError(acc, error) == IF acc.error = NoError THEN [acc EXCEPT !.error = error] ELSE acc

(* A new entry of a map, unless the map is full or the bytes of all maps are *)
(* used up; the first error stays, later entries may still fit.              *)
BoundedEntry(acc, map, key, bytes, new, tooMany) ==
  CASE key \in DOMAIN acc[map] -> acc
    [] key \notin DOMAIN acc[map] /\ Cardinality(DOMAIN acc[map]) >= MaxDistinctItems ->
         RecordError(acc, tooMany)
    [] /\ key \notin DOMAIN acc[map] /\ Cardinality(DOMAIN acc[map]) < MaxDistinctItems
       /\ acc.retained_token_bytes + bytes > MaxRetainedTokenBytes ->
         RecordError(acc, "retained_token_bytes")
    [] OTHER -> [acc EXCEPT ![map] = With(@, key, new), !.retained_token_bytes = @ + bytes]

IncrementBounded(acc, map, key, bytes, amount, tooMany) ==
  LET entered == BoundedEntry(acc, map, key, bytes, 0, tooMany)
  IN  IF key \in DOMAIN entered[map] THEN [entered EXCEPT ![map][key] = @ + amount] ELSE entered

(***************************************************************************)
(* One event.                                                              *)
(***************************************************************************)
Digits == {"0", "1", "2", "3", "4", "5", "6", "7", "8", "9"}
Motions == {"h", "j", "k", "l", "w", "b", "e"}
Countable ==
  Motions \cup {"W", "B", "E", "0", "$", "^", "_", "+", "-", "G", "|", "%", "{", "}", "(", ")",
                "n", "N", "*", "#", "d", "c", "y", "x", "X", "p", "P", "u", "."}
Operation(key) ==
  CASE key = "u" -> "undo" [] key = "<C-R>" -> "redo" [] key = "." -> "repeat"
    [] key \in {"/", "?"} -> "search_start" [] key \in {"n", "N", "*", "#"} -> "search_navigation"
    [] OTHER -> "other"

(* Buckets are numbered by how many of their lower bounds a value reaches. *)
Bucket(bounds, x) == Cardinality({b \in bounds : b <= x})
SessionDurations == {1000, 10000, 60000, 300000}
SequenceLengths == {2, 3, 5, 9, 17, 33}
Latencies == {50, 100, 250, 500}

(* The maximal runs of one key, in order. *)
RunsOf(keys) ==
  LET Step(runs, k) ==
        IF runs # <<>> /\ Last(runs).key = k
        THEN Append(Front(runs), [key |-> k, presses |-> Last(runs).presses + 1])
        ELSE Append(runs, [key |-> k, presses |-> 1])
  IN  FoldLeft(Step, <<>>, keys)

CountStepZeroEnds(s, k) ==
  CASE s.digits = 0 -> [s EXCEPT !.digits = IF k \in Digits \ {"0"} THEN 1 ELSE 0]
    [] s.digits > 0 /\ k \in Digits \ {"0"} -> [s EXCEPT !.digits = @ + 1]
    [] s.digits > 0 /\ k \in Countable \cup {"0"} ->
         [digits |-> 0, occurrences |-> s.occurrences + 1, presses |-> s.presses + s.digits]
    [] OTHER -> [s EXCEPT !.digits = 0]

(* A count starts at a nonzero digit, goes on over digits, and counts when a *)
(* countable operation follows.                                              *)
CountStep(s, k) ==
  CASE s.digits = 0 -> [s EXCEPT !.digits = IF k \in Digits \ {"0"} THEN 1 ELSE 0]
    [] s.digits > 0 /\ k \in Digits -> [s EXCEPT !.digits = @ + 1]
    [] s.digits > 0 /\ k \in Countable \ Digits ->
         [digits |-> 0, occurrences |-> s.occurrences + 1, presses |-> s.presses + s.digits]
    [] OTHER -> [s EXCEPT !.digits = 0]
CountPrefixes(keys) == FoldLeft(CountStep, [digits |-> 0, occurrences |-> 0, presses |-> 0], keys)

CountOperations(counts, keys) ==
  LET Operate(f, k) == IF Operation(k) = "other" THEN f ELSE Tally(f, Operation(k), 1)
  IN  FoldLeft(Operate, counts, keys)

CountMotions(pairs, runs) ==
  LET Move(f, r) == IF r.presses >= 3 /\ r.key \in Motions THEN TallyPair(f, r.key, r.presses) ELSE f
  IN  FoldLeft(Move, pairs, runs)

ObserveErgonomics(acc, e) ==
  LET n == Len(e.keys)
      prefixes == CountPrefixes(e.keys)
  IN  [acc EXCEPT !.sequence_length = Tally(@, Bucket(SequenceLengths, n), 1),
                  !.latency = IF n >= 2 THEN Tally(@, Bucket(Latencies, e.duration \div (n - 1)), 1) ELSE @,
                  !.operations = CountOperations(@, e.keys),
                  !.count_occurrences = @ + prefixes.occurrences,
                  !.count_digit_presses = @ + prefixes.presses,
                  !.repeated_motions = CountMotions(@, RunsOf(e.keys))]

ObserveKey(acc, k) == IncrementBounded(acc, "keys", k, Size[k], 1, "distinct_keys")

ObserveRepeatedKey(acc, r) ==
  LET counted == [acc EXCEPT !.repeated_key_runs = @ + 1, !.repeated_key_presses = @ + r.presses]
      entered == BoundedEntry(counted, "repeated_keys", r.key, Size[r.key], <<0, 0>>, "distinct_repeated_keys")
  IN  IF r.presses < 2 THEN acc
      ELSE IF r.key \in DOMAIN entered.repeated_keys
      THEN [entered EXCEPT !.repeated_keys = TallyPair(@, r.key, r.presses)]
      ELSE entered

ObserveKeys(acc, keys) == FoldLeft(ObserveKey, acc, keys)
ObserveRepeatedKeys(acc, runs) == FoldLeft(ObserveRepeatedKey, acc, runs)

ObserveSequence(acc, e) ==
  LET ergonomic == ObserveErgonomics(acc, e)
      counted == [ergonomic EXCEPT !.key_sequences = @ + 1, !.sequence_keys = @ + Len(e.keys),
                                   !.modes = TallyPair(@, e.mode, Len(e.keys))]
  IN  ObserveRepeatedKeys(ObserveKeys(counted, e.keys), RunsOf(e.keys))

ObserveEnd(acc, e) ==
  LET total == acc.total_session_duration_ms + e.elapsed
      timed == [acc EXCEPT !.session_duration = Tally(@, Bucket(SessionDurations, e.elapsed), 1)]
  IN  IF total > MaxTime
      THEN RecordError(timed, "session_duration")
      ELSE [timed EXCEPT !.total_session_duration_ms = total]

ObserveControlKey(acc, e) ==
  IncrementBounded([acc EXCEPT !.control_key_uses = @ + e.count], "control_keys", <<e.mode, e.key>>,
                   Size[e.mode] + Size[e.key], e.count, "distinct_keys")

(* A use of a mapping of the snapshot must agree with the snapshot. *)
Mismatch(e, snapshot) ==
  \E m \in ToSet(snapshot.mappings) :
    m.mapping_id = e.mapping_id /\ (m.mode # e.mode \/ m.lhs # e.keys)

ObserveMapping(acc, e, snapshot) ==
  LET used == [acc EXCEPT !.mapping_uses = @ + 1]
      checked == IF Mismatch(e, snapshot) THEN RecordError(used, "snapshot_mismatch") ELSE used
  IN  IncrementBounded(checked, "mappings", e.mapping_id, Size[e.mapping_id], 1, "distinct_mappings")

Observe(acc, e, snapshot) ==
  CASE e.kind = "session_end"     -> ObserveEnd(acc, e)
    [] e.kind = "key_sequence"    -> ObserveSequence(acc, e)
    [] e.kind = "text_run"        -> [acc EXCEPT !.text_runs = @ + 1, !.text_keys = @ + e.count]
    [] e.kind = "control_key_use" -> ObserveControlKey(acc, e)
    [] e.kind = "mode_transition" -> [acc EXCEPT !.mode_transitions = @ + 1,
                                                 !.transitions = Tally(@, <<e.from, e.to>>, 1)]
    [] e.kind = "mapping_use"     -> ObserveMapping(acc, e, snapshot)
    [] OTHER                      -> acc

(***************************************************************************)
(* One log: the accumulator sees the events before the first invalid one.  *)
(* A log without a session is refused too.                                 *)
(***************************************************************************)
ReadEvents(s, log, snapshot) ==
  LET Step(t, e) ==
        LET v == ReadEvent(t.reader, e)
        IN  IF ~t.reader.log.ok THEN t
            ELSE [reader |-> v, acc |-> IF v.log.ok THEN Observe(t.acc, e, snapshot) ELSE t.acc]
  IN  FoldLeft(Step, s, log)

ReadLog(s, log, snapshot) ==
  LET end == ReadEvents(s, log, snapshot)
      open == end.reader.log.active # NoSession
      none == end.reader.log.seen = s.reader.log.seen
  IN  [end EXCEPT !.reader.log.ok = @ /\ ~open /\ ~none]

(***************************************************************************)
(* The summary.                                                            *)
(***************************************************************************)
(* The first `limit' entries of a list; ahead[k] is what is listed before k. *)
Top(ahead, limit) == {k \in DOMAIN ahead : Cardinality(ahead[k]) < limit}
Ranked(counts) ==
  LET Ahead(k) == {j \in DOMAIN counts : counts[j] > counts[k] \/ (counts[j] = counts[k] /\ Less(j, k))}
  IN  {[key |-> k, count |-> counts[k]] : k \in Top([k \in DOMAIN counts |-> Ahead(k)], MaxRankedItems)}
RankedControlKeys(counts) ==
  LET Ahead(k) ==
        {j \in DOMAIN counts :
           \/ counts[j] > counts[k]
           \/ counts[j] = counts[k] /\ (Less(j[1], k[1]) \/ (j[1] = k[1] /\ Less(j[2], k[2])))}
  IN  {[mode |-> k[1], key |-> k[2], count |-> counts[k]]
         : k \in Top([k \in DOMAIN counts |-> Ahead(k)], MaxRankedItems)}
RankedRepeatsByRuns(pairs, limit, byPresses) ==
  LET Ahead(k) ==
        {j \in DOMAIN pairs : pairs[j][1] > pairs[k][1] \/ (pairs[j][1] = pairs[k][1] /\ Less(j, k))}
  IN  {[key |-> k, runs |-> pairs[k][1], presses |-> pairs[k][2]]
         : k \in Top([k \in DOMAIN pairs |-> Ahead(k)], limit)}

(* finish: presses break a tie between motions, not between other keys. *)
RankedRepeats(pairs, limit, byPresses) ==
  LET Ahead(k) ==
        {j \in DOMAIN pairs :
           \/ pairs[j][1] > pairs[k][1]
           \/ pairs[j][1] = pairs[k][1] /\
                \/ byPresses /\ pairs[j][2] > pairs[k][2]
                \/ (byPresses => pairs[j][2] = pairs[k][2]) /\ Less(j, k)}
  IN  {[key |-> k, runs |-> pairs[k][1], presses |-> pairs[k][2]]
         : k \in Top([k \in DOMAIN pairs |-> Ahead(k)], limit)}

(* build_mapping_attribution: the snapshot's mappings, used or not, and the *)
(* used ones it does not hold; a buffer mapping may shadow a global one.    *)
Shadowing(snapshot) ==
  {p \in ToSet(snapshot.mappings) \X ToSet(snapshot.mappings) :
     /\ p[1].scope = "global" /\ p[2].scope = "buffer"
     /\ p[1].mode = p[2].mode /\ p[1].lhs = p[2].lhs}
CollidingIds(snapshot, m) ==
  {p[2].mapping_id : p \in {q \in Shadowing(snapshot) : q[1] = m}}
    \cup {p[1].mapping_id : p \in {q \in Shadowing(snapshot) : q[2] = m}}
AttributedInSnapshot(snapshot, counts) ==
  {[mapping_id |-> m.mapping_id, count |-> CountOf(counts, m.mapping_id),
    status |-> IF CountOf(counts, m.mapping_id) > 0 THEN "observed" ELSE "unobserved_in_sample",
    mode |-> m.mode, scope |-> m.scope, lhs |-> m.lhs, collisions |-> CollidingIds(snapshot, m)]
   : m \in ToSet(snapshot.mappings)}
AttributionOfCounted(snapshot, counts) ==
  [present |-> snapshot.present,
   mappings |-> {m \in AttributedInSnapshot(snapshot, counts) : m.count > 0},
   collisions |-> Shadowing(snapshot)]
Attribution(snapshot, counts) ==
  [present |-> snapshot.present,
   mappings |->
     AttributedInSnapshot(snapshot, counts)
       \cup {[mapping_id |-> id, count |-> counts[id], status |-> "observed_not_in_snapshot",
              mode |-> "", scope |-> "", lhs |-> <<>>, collisions |-> {}]
             : id \in IF snapshot.present
                     THEN DOMAIN counts \ {m.mapping_id : m \in ToSet(snapshot.mappings)} ELSE {}},
   collisions |-> Shadowing(snapshot)]

Coverage(snapshot, counts) ==
  LET total == Len(snapshot.mappings)
      observed == Cardinality({i \in 1..total : CountOf(counts, snapshot.mappings[i].mapping_id) > 0})
  IN  [present |-> snapshot.present, total |-> total, observed |-> observed, unobserved |-> total - observed]

PriorityByKind(kind) == IF kind = "current_mapping_unobserved_in_sample" THEN 0 ELSE 1
(* Observed behaviour comes before what was only not seen. *)
Priority(kind) == IF kind = "repeated_motion" THEN 0 ELSE 1

(* What may be suggested at all: enough sessions, enough keys, and either a *)
(* motion repeated often enough or a mapping never seen in the sample.      *)
Candidates(acc, sessions, motions, snapshot) ==
  LET enough == sessions >= MinSessions /\ acc.sequence_keys >= MinSequenceKeys
      repeated == {[kind |-> "repeated_motion", subject |-> m.key, observations |-> m.runs]
                   : m \in {r \in motions : r.runs >= MinObservations}}
      unobserved == {[kind |-> "current_mapping_unobserved_in_sample", subject |-> m.mapping_id,
                      observations |-> sessions]
                     : m \in {s \in ToSet(snapshot.mappings) : s.mapping_id \notin DOMAIN acc.mappings}}
      all == (IF enough THEN repeated ELSE {})
               \cup (IF enough /\ sessions >= MinObservations THEN unobserved ELSE {})
      Ahead(c) ==
        {a \in all :
           \/ Priority(a.kind) < Priority(c.kind)
           \/ a.kind = c.kind /\ a.observations > c.observations
           \/ a.kind = c.kind /\ a.observations = c.observations /\ Less(a.subject, c.subject)}
  IN  Top([c \in all |-> Ahead(c)], MaxCandidates)

Summarize(acc, reader, snapshot) ==
  LET sessions == Cardinality(reader.log.seen)
      motions == RankedRepeats(acc.repeated_motions, MaxCandidates, TRUE)
  IN  [sessions |-> sessions, events |-> reader.events,
       total_session_duration_ms |-> acc.total_session_duration_ms,
       key_sequences |-> acc.key_sequences, sequence_keys |-> acc.sequence_keys,
       text_runs |-> acc.text_runs, text_keys |-> acc.text_keys,
       control_key_uses |-> acc.control_key_uses, mode_transitions |-> acc.mode_transitions,
       mapping_uses |-> acc.mapping_uses,
       repeated_key_runs |-> acc.repeated_key_runs, repeated_key_presses |-> acc.repeated_key_presses,
       unique_keys |-> Cardinality(DOMAIN acc.keys), unique_mappings |-> Cardinality(DOMAIN acc.mappings),
       unique_control_keys |-> Cardinality(DOMAIN acc.control_keys),
       unique_repeated_keys |-> Cardinality(DOMAIN acc.repeated_keys),
       modes |-> acc.modes, keys |-> Ranked(acc.keys), mappings |-> Ranked(acc.mappings),
       control_keys |-> RankedControlKeys(acc.control_keys),
       repeated_keys |-> RankedRepeats(acc.repeated_keys, MaxRankedItems, FALSE),
       session_duration |-> acc.session_duration, sequence_length |-> acc.sequence_length,
       latency |-> acc.latency, operations |-> acc.operations, transitions |-> acc.transitions,
       count_prefix_occurrences |-> acc.count_occurrences,
       count_prefix_digit_presses |-> acc.count_digit_presses,
       repeated_motions |-> motions,
       mapping_coverage |-> Coverage(snapshot, acc.mappings),
       candidates |-> Candidates(acc, sessions, motions, snapshot),
       mapping_attribution |-> Attribution(snapshot, acc.mappings)]
=============================================================================
