--------------------------- MODULE AnalyzeCommand ---------------------------
(***************************************************************************)
(* `analyze', `preview' and `suggestions' of the analyzer (main.rs), with  *)
(* the inputs of SessionInputs, the analysis of Aggregation and the        *)
(* contract of CodexContract.  A scenario gives the directory, the logs,   *)
(* the command line, the snapshot and what Codex may answer.  Publication  *)
(* itself is PairPublication: here a published summary is simply there.    *)
(***************************************************************************)
EXTENDS SessionInputs, CodexContract

CONSTANT Scenarios

(* Event: what can be decoded at all.  NoSession is no session. *)
LogEvents ==
  LET Ids == Nat \ {NoSession}
  IN  [kind : {"session_start", "session_end"}, session : Ids, elapsed : Nat]
        \cup [kind : {"key_sequence"}, session : Ids, elapsed : Nat, mode : SequenceModes,
              keys : Seq(Token), duration : Nat]
        \cup [kind : {"text_run"}, session : Ids, elapsed : Nat, count : Nat]
        \cup [kind : {"control_key_use"}, session : Ids, elapsed : Nat, mode : TextModes,
              key : Token, count : Nat]
        \cup [kind : {"mode_transition"}, session : Ids, elapsed : Nat, from : Modes, to : Modes]
        \cup [kind : {"mapping_use"}, session : Ids, elapsed : Nat, mode : SequenceModes,
              mapping_id : Token, keys : Seq(Token)]

ASSUME ScenarioTypes ==
  /\ TextModes \subseteq Token
  /\ \A s \in Scenarios :
       /\ s.text \in [Inodes -> Seq(LogEvents)] /\ s.keymap.snapshot \in Snapshots
       /\ \A a \in s.answers : a.mapping.lhs \in Seq(Token)
       /\ s.entries \in [Slots -> Inodes \cup {None}] /\ s.current \in Dirs
       /\ s.restricted \in SUBSET Inodes /\ s.changes \in 0..MaxChanges
       /\ s.request \in Requests /\ s.outputs \in SUBSET Inodes

(* The hashes of a snapshot are IDs and do not collide. *)
ASSUME HashAssumption ==
  \A s \in Scenarios : \A m, n \in ToSet(s.keymap.snapshot.mappings) :
    /\ IdOf(m.mode, m.scope, m.lhs) \in MappingIds
    /\ IdOf(m.mode, m.scope, m.lhs) = IdOf(n.mode, n.scope, n.lhs)
         => <<m.mode, m.scope, m.lhs>> = <<n.mode, n.scope, n.lhs>>

VARIABLES
  text,      \* the log in each inode
  keymap,    \* the snapshot option: its file, and what it holds
  answers,   \* suggestions Codex may return
  state,     \* validator and accumulator
  first,     \* analysis_error_input, 0 for none
  failure,   \* the reported error of the analysis and its input
  summary, payload, accepted

fixed == <<text, keymap, answers>>
results == <<summary, payload, accepted>>
vars == <<inputVars, fixed, state, first, failure, results>>

Init ==
  \E s \in Scenarios :
    /\ entries = s.entries /\ restricted = s.restricted /\ changes = s.changes /\ outputs = s.outputs
    /\ request = s.request /\ text = s.text /\ keymap = s.keymap /\ answers = s.answers
    /\ current = s.current /\ exposed = ExposedIn(entries, restricted)
    /\ pc = "start" /\ handle = current /\ todo = {} /\ before = None /\ file = None
    /\ listed = {} /\ inputs = <<>> /\ read = <<>> /\ outcome = "running"
    /\ state = [reader |-> NewReader, acc |-> NewAccumulator] /\ first = 0 /\ failure = None
    /\ summary = None /\ payload = None /\ accepted = None

AllRead == pc = "read" /\ Len(read) = Len(inputs)
Sound == state.reader.log.ok

(* Everything up to the first opened log; other people's changes. *)
Prepare ==
  /\ Scan \/ ResolveInput \/ EndExplicit \/ Others \/ Break
  /\ UNCHANGED <<fixed, state, first, failure, results>>

(* The outputs must not be the snapshot file either, and the snapshot must be valid. *)
CheckOutputs ==
  /\ IF keymap.file \notin outputs /\ ValidSnapshot(keymap.snapshot)
     THEN ResolveOutputs
     ELSE pc = "resolve" /\ Break
  /\ UNCHANGED <<fixed, state, first, failure, results>>

AnalyzeNextBlamingLast ==
  /\ pc = "read" /\ Sound /\ ReadNext
  /\ IF Len(read') > Len(read)
     THEN /\ state' = ReadLog(state, text[Last(read')], keymap.snapshot)
          /\ first' = IF state'.reader.log.ok /\ state'.acc.error # NoError THEN Len(read') ELSE first
     ELSE UNCHANGED <<state, first>>
  /\ UNCHANGED <<fixed, failure, results>>

(* analyze_jsonl_inputs_impl: the next log is opened and consumed.  The first *)
(* error of the accumulator is remembered with its input, and the remaining   *)
(* logs are still validated.                                                  *)
AnalyzeNext ==
  /\ pc = "read" /\ Sound /\ ReadNext
  /\ IF Len(read') > Len(read)
     THEN /\ state' = ReadLog(state, text[Last(read')], keymap.snapshot)
          /\ first' = IF first = 0 /\ state'.reader.log.ok /\ state'.acc.error # NoError
                      THEN Len(read') ELSE first
     ELSE UNCHANGED <<state, first>>
  /\ UNCHANGED <<fixed, failure, results>>

RefuseLog ==
  /\ ~Sound /\ Reject /\ failure' = [input |-> Len(read), error |-> "validation"]
  /\ UNCHANGED <<fixed, state, first, results>>

RefuseAnalysis ==
  /\ AllRead /\ Sound /\ first # 0
  /\ Reject /\ failure' = [input |-> first, error |-> state.acc.error]
  /\ UNCHANGED <<fixed, state, first, results>>

Publish ==
  /\ AllRead /\ Sound /\ first = 0
  /\ EndReading /\ summary' = Summarize(state.acc, state.reader, keymap.snapshot)
  /\ UNCHANGED <<fixed, state, first, failure, payload, accepted>>

(* preview <summary.json> *)
RunPreview ==
  /\ summary # None /\ payload = None /\ payload' = Preview(summary)
  /\ UNCHANGED <<inputVars, fixed, state, first, failure, summary, accepted>>

(* suggestions <summary.json>, on what Codex answered to the payload. *)
RunSuggestions ==
  /\ payload # None /\ accepted = None
  /\ \E s \in answers : accepted' = IF Accepts(s, summary) THEN s ELSE Refused
  /\ UNCHANGED <<inputVars, fixed, state, first, failure, summary, payload>>

Next ==
  \/ Prepare \/ CheckOutputs \/ AnalyzeNext
  \/ RefuseLog \/ RefuseAnalysis \/ Publish \/ RunPreview \/ RunSuggestions
Spec == Init /\ [][Next]_vars

(***************************************************************************)
(* The events of the first k logs, counted one by one, without a fold and  *)
(* without a budget.                                                       *)
(***************************************************************************)
Events(k) == FlattenSeq([j \in 1..k |-> text[read[j]]])
All == Events(Len(read))
Of(events, kind) == {i \in DOMAIN events : events[i].kind = kind}
Keyed(events) == UNION {{<<i, j>> : j \in DOMAIN events[i].keys} : i \in Of(events, "key_sequence")}
TokenAt(events, p) == events[p[1]].keys[p[2]]
Tokens(events) == {TokenAt(events, p) : p \in Keyed(events)}
UsesOf(events, id) == Cardinality({i \in Of(events, "mapping_use") : events[i].mapping_id = id})
UsedIds(events) == {events[i].mapping_id : i \in Of(events, "mapping_use")}
ControlKeys(events) == {<<events[i].mode, events[i].key>> : i \in Of(events, "control_key_use")}
Duration(events) == MapThenSumSet(LAMBDA i : events[i].elapsed, Of(events, "session_end"))

(* Maximal intervals of one key, `least' long or longer. *)
Runs(events, least) ==
  LET spans(i) == {<<i, a, b>> : a \in DOMAIN events[i].keys, b \in DOMAIN events[i].keys}
      maximal(i, a, b) ==
        LET keys == events[i].keys
        IN  /\ b >= a + least - 1
            /\ \A c \in a..b : keys[c] = keys[a]
            /\ a > 1 => keys[a - 1] # keys[a]
            /\ b < Len(keys) => keys[b + 1] # keys[a]
  IN  {r \in UNION {spans(i) : i \in Of(events, "key_sequence")} : maximal(r[1], r[2], r[3])}
RunsOfKey(events, k, least) == {r \in Runs(events, least) : events[r[1]].keys[r[2]] = k}
PressesIn(runs) == Cardinality(UNION {{<<r[1], c>> : c \in r[2]..r[3]} : r \in runs})

RunTally(events, keys, least) ==
  [k \in keys |-> <<Cardinality(RunsOfKey(events, k, least)), PressesIn(RunsOfKey(events, k, least))>>]
RepeatUse(events) == RunTally(events, {events[r[1]].keys[r[2]] : r \in Runs(events, 2)}, 2)
MotionUse(events) ==
  RunTally(events, {events[r[1]].keys[r[2]] : r \in Runs(events, 3)} \cap Motions, 3)

(* How often each value occurs at the positions of `at'. *)
Histogram(at) == [v \in Range(at) |-> Cardinality({p \in DOMAIN at : at[p] = v})]
KeyUse(events) == Histogram([p \in Keyed(events) |-> TokenAt(events, p)])
MappingUse(events) == Histogram([i \in Of(events, "mapping_use") |-> events[i].mapping_id])
ControlUse(events) ==
  [c \in ControlKeys(events) |->
     MapThenSumSet(LAMBDA i : events[i].count,
                   {i \in Of(events, "control_key_use") : <<events[i].mode, events[i].key>> = c})]
Transitions(events) ==
  Histogram([i \in Of(events, "mode_transition") |-> <<events[i].from, events[i].to>>])
Durations(events) ==
  Histogram([i \in Of(events, "session_end") |-> Bucket(SessionDurations, events[i].elapsed)])
Lengths(events) ==
  Histogram([i \in Of(events, "key_sequence") |-> Bucket(SequenceLengths, Len(events[i].keys))])
(* The time from key to key, of sequences that have two. *)
Paces(events) ==
  LET spaced == {i \in Of(events, "key_sequence") : Len(events[i].keys) >= 2}
  IN  Histogram([i \in spaced |->
                   Bucket(Latencies, events[i].duration \div (Len(events[i].keys) - 1))])
Operations(events) ==
  LET named == {p \in Keyed(events) : Operation(TokenAt(events, p)) # "other"}
  IN  Histogram([p \in named |-> Operation(TokenAt(events, p))])
(* The sequences and the keys typed in each mode. *)
ModeUse(events) ==
  [m \in {events[i].mode : i \in Of(events, "key_sequence")} |->
     <<Cardinality({i \in Of(events, "key_sequence") : events[i].mode = m}),
       Cardinality({p \in Keyed(events) : events[p[1]].mode = m})>>]

(* What a list of at most `limit' items shows, where ahead[k] is what comes  *)
(* before k: as many as it may, and nothing without what comes before it.    *)
Leading(shown, ahead, limit) ==
  /\ shown \subseteq DOMAIN ahead /\ Cardinality(shown) <= limit
  /\ shown = DOMAIN ahead \/ Cardinality(shown) = limit
  /\ \A k \in shown : ahead[k] \subseteq shown

(* The digits of a count: from a nonzero digit on, only digits up to a       *)
(* countable key.                                                            *)
CountDigits(events) ==
  {r \in Keyed(events) \X Keyed(events) :
     LET p == r[1]
         d == r[2]
         keys == events[p[1]].keys
     IN  /\ p[1] = d[1] /\ d[2] < p[2] /\ keys[p[2]] \in Countable \ Digits
         /\ \E a \in 1..d[2] : keys[a] # "0" /\ \A c \in a..(p[2] - 1) : keys[c] \in Digits}

OverBudget(events) ==
  LET repeats == {events[r[1]].keys[r[2]] : r \in Runs(events, 2)}
      bytes(S) == MapThenSumSet(LAMBDA x : Size[x], S)
  IN  \/ \E S \in {Tokens(events), repeats, UsedIds(events)} : Cardinality(S) > MaxDistinctItems
      \/ Cardinality(ControlKeys(events)) > MaxDistinctItems
      \/ bytes(Tokens(events)) + bytes(repeats) + bytes(UsedIds(events))
           + MapThenSumSet(LAMBDA c : Size[c[1]] + Size[c[2]], ControlKeys(events)) > MaxRetainedTokenBytes
      \/ Duration(events) > MaxTime
      \/ \E i \in Of(events, "mapping_use") : Mismatch(events[i], keymap.snapshot)

(* A log is sessions in a row, each with its own ID, its events in time. *)
WellFormed(k) ==
  LET log == text[read[k]]
      earlier == Events(k - 1)
      starts == Of(log, "session_start")
      ids(events) == {events[i].session : i \in Of(events, "session_start")}
  IN  /\ log # <<>> /\ Last(log).kind = "session_end"
      /\ \A i \in DOMAIN log :
           /\ (i \in starts) <=> (i = 1 \/ log[i - 1].kind = "session_end")
           /\ i \in starts => log[i].elapsed = 0
           /\ i \notin starts => log[i].session = log[i - 1].session /\ log[i].elapsed >= log[i - 1].elapsed
           /\ log[i].kind = "key_sequence" => log[i].duration <= log[i].elapsed /\ log[i].keys # <<>>
           /\ log[i].kind = "mapping_use" => log[i].keys # <<>>
           /\ log[i].kind = "control_key_use" => log[i].count > 0
      /\ Cardinality(ids(log)) = Cardinality(starts) /\ ids(log) \cap ids(earlier) = {}
      /\ Cardinality(ids(log) \cup ids(earlier)) <= MaxSessions

(***************************************************************************)
(* Properties.                                                             *)
(***************************************************************************)

(* Every total, histogram and tally of a published summary is a count of the *)
(* positions in the logs it stands for: sessions and times, keys and modes,  *)
(* repetitions, count prefixes, operations, text, control keys, transitions  *)
(* and mappings, used or only listed (Accumulator::observe,                  *)
(* ErgonomicAccumulator, finish, build_mapping_attribution).                 *)
TalliesAreExact ==
  outcome = "ok" =>
    LET events == All
        sequences == Of(events, "key_sequence")
        controls == Of(events, "control_key_use")
        texts == Of(events, "text_run")
        digits == CountDigits(events)
        ids == SnapshotIds(keymap.snapshot)
    IN  /\ summary.sessions = Cardinality(Of(events, "session_start"))
        /\ summary.events = Len(events)
        /\ summary.total_session_duration_ms = Duration(events)
        /\ summary.session_duration = Durations(events)
        /\ summary.key_sequences = Cardinality(sequences)
        /\ summary.sequence_keys = Cardinality(Keyed(events))
        /\ summary.unique_keys = Cardinality(Tokens(events))
        /\ summary.modes = ModeUse(events)
        /\ summary.sequence_length = Lengths(events)
        /\ summary.latency = Paces(events)
        /\ summary.operations = Operations(events)
        /\ summary.repeated_key_runs = Cardinality(Runs(events, 2))
        /\ summary.repeated_key_presses = PressesIn(Runs(events, 2))
        /\ summary.unique_repeated_keys = Cardinality(DOMAIN RepeatUse(events))
        /\ summary.count_prefix_occurrences = Cardinality({d[1] : d \in digits})
        /\ summary.count_prefix_digit_presses = Cardinality(digits)
        /\ summary.text_runs = Cardinality(texts)
        /\ summary.text_keys = MapThenSumSet(LAMBDA i : events[i].count, texts)
        /\ summary.control_key_uses = MapThenSumSet(LAMBDA i : events[i].count, controls)
        /\ summary.unique_control_keys = Cardinality(ControlKeys(events))
        /\ summary.mode_transitions = Cardinality(Of(events, "mode_transition"))
        /\ summary.transitions = Transitions(events)
        /\ summary.mapping_uses = Cardinality(Of(events, "mapping_use"))
        /\ summary.unique_mappings = Cardinality(UsedIds(events))
        /\ summary.mapping_coverage =
             [present |-> keymap.snapshot.present, total |-> Cardinality(ids),
              observed |-> Cardinality(ids \cap UsedIds(events)),
              unobserved |-> Cardinality(ids \ UsedIds(events))]
        /\ {<<m.mapping_id, m.count>> : m \in summary.mapping_attribution.mappings} =
             {<<id, UsesOf(events, id)>>
              : id \in ids \cup (IF keymap.snapshot.present THEN UsedIds(events) ELSE {})}

(* Each of the five ranked lists of a published summary holds, with its true *)
(* counts, every key, mapping, control key, repeated key or repeated motion  *)
(* of the logs, or as many as its limit allows; and nothing that is left out *)
(* belongs before something shown, ties included (ranked,                    *)
(* ranked_control_keys, Accumulator::finish, ErgonomicAccumulator::finish).  *)
RankedListsAreExact ==
  outcome = "ok" =>
    LET events == All
        keys == KeyUse(events)
        uses == MappingUse(events)
        controls == ControlUse(events)
        repeats == RepeatUse(events)
        motions == MotionUse(events)
        more(counts, j, k) == counts[j] > counts[k] \/ (counts[j] = counts[k] /\ Less(j, k))
        sooner(a, b) == Less(a[1], b[1]) \/ (a[1] = b[1] /\ Less(a[2], b[2]))
        shownKeys == {e.key : e \in summary.keys}
        shownUses == {e.key : e \in summary.mappings}
        shownControls == {<<e.mode, e.key>> : e \in summary.control_keys}
        shownRepeats == {e.key : e \in summary.repeated_keys}
        shownMotions == {e.key : e \in summary.repeated_motions}
    IN  /\ Leading(shownKeys, [k \in DOMAIN keys |-> {j \in DOMAIN keys : more(keys, j, k)}],
                   MaxRankedItems)
        /\ summary.keys = {[key |-> k, count |-> keys[k]] : k \in shownKeys}
        /\ Leading(shownUses, [k \in DOMAIN uses |-> {j \in DOMAIN uses : more(uses, j, k)}],
                   MaxRankedItems)
        /\ summary.mappings = {[key |-> k, count |-> uses[k]] : k \in shownUses}
        /\ Leading(shownControls,
                   [k \in DOMAIN controls |->
                      {j \in DOMAIN controls :
                         controls[j] > controls[k] \/ (controls[j] = controls[k] /\ sooner(j, k))}],
                   MaxRankedItems)
        /\ summary.control_keys =
             {[mode |-> k[1], key |-> k[2], count |-> controls[k]] : k \in shownControls}
        /\ Leading(shownRepeats,
                   [k \in DOMAIN repeats |->
                      {j \in DOMAIN repeats :
                         \/ repeats[j][1] > repeats[k][1]
                         \/ repeats[j][1] = repeats[k][1] /\ Less(j, k)}],
                   MaxRankedItems)
        /\ summary.repeated_keys =
             {[key |-> k, runs |-> repeats[k][1], presses |-> repeats[k][2]] : k \in shownRepeats}
        /\ Leading(shownMotions,
                   [k \in DOMAIN motions |->
                      {j \in DOMAIN motions :
                         \/ motions[j][1] > motions[k][1]
                         \/ motions[j][1] = motions[k][1] /\ motions[j][2] > motions[k][2]
                         \/ motions[j] = motions[k] /\ Less(j, k)}],
                   MaxCandidates)
        /\ summary.repeated_motions =
             {[key |-> k, runs |-> motions[k][1], presses |-> motions[k][2]] : k \in shownMotions}

(* A published summary is exact: its totals, histograms and tallies are what *)
(* the logs say, and each ranked list is cut where its own order says        *)
(* (Accumulator::finish, ErgonomicAccumulator::finish).                      *)
SummaryIsExact == TalliesAreExact /\ RankedListsAreExact

(* An analysis succeeds exactly when every log is well-formed and all of     *)
(* them together fit the budget, in whatever order the items came; and the   *)
(* input it blames is the first malformed log or, when all are well-formed,  *)
(* the first log that goes over the budget (analyze_jsonl_inputs_impl,       *)
(* bounded_entry, record_error).                                             *)
FirstBadInput ==
  /\ outcome = "ok" => (\A k \in DOMAIN read : WellFormed(k)) /\ ~OverBudget(All)
  /\ failure # None =>
       IF failure.error = "validation"
       THEN ~WellFormed(failure.input) /\ \A k \in 1..(failure.input - 1) : WellFormed(k)
       ELSE /\ \A k \in DOMAIN read : WellFormed(k)
            /\ Len(read) = Len(inputs)
            /\ OverBudget(Events(failure.input)) /\ ~OverBudget(Events(failure.input - 1))

(* What the sample shows stays visible: a motion repeated often enough in a  *)
(* large enough sample is only left out when the candidates hold nothing     *)
(* but repeated motions, and no mapping that was used or not enough sampled  *)
(* is called unobserved (ErgonomicAccumulator::finish,                       *)
(* candidate_kind_priority).                                                 *)
ObservedFirst ==
  outcome = "ok" =>
    LET events == All
        sessions == Cardinality(Of(events, "session_start"))
        enough == sessions >= MinSessions /\ Cardinality(Keyed(events)) >= MinSequenceKeys
        named(kind) == {c.subject : c \in {d \in summary.candidates : d.kind = kind}}
        often == {k \in Motions : Cardinality(RunsOfKey(events, k, 3)) >= MinObservations}
        unobserved == named("current_mapping_unobserved_in_sample")
    IN  /\ enough /\ ~(often \subseteq named("repeated_motion")) => unobserved = {}
        /\ enough /\ Cardinality(often) <= MaxCandidates => often = named("repeated_motion")
        /\ unobserved \subseteq SnapshotIds(keymap.snapshot) \ UsedIds(events)
        /\ summary.candidates # {} => enough

(* A preview gives Codex exactly the published summary and the snapshot the  *)
(* report was made with, rebuilt from the summary alone; and of what analyze *)
(* publishes it refuses nothing but tokens and mapping IDs that must not     *)
(* leave and payloads that are too large                                     *)
(* (render_codex_payload_json_from_summary, reconstruct_keymap_snapshot).    *)
PreviewAcceptsAnalysis ==
  payload # None =>
    LET snapshot == keymap.snapshot
        tokens == {k.key : k \in summary.keys \cup summary.repeated_keys \cup summary.control_keys}
                    \cup UNION {ToSet(m.lhs) : m \in ToSet(snapshot.mappings)}
        ids == {m.key : m \in summary.mappings} \cup (IF snapshot.present THEN UsedIds(All) ELSE {})
        mayLeave == tokens \cap RefusedTokens = {} /\ ids \subseteq MappingIds
    IN  /\ ~payload.refused => payload.summary = summary /\ payload.keymap_snapshot = snapshot /\ mayLeave
        /\ payload.refused => ~mayLeave \/ PayloadSize(summary, snapshot) > MaxPayload

(* An accepted proposal tells the user of every mapping of the report's      *)
(* snapshot that its keys would shadow or wait for, names an existing target *)
(* when it changes one, and its evidence can be recounted in the logs        *)
(* (validate_codex_suggestions_json_for_summary, lhs_collides).              *)
ConflictsAreKnown ==
  accepted \notin {None, Refused} =>
    LET p == accepted.mapping
        prefix(a, b) == Len(a) <= Len(b) /\ SubSeq(b, 1, Len(a)) = a
    IN  /\ p # NoMapping =>
             /\ keymap.snapshot.present
             /\ \A m \in ToSet(keymap.snapshot.mappings) :
                  m.mode = p.mode /\ (prefix(m.lhs, p.lhs) \/ prefix(p.lhs, m.lhs))
                    => m.mapping_id \in ToSet(accepted.conflicts) \cup {p.target}
             /\ p.target \in SnapshotIds(keymap.snapshot) \cup {""}
        /\ \A e \in accepted.evidence :
             /\ e.metric = "sequence_keys" => e.value = Cardinality(Keyed(All))
             /\ e.metric = "mapping_uses" => e.value = Cardinality(Of(All, "mapping_use"))
=============================================================================
