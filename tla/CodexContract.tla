--------------------------- MODULE CodexContract ---------------------------
(***************************************************************************)
(* What may go to Codex and what may come back (keymap_snapshot.rs,        *)
(* codex_payload.rs, codex_suggestions.rs).  A persisted summary carries   *)
(* its own snapshot in the mapping attribution; the payload is rendered    *)
(* from both, and suggestions are validated against both.  The texts of    *)
(* suggestions, schema versions and constant fields are left out.          *)
(***************************************************************************)
EXTENDS Aggregation

CONSTANTS MappingIds,            \* the strings mapping-v1:<64 hexadecimal digits>
          IdOf(_, _, _),         \* mapping_id: mode, scope and LHS, hashed
          BracketEnds,           \* tokens that hold a '>'
          RefusedTokens,         \* tokens like a path, with a sensitive name or not canonical
          MaxLhsTokens, MaxSnapshotMappings,
          MaxPayload,            \* MAX_CODEX_PAYLOAD_BYTES, in entries
          MaxEvidence

ASSUME ContractConstants == {MaxLhsTokens, MaxSnapshotMappings, MaxPayload, MaxEvidence} \subseteq Nat

NoMapping == [mode |-> "", scope |-> "", lhs |-> <<>>, target |-> ""]
Refused == [refused |-> TRUE]

(***************************************************************************)
(* Snapshots.                                                              *)
(***************************************************************************)
ModeRank(mode) == CASE mode = "normal" -> 1 [] mode = "operator_pending" -> 2 [] mode = "visual" -> 3
SequenceModes == {"normal", "operator_pending", "visual"}
Modes == SequenceModes \cup {"insert", "command", "search", "other"}
TextModes == {"insert", "replace", "select"}
Scopes == {"buffer", "global"}

(* A snapshot as it is parsed; without the option there is none. *)
Snapshots ==
  {NoSnapshot}
    \cup [present : {TRUE},
          mappings : Seq([mapping_id : Token, mode : SequenceModes, scope : Scopes, lhs : Seq(Token)])]

LhsBefore(a, b) ==
  \E i \in 1..Len(b) :
    /\ i <= Len(a) + 1 /\ SubSeq(a, 1, i - 1) = SubSeq(b, 1, i - 1)
    /\ i <= Len(a) => Less(a[i], b[i])

(* mapping_order: mode, LHS, buffer before global. *)
MappingBefore(a, b) ==
  \/ ModeRank(a.mode) < ModeRank(b.mode)
  \/ a.mode = b.mode /\ LhsBefore(a.lhs, b.lhs)
  \/ a.mode = b.mode /\ a.lhs = b.lhs /\ a.scope = "buffer" /\ b.scope = "global"

(* tokenize_canonical gives the LHS back: no '<' is closed by a later token. *)
CanonicalLhs(lhs) == ~ \E i, j \in DOMAIN lhs : i < j /\ lhs[i] = "<" /\ lhs[j] \in BracketEnds

ValidMapping(m) ==
  /\ Len(m.lhs) \in 1..MaxLhsTokens /\ CanonicalLhs(m.lhs)
  /\ m.mapping_id = IdOf(m.mode, m.scope, m.lhs)

(* parse_keymap_snapshot, validate_snapshot: strictly ordered, so no mapping *)
(* and no ID occurs twice.                                                   *)
ValidSnapshot(snapshot) ==
  LET ms == snapshot.mappings
  IN  /\ Len(ms) <= MaxSnapshotMappings
      /\ \A i \in DOMAIN ms : ValidMapping(ms[i])
      /\ \A i \in DOMAIN ms : i > 1 => MappingBefore(ms[i - 1], ms[i])

Sorted(mappings) ==
  CHOOSE s \in SetToSeqs(mappings) : \A i, j \in DOMAIN s : i < j => MappingBefore(s[i], s[j])

(* The snapshot of the report, put together again from its attribution. *)
Reconstruct(summary) ==
  LET known == {m \in summary.mapping_attribution.mappings : m.status # "observed_not_in_snapshot"}
      mappings == {[mapping_id |-> m.mapping_id, mode |-> m.mode, scope |-> m.scope, lhs |-> m.lhs]
                   : m \in known}
  IN  IF summary.mapping_attribution.present
      THEN [present |-> TRUE, mappings |-> Sorted(mappings)]
      ELSE NoSnapshot

(***************************************************************************)
(* The payload: validate_summary, conjunct by conjunct.                    *)
(***************************************************************************)
ValidToken(token) == token \notin RefusedTokens
ValidMappingId(id) == id \in MappingIds
SnapshotIds(snapshot) == {m.mapping_id : m \in ToSet(snapshot.mappings)}

WithinLimits(summary) ==
  /\ \A list \in {summary.keys, summary.mappings, summary.control_keys, summary.repeated_keys} :
       Cardinality(list) <= MaxRankedItems
  /\ Cardinality(summary.candidates) <= MaxCandidates

ValidCoverage(summary, snapshot) ==
  /\ summary.mapping_attribution.present = snapshot.present
  /\ summary.mapping_coverage.present = snapshot.present
  /\ snapshot.present =>
       /\ summary.mapping_coverage.total = Len(snapshot.mappings)
       /\ summary.mapping_coverage.observed + summary.mapping_coverage.unobserved = Len(snapshot.mappings)

ValidLists(summary) ==
  /\ \A k \in summary.keys \cup summary.repeated_keys : ValidToken(k.key)
  /\ \A k \in summary.control_keys : k.mode \in TextModes /\ ValidToken(k.key)
  /\ \A m \in summary.mappings : ValidMappingId(m.key)
  /\ \A m \in summary.repeated_motions : m.key \in Motions

ValidCandidate(c, snapshot) ==
  CASE c.kind = "repeated_motion" -> c.subject \in Motions
    [] c.kind = "current_mapping_unobserved_in_sample" ->
         ValidMappingId(c.subject) /\ c.subject \in SnapshotIds(snapshot)
    [] OTHER -> FALSE

(* An entry agrees with the snapshot on being there, used and what it maps. *)
ValidEntry(m, snapshot) ==
  LET same == {s \in ToSet(snapshot.mappings) : s.mapping_id = m.mapping_id}
      agrees == \A s \in same : <<s.mode, s.scope, s.lhs>> = <<m.mode, m.scope, m.lhs>>
  IN  /\ ValidMappingId(m.mapping_id)
      /\ \A token \in ToSet(m.lhs) : ValidToken(token)
      /\ m.collisions \subseteq SnapshotIds(snapshot)
      /\ \/ m.status = "observed" /\ m.count > 0 /\ same # {} /\ agrees
         \/ m.status = "unobserved_in_sample" /\ m.count = 0 /\ same # {} /\ agrees
         \/ m.status = "observed_not_in_snapshot" /\ m.count > 0 /\ same = {} /\ m.lhs = <<>>

ValidAttribution(attribution, snapshot) ==
  /\ Cardinality(attribution.mappings) >= Len(snapshot.mappings)
  /\ Cardinality(attribution.mappings) <= MaxSnapshotMappings + MaxDistinctItems
  /\ Cardinality(attribution.collisions) <= MaxSnapshotMappings
  /\ Cardinality({m.mapping_id : m \in attribution.mappings}) = Cardinality(attribution.mappings)
  /\ \A m \in attribution.mappings : ValidEntry(m, snapshot)
  /\ \A p \in attribution.collisions :
       /\ {p[1], p[2]} \subseteq ToSet(snapshot.mappings)
       /\ p[1].mode = p[2].mode /\ p[1].lhs = p[2].lhs
       /\ p[1].scope = "global" /\ p[2].scope = "buffer"

ValidSummary(summary, snapshot) ==
  /\ WithinLimits(summary) /\ ValidCoverage(summary, snapshot) /\ ValidLists(summary)
  /\ DOMAIN summary.modes \subseteq Modes /\ DOMAIN summary.transitions \subseteq Modes \X Modes
  /\ \A c \in summary.candidates : ValidCandidate(c, snapshot)
  /\ snapshot.present => ValidAttribution(summary.mapping_attribution, snapshot)

(* LimitedWriter counts what it writes. *)
PayloadSize(summary, snapshot) ==
  Cardinality(summary.keys) + Cardinality(summary.control_keys) + Cardinality(summary.repeated_keys)
    + Cardinality(summary.mappings) + Cardinality(summary.candidates)
    + Cardinality(summary.mapping_attribution.mappings) + Len(snapshot.mappings)

Render(summary, snapshot) ==
  IF /\ ValidSnapshot(snapshot) /\ ValidSummary(summary, snapshot)
     /\ PayloadSize(summary, snapshot) <= MaxPayload
  THEN [refused |-> FALSE, summary |-> summary, keymap_snapshot |-> snapshot]
  ELSE Refused

(* render_codex_payload_json_from_summary: what `preview' shows. *)
Preview(summary) == Render(summary, Reconstruct(summary))

(***************************************************************************)
(* Suggestions, one at a time: a document is accepted if all of them are.  *)
(***************************************************************************)
Metrics == {"sessions", "events", "total_session_duration_ms", "key_sequences", "sequence_keys",
            "text_runs", "text_keys", "control_key_uses", "unique_control_keys", "mode_transitions",
            "mapping_uses", "repeated_key_runs", "repeated_key_presses", "unique_keys",
            "unique_mappings", "unique_repeated_keys", "count_prefix_occurrences",
            "count_prefix_digit_presses"}
Measurement(metric, summary) ==
  CASE metric \in Metrics                  -> summary[metric]
    [] metric = "observed_mappings"        -> summary.mapping_coverage.observed
    [] metric = "unobserved_mappings"      -> summary.mapping_coverage.unobserved
    [] metric = "total_snapshot_mappings"  -> summary.mapping_coverage.total

CollidesWhenShadowed(existing, proposed) ==
  Len(existing) <= Len(proposed) /\ SubSeq(proposed, 1, Len(existing)) = existing
(* lhs_collides: either is a prefix of the other. *)
Collides(existing, proposed) ==
  \A i \in DOMAIN existing \cap DOMAIN proposed : existing[i] = proposed[i]

ValidProposal(p) ==
  /\ p.mode \in SequenceModes /\ p.scope \in Scopes /\ Len(p.lhs) \in 1..MaxLhsTokens
  /\ \A token \in ToSet(p.lhs) : ValidToken(token)

(* validate_document: the shape each action asks for. *)
ValidDocument(s) ==
  /\ \/ s.action = "add_mapping" /\ ValidProposal(s.mapping) /\ s.mapping.target = ""
     \/ s.action = "change_mapping" /\ ValidProposal(s.mapping) /\ ValidMappingId(s.mapping.target)
     \/ s.action \in {"learn_existing", "no_change"} /\ s.mapping = NoMapping
  /\ Cardinality(s.evidence) \in 1..MaxEvidence
  /\ s.checked /\ \A id \in ToSet(s.conflicts) : ValidMappingId(id)

Conflicts(p, snapshot) ==
  {m.mapping_id : m \in {n \in ToSet(snapshot.mappings) :
     n.mode = p.mode /\ Collides(n.lhs, p.lhs) /\ n.mapping_id # p.target}}

(* validate_codex_suggestions_json_for_summary: evidence is the summary's,   *)
(* a target exists, and the conflicts are those of the snapshot, each once.  *)
Accepts(s, summary) ==
  LET snapshot == Reconstruct(summary)
  IN  /\ ~Preview(summary).refused /\ ValidDocument(s)
      /\ s.mapping # NoMapping => snapshot.present
      /\ \A e \in s.evidence : e.value = Measurement(e.metric, summary)
      /\ Len(s.conflicts) = Cardinality(ToSet(s.conflicts))
      /\ IF s.mapping = NoMapping
         THEN s.conflicts = <<>>
         ELSE /\ s.mapping.target # "" => s.mapping.target \in SnapshotIds(snapshot)
              /\ ToSet(s.conflicts) = Conflicts(s.mapping, snapshot)
=============================================================================
