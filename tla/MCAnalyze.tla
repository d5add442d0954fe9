----------------------------- MODULE MCAnalyze -----------------------------
(***************************************************************************)
(* Scenarios: every short key sequence in one log; every pair of a list of *)
(* telling logs with several snapshots; odd command lines; and a session   *)
(* directory that others change while it is read.  bslash is the key \.    *)
(***************************************************************************)
EXTENDS AnalyzeCommand

CONSTANTS d1, d2

MCOrder == <<"$", "0", "3", "<", "<C-R>", ">", "bslash", "bad", "h", "insert", "j", "m1", "m2", "m3", "m9", "replace", "select", "u", "w">>
MCSize == [s \in ToSet(MCOrder) |->
             CASE s = "<C-R>" -> 5 [] s \in {"insert", "select", "bad"} -> 3 [] s = "replace" -> 4
               [] s \in {"m1", "m2", "m3", "m9"} -> 2 [] OTHER -> 1]
MCMappingIds == {"m1", "m2", "m3", "m9"}
MCIdOf(m, scope, lhs) ==
  CASE <<m, scope, lhs>> = <<"normal", "buffer", <<"j", "j">>>> -> "m1"
    [] <<m, scope, lhs>> = <<"normal", "global", <<"j", "j">>>> -> "m2"
    [] <<m, scope, lhs>> = <<"visual", "global", <<"bslash">>>>     -> "m3"
    [] OTHER -> "m9"

m1 == [mapping_id |-> "m1", mode |-> "normal", scope |-> "buffer", lhs |-> <<"j", "j">>]
m2 == [mapping_id |-> "m2", mode |-> "normal", scope |-> "global", lhs |-> <<"j", "j">>]
m3 == [mapping_id |-> "m3", mode |-> "visual", scope |-> "global", lhs |-> <<"bslash">>]
m9 == [mapping_id |-> "m9", mode |-> "normal", scope |-> "global", lhs |-> <<"<", ">">>]

Snapshot(ms) == [present |-> TRUE, mappings |-> ms]
None2 == [file |-> None, snapshot |-> NoSnapshot]
Keymap(ms) == [file |-> None, snapshot |-> Snapshot(ms)]

(* Events of session s. *)
Keys(s, keys) == [kind |-> "key_sequence", session |-> s, elapsed |-> 600, keys |-> keys,
                  mode |-> "normal", duration |-> 300]
Use(s, id, keys) == [kind |-> "mapping_use", session |-> s, elapsed |-> 700, keys |-> keys,
                     mode |-> "normal", mapping_id |-> id]
Control(s, in, key, count) == [kind |-> "control_key_use", session |-> s, elapsed |-> 700, mode |-> in,
                               key |-> key, count |-> count]
TextRun(s) == [kind |-> "text_run", session |-> s, elapsed |-> 700, count |-> 4]
ToInsert(s) == [kind |-> "mode_transition", session |-> s, elapsed |-> 700, from |-> "normal", to |-> "insert"]
Open(s) == <<[kind |-> "session_start", session |-> s, elapsed |-> 0]>>
Close(s, t) == <<[kind |-> "session_end", session |-> s, elapsed |-> t]>>
Session(s, events) == Open(s) \o events \o Close(s, 800)

Short == UNION {[1..n -> {"0", "3", "j", "u"}] : n \in 1..4}

(* The logs of a session s (and s + 10). *)
Telling(s) ==
  {Session(s, <<Keys(s, <<"j", "j", "j">>)>>),
   Session(s, <<Keys(s, <<"h", "h", "h", "h">>), Keys(s, <<"j", "j", "j">>), Keys(s, <<"h", "h", "h">>)>>),
   Session(s, <<Keys(s, <<"h", "h", "h">>), Keys(s, <<"w", "w", "w", "w">>)>>),
   Session(s, <<Keys(s, <<"3", "u", "$", "$", "j">>)>>),
   Session(s, <<Keys(s, <<"bslash">>), TextRun(s)>>),
   Session(s, <<Use(s, "m1", <<"j", "j">>), Use(s, "m9", <<"u">>)>>),
   Session(s, <<Use(s, "m1", <<"j">>)>>),
   Session(s, <<Use(s, "bad", <<"j">>)>>),
   Session(s, <<Use(s, "m2", <<>>)>>),
   Session(s, <<Control(s, "insert", "<C-R>", 2), ToInsert(s)>>),
   Session(s, <<Use(s, "m9", <<"u">>), Use(s, "m2", <<"j", "j">>), Use(s, "m2", <<"j", "j">>)>>),
   Session(s, <<Control(s, "select", "<C-R>", 1)>>),
   Session(s, <<Control(s, "select", "$", 2), Control(s, "replace", "$", 2), Control(s, "insert", "h", 2)>>),
   Session(s, <<Control(s, "replace", "$", 1), Control(s, "insert", "h", 3)>>),
   Session(s, <<Control(s, "select", "<C-R>", 0)>>),
   Session(s, <<Control(s, "insert", "$", 1), Control(s, "insert", "h", 1), Control(s, "insert", "u", 2)>>),
   Session(s, <<Keys(s, <<"w", "w", "w">> \o [i \in 1..7 |-> "h"]),
                Keys(s, <<"w", "w", "w", "j", "j", "j">>)>>),
   Session(1, <<TextRun(1)>>),
   Session(s, <<>>) \o Session(s + 10, <<>>),
   Open(s) \o Close(s, 1500),
   Open(s) \o <<Keys(s, <<"j">>)>>,
   Open(s) \o <<Keys(s, <<"j">>)>> \o Close(s, 100),
   <<>>}

Base == [entries |-> [p \in Slots |-> IF p[1] = d1 /\ p[2] \in {1, 2} THEN p[2] ELSE None],
         current |-> d1, restricted |-> {1, 2, 3}, changes |-> 0, outputs |-> {},
         request |-> [directory |-> FALSE, names |-> <<1, 2>>],
         text |-> [i \in Inodes |-> Session(i, <<Keys(i, <<"j", "j", "j">>)>>)],
         keymap |-> None2, answers |-> {}]

OneLog ==
  {[Base EXCEPT !.request.names = <<1>>, !.text[1] = Session(1, <<Keys(1, keys)>>)] : keys \in Short}
Pairs ==
  {[Base EXCEPT !.text[1] = one, !.text[2] = two, !.keymap = k] :
     one \in Telling(1), two \in Telling(2),
     k \in {None2, Keymap(<<m1, m2>>), Keymap(<<m3>>)}}

Proposals ==
  {NoMapping} \cup [mode : {"normal"}, scope : {"buffer"},
                    lhs : {<<"j">>, <<"j", "j">>, <<"j", "j", "h">>, <<"h">>, <<"bslash">>},
                    target : {"", "m1", "m3"}]
Answers ==
  [action : {"add_mapping", "change_mapping", "no_change"}, mapping : Proposals,
   evidence : {{[metric |-> "sequence_keys", value |-> 6], [metric |-> "mapping_uses", value |-> 0]},
               {[metric |-> "sequence_keys", value |-> 5]}},
   checked : {TRUE}, conflicts : {<<>>, <<"m1">>, <<"m2">>, <<"m1", "m2">>, <<"m1", "m1">>}]
Asked == {[Base EXCEPT !.keymap = k, !.answers = Answers] : k \in {None2, Keymap(<<m1, m2>>)}}

Odd ==
  {[Base EXCEPT !.request.names = names, !.outputs = o, !.keymap = k] :
     names \in {<<>>, <<1>>, <<2, 2>>, <<1, 3>>, <<1, 4>>}, o \in {{}, {1}},
     k \in {None2, Keymap(<<m2, m1>>), Keymap(<<m1, m2, m3>>), Keymap(<<m9>>),
            [Keymap(<<m3>>) EXCEPT !.file = 1],
            Keymap(<<[m1 EXCEPT !.mapping_id = "m2"]>>)}}
  \cup {[Base EXCEPT !.entries[<<d1, 2>>] = 1], [Base EXCEPT !.entries[<<d1, 4>>] = 3, !.request.names = <<1, 4>>]}

Directory == [Base EXCEPT !.request = [directory |-> TRUE, names |-> <<>>]]
Changing ==
  {[Directory EXCEPT !.changes = 2],
   [Directory EXCEPT !.changes = 1, !.entries[<<d1, 3>>] = 3, !.restricted = {1, 3}],
   [Directory EXCEPT !.entries[<<d1, 3>>] = 3],
   [Directory EXCEPT !.entries[<<d1, 3>>] = 3, !.entries[<<d1, 4>>] = 4],
   [Directory EXCEPT !.restricted = {}],
   [Base EXCEPT !.changes = 1]}

MCScenarios == OneLog \cup Pairs \cup Asked \cup Odd \cup Changing
=============================================================================
