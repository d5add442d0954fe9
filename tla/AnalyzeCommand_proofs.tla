----------------------- MODULE AnalyzeCommand_proofs -----------------------
(***************************************************************************)
(* For every directory, command line, log, snapshot, limit and number of   *)
(* changes by others.                                                      *)
(*                                                                         *)
(* The first part proves of SessionInputs that a run that succeeds has     *)
(* read the whole listing (WholeListing).  While the listing is worked     *)
(* off, each listed name is still to do, is an input, or has been seen to  *)
(* stand for a file that is not private (Scanned).  The inputs are         *)
(* distinct files (Distinct) and what is read is what was resolved         *)
(* (Reread).                                                               *)
(*                                                                         *)
(* The second part shows that an analyzer run does to its inputs what      *)
(* SessionInputs allows, whatever the logs, the snapshot and the limits,   *)
(* so a summary is only published after the whole listing was read.        *)
(*                                                                         *)
(* The third part adds what is known of the logs read so far (Judged):     *)
(* the validator and the accumulator stand for all their events, or the    *)
(* first bad log is named.  CInv is the inductive invariant of both, and   *)
(* with the counts of Aggregation_proofs it says which log is blamed       *)
(* (FirstBadInput).                                                        *)
(*                                                                         *)
(* The last part is about what is made of the accumulator: the orders the  *)
(* code sorts by are strict and total, so its lists and cuts are unique.   *)
(* From that follow the conflicts of a snapshot (ConflictsAreKnown), the   *)
(* summary with its ranked lists (SummaryIsExact), the order of the        *)
(* suggestions (ObservedFirst) and the contract of the payload             *)
(* (PreviewAcceptsAnalysis).                                               *)
(***************************************************************************)
EXTENDS Aggregation_proofs

InputNames == {inputs[j].name : j \in DOMAIN inputs}

Seen == ExposedIn(entries, restricted) \subseteq exposed

Scanned ==
  request.directory =>
    /\ listed \subseteq exposed \cup InputNames \cup todo
    /\ InputNames \subseteq listed /\ todo \subseteq listed
    /\ pc \in {"resolve", "read"} \/ outcome = "ok" => todo = {}

Distinct == \A j, k \in DOMAIN inputs : inputs[j].ino = inputs[k].ino => j = k

Reread == \A j \in DOMAIN read : read[j] = inputs[j].ino

Phases ==
  /\ pc = "start" => inputs = <<>>
  /\ pc \in {"list", "verify", "inspect", "open", "match"} => request.directory
  /\ pc = "list" => inputs = <<>>
  /\ pc \in {"open", "match"} => todo # {}
  /\ pc = "explicit" => ~request.directory
  /\ pc \in {"resolve", "read"} \/ outcome = "ok" => inputs # <<>>
  /\ pc = "read" \/ outcome = "ok" => \A j \in DOMAIN inputs : inputs[j].ino \notin outputs
  /\ pc = "done" <=> outcome # "running"
  /\ outcome = "ok" => Len(read) = Len(inputs)

Progress == Scanned /\ Distinct /\ Reread /\ Phases
IInv == TypeOK /\ Seen /\ Progress

-----------------------------------------------------------------------------
(* The name being worked on. *)
LEMMA NextName ==
  ASSUME TypeOK, todo # {}
  PROVE  Least(todo) \in todo /\ Least(todo) \in Names /\ Child(Least(todo)) \in Inodes \cup {None}
<1>1. Least(todo) \in todo
  BY LeastIn, InputConstants DEF TypeOK
<1>2. Least(todo) \in Names
  BY <1>1 DEF TypeOK
<1>3. <<handle, Least(todo)>> \in Slots
  BY <1>2 DEF TypeOK, Slots
<1> QED BY <1>1, <1>2, <1>3 DEF TypeOK, Child

(* A path leads to the directory that is there now. *)
LEMMA PathLookup ==
  ASSUME TypeOK, NEW n \in Names
  PROVE  AtPath(n) \in Inodes \cup {None}
<1>1. <<current, n>> \in Slots
  BY DEF TypeOK, Slots
<1> QED BY <1>1 DEF TypeOK, AtPath

(* A file that is seen not to be private is among the exposed ones. *)
LEMMA Exposure ==
  ASSUME TypeOK, Seen, NEW n \in Names, Child(n) # None, ~Private(entries, restricted, Child(n))
  PROVE  n \in exposed
BY DEF TypeOK, Seen, ExposedIn, Child

(* A run starts in the invariant. *)
LEMMA InitIInv == InputInit => IInv
<1> SUFFICES ASSUME InputInit PROVE IInv
  OBVIOUS
<1>1. TypeOK
  BY InputConstants DEF InputInit, TypeOK, ExposedIn, Steps
<1> QED BY <1>1 DEF InputInit, IInv, Progress, Seen, Scanned, Distinct, Reread, Phases, InputNames

-----------------------------------------------------------------------------
(* Types. *)
LEMMA FailType ==
  ASSUME TypeOK, Fail
  PROVE  TypeOK'
BY DEF TypeOK, Fail, world, given, Steps

(* The steps over the listing keep the types. *)
LEMMA ScanType ==
  ASSUME TypeOK, Phases, Scan
  PROVE  TypeOK'
<1>1. CASE Fail BY <1>1, FailType
<1>2. CASE Start
  BY <1>1, <1>2, FailType DEF TypeOK, Start, Go, world, given, Steps
<1>3. CASE List
  BY <1>3, FailType DEF TypeOK, List, world, given, Steps
<1>4. CASE VerifyListing
  BY <1>4, FailType DEF TypeOK, VerifyListing, Go, world, given, Steps
<1>5. CASE Inspect
  BY <1>5, FailType, NextName DEF TypeOK, Inspect, Go, world, given, Steps
<1>6. CASE OpenChild
  BY <1>6, FailType DEF TypeOK, OpenChild, Go, world, given, Steps
<1>7. CASE MatchChild
  <2> DEFINE n == Least(todo)
  <2>1. CASE /\ Go("inspect") /\ todo' = todo \ {n} /\ UNCHANGED <<handle, before, file>>
             /\ inputs' = Append(inputs, [name |-> n, ino |-> file]) /\ Len(inputs) < MaxInputs
             /\ file \in restricted
    <3>1. n \in Names
      BY <1>7, NextName DEF MatchChild, Phases
    <3> HIDE DEF n
    <3>2. [name |-> n, ino |-> file] \in Inputs
      BY <2>1, <3>1 DEF TypeOK, Inputs
    <3>3. inputs' \in Seq(Inputs) /\ Len(inputs') = Len(inputs) + 1 /\ Len(inputs) + 1 <= MaxInputs
      BY <2>1, <3>2, InputConstants DEF TypeOK
    <3>4. todo' \in SUBSET Names
      BY <2>1 DEF TypeOK
    <3> QED BY <2>1, <3>3, <3>4 DEF TypeOK, Go, world, given, Steps
  <2> QED BY <1>7, <2>1, FailType DEF MatchChild, Private
<1>8. CASE EndDiscovery
  BY <1>8, FailType DEF TypeOK, EndDiscovery, Go, world, given, Steps
<1> QED BY <1>2, <1>3, <1>4, <1>5, <1>6, <1>7, <1>8 DEF Scan

(* Resolving an input keeps the types. *)
LEMMA ResolveType ==
  ASSUME TypeOK, Resolve
  PROVE  TypeOK'
<1>1. CASE ResolveInput
  <2> DEFINE n == request.names[Len(inputs) + 1]
  <2>1. n \in Names
    BY <1>1 DEF ResolveInput, TypeOK, Requests
  <2>2. CASE /\ Go("explicit") /\ inputs' = Append(inputs, [name |-> n, ino |-> AtPath(n)])
             /\ UNCHANGED <<handle, todo, before, file>> /\ Len(inputs) < MaxInputs
             /\ AtPath(n) # None
    <3>1. [name |-> n, ino |-> AtPath(n)] \in Inputs
      BY <2>1, <2>2, PathLookup DEF Inputs
    <3>2. inputs' \in Seq(Inputs) /\ Len(inputs') = Len(inputs) + 1
      BY <2>2, <3>1 DEF TypeOK
    <3> QED BY <2>2, <3>2, InputConstants DEF TypeOK, Go, world, given, Steps
  <2> QED BY <1>1, <2>2, FailType DEF ResolveInput
<1>2. CASE EndExplicit
  BY <1>2, FailType DEF TypeOK, EndExplicit, Go, world, given, Steps
<1>3. CASE ResolveOutputs
  BY <1>3, FailType DEF TypeOK, ResolveOutputs, Go, world, given, Steps
<1> QED BY <1>1, <1>2, <1>3 DEF Resolve

(* Reading an input keeps the types. *)
LEMMA ReadType ==
  ASSUME TypeOK, ReadNext
  PROVE  TypeOK'
<1> DEFINE input == inputs[Len(read) + 1]
<1>1. input \in Inputs
  BY DEF TypeOK, ReadNext
<1>2. CASE Revalidated(input) /\ ~Fail
  <2>1. AtPath(input.name) \in Inodes
    BY <1>1, <1>2 DEF Revalidated, Inputs
  <2>2. read' \in Seq(Inodes) /\ Len(read') = Len(read) + 1
    BY <1>2, <2>1 DEF TypeOK, ReadNext
  <2> QED BY <1>2, <2>2 DEF TypeOK, ReadNext, world, given, Steps
<1> QED BY <1>2, FailType DEF ReadNext

(* What others change keeps the types. *)
LEMMA OthersType ==
  ASSUME TypeOK, Others
  PROVE  TypeOK'
<1>1. ASSUME Change, entries' \in [Slots -> Inodes \cup {None}],
             current' \in Dirs, restricted' \in SUBSET Inodes
      PROVE  TypeOK'
  BY <1>1 DEF TypeOK, Change, given, run, ExposedIn
<1>2. ASSUME NEW s \in Slots, NEW i \in Inodes, Put(s, i) PROVE TypeOK'
  BY <1>1, <1>2 DEF TypeOK, Put
<1>3. ASSUME NEW s \in Slots, Unlink(s) PROVE TypeOK'
  BY <1>1, <1>3 DEF TypeOK, Unlink
<1>4. ASSUME NEW s \in Slots, NEW t \in Slots, LinkTo(s, t) PROVE TypeOK'
  BY <1>1, <1>4 DEF TypeOK, LinkTo
<1>5. ASSUME NEW i \in Inodes, ChangeMode(i) PROVE TypeOK'
  BY <1>1, <1>5 DEF TypeOK, ChangeMode
<1>6. ASSUME NEW d \in Dirs, ReplaceDirectory(d) PROVE TypeOK'
  BY <1>1, <1>6 DEF TypeOK, ReplaceDirectory
<1> QED BY <1>2, <1>3, <1>4, <1>5, <1>6 DEF Others

(* Every step keeps the types. *)
LEMMA TypeStep ==
  ASSUME TypeOK, Phases, [InputNext]_inputVars
  PROVE  TypeOK'
<1>1. CASE EndReading
  BY <1>1 DEF TypeOK, EndReading, world, given, Steps
<1>2. CASE UNCHANGED inputVars
  BY <1>2 DEF TypeOK, inputVars, world, given, run
<1> QED
  BY <1>1, <1>2, ScanType, ResolveType, ReadType, OthersType, FailType
  DEF InputNext, Reject, Break

-----------------------------------------------------------------------------
(* The listing. *)
LEMMA SeenStep ==
  ASSUME Seen, [InputNext]_inputVars
  PROVE  Seen'
<1>1. CASE UNCHANGED world
  BY <1>1 DEF Seen, ExposedIn, Private, world
<1>2. CASE Change
  BY <1>2 DEF Seen, Change
<1> QED
  BY <1>1, <1>2
  DEF InputNext, Scan, Resolve, Others, Put, Unlink, LinkTo, ChangeMode, ReplaceDirectory, Fail, Go,
      Start, List, VerifyListing, Inspect, OpenChild, MatchChild, EndDiscovery, ResolveInput,
      EndExplicit, ResolveOutputs, ReadNext, Reject, EndReading, Break, inputVars

-----------------------------------------------------------------------------
(* The inputs, and how far the run has come. *)
LEMMA FailProgress ==
  ASSUME Progress, Fail
  PROVE  Progress'
BY DEF Progress, Fail, Scanned, Distinct, Reread, Phases, InputNames, world, given

(* An input more that is a fresh file keeps inputs distinct and as they
   were resolved. *)
LEMMA Adding ==
  ASSUME TypeOK, Distinct, Reread, NEW x \in Inputs, Fresh(x.ino),
         inputs' = Append(inputs, x), read' = read
  PROVE  /\ Distinct' /\ Reread' /\ inputs' # <<>>
         /\ InputNames' = InputNames \cup {x.name}
<1>1. /\ inputs' \in Seq(Inputs) /\ Len(inputs') = Len(inputs) + 1
      /\ \A j \in DOMAIN inputs : inputs'[j] = inputs[j]
      /\ inputs'[Len(inputs) + 1] = x
      /\ DOMAIN inputs' = DOMAIN inputs \cup {Len(inputs) + 1}
  BY DEF TypeOK
<1>2. Distinct'
  BY <1>1 DEF Distinct, Fresh
<1>3. Reread'
  <2>1. ASSUME NEW j \in DOMAIN read PROVE j \in DOMAIN inputs
    BY DEF TypeOK
  <2> QED BY <1>1, <2>1 DEF Reread
<1>4. InputNames' = InputNames \cup {x.name}
  BY <1>1 DEF InputNames
<1> QED BY <1>1, <1>2, <1>3, <1>4

(* The steps over the listing keep the progress made. *)
LEMMA ScanProgress ==
  ASSUME IInv, Scan
  PROVE  Progress'
<1> USE DEF IInv, Progress
<1>1. CASE Start
  BY <1>1, FailProgress DEF Start, Go, given, Scanned, Distinct, Reread, Phases, InputNames, world
<1>2. CASE List
  BY <1>2, FailProgress DEF List, given, Scanned, Distinct, Reread, Phases, InputNames, world
<1>3. CASE VerifyListing
  BY <1>3, FailProgress
  DEF VerifyListing, Go, given, Scanned, Distinct, Reread, Phases, InputNames, world
<1>4. CASE Inspect
  <2> DEFINE n == Least(todo)
  <2>1. n \in todo /\ n \in Names
    BY <1>4, NextName DEF Inspect
  <2>2. CASE Child(n) # None /\ ~Private(entries, restricted, Child(n))
    <3>1. n \in exposed
      BY <2>1, <2>2, Exposure
    <3>2. Go("inspect") /\ todo' = todo \ {n} /\ UNCHANGED <<handle, before, file, inputs>>
      BY <1>4, <2>2 DEF Inspect
    <3>3. pc = "inspect"
      BY <1>4 DEF Inspect
    <3> HIDE DEF n
    <3> QED BY <3>1, <3>2, <3>3
      DEF Go, given, Scanned, Distinct, Reread, Phases, InputNames, world
  <2>3. CASE Go("open") /\ UNCHANGED <<handle, todo, file, inputs>>
    BY <1>4, <2>3 DEF Inspect, Go, given, Scanned, Distinct, Reread, Phases, InputNames, world
  <2> QED BY <1>4, <2>2, <2>3, FailProgress DEF Inspect
<1>5. CASE OpenChild
  BY <1>5, FailProgress
  DEF OpenChild, Go, given, Scanned, Distinct, Reread, Phases, InputNames, world
<1>6. CASE MatchChild
  <2> DEFINE n == Least(todo)
             x == [name |-> n, ino |-> file]
  <2>1. n \in todo /\ n \in Names
    BY <1>6, NextName DEF MatchChild, Phases
  <2>2. CASE /\ Private(entries, restricted, file) /\ Fresh(file)
             /\ Go("inspect") /\ todo' = todo \ {n} /\ UNCHANGED <<handle, before, file>>
             /\ inputs' = Append(inputs, x)
    <3>1. x \in Inputs /\ x.name = n /\ x.ino = file
      BY <2>1, <2>2 DEF Inputs, Private, TypeOK
    <3> HIDE DEF n, x
    <3>2. Distinct' /\ Reread' /\ inputs' # <<>> /\ InputNames' = InputNames \cup {n}
      BY <2>2, <3>1, Adding DEF Go
    <3>3. Scanned'
      BY <1>6, <2>1, <2>2, <3>2 DEF MatchChild, Go, given, world, Scanned, Phases
    <3>4. Phases'
      BY <1>6, <2>2, <3>2 DEF MatchChild, Go, given, world, Phases
    <3> QED BY <3>2, <3>3, <3>4
  <2> QED BY <1>6, <2>2, FailProgress DEF MatchChild
<1>7. CASE EndDiscovery
  BY <1>7, FailProgress
  DEF EndDiscovery, Go, given, Scanned, Distinct, Reread, Phases, InputNames, world
<1> QED BY <1>1, <1>2, <1>3, <1>4, <1>5, <1>6, <1>7 DEF Scan

(* Resolving an input keeps the progress made. *)
LEMMA ResolveProgress ==
  ASSUME IInv, Resolve
  PROVE  Progress'
<1> USE DEF IInv, Progress
<1>1. CASE ResolveInput
  <2> DEFINE n == request.names[Len(inputs) + 1]
             x == [name |-> n, ino |-> AtPath(n)]
  <2>1. n \in Names
    BY <1>1 DEF ResolveInput, TypeOK, Requests
  <2>2. CASE /\ AtPath(n) # None /\ Fresh(AtPath(n))
             /\ Go("explicit") /\ inputs' = Append(inputs, x)
             /\ UNCHANGED <<handle, todo, before, file>>
    <3>1. x \in Inputs /\ x.name = n /\ x.ino = AtPath(n)
      BY <2>1, <2>2, PathLookup DEF Inputs
    <3> HIDE DEF n, x
    <3>2. Distinct' /\ Reread' /\ inputs' # <<>>
      BY <2>2, <3>1, Adding DEF Go
    <3>3. Scanned' /\ Phases'
      BY <1>1, <2>2, <3>2 DEF ResolveInput, Go, given, world, Scanned, Phases
    <3> QED BY <3>2, <3>3
  <2> QED BY <1>1, <2>2, FailProgress DEF ResolveInput
<1>2. CASE EndExplicit
  BY <1>2, FailProgress
  DEF EndExplicit, Go, given, Scanned, Distinct, Reread, Phases, InputNames, world
<1>3. CASE ResolveOutputs
  BY <1>3, FailProgress
  DEF ResolveOutputs, Go, given, Scanned, Distinct, Reread, Phases, InputNames, world
<1> QED BY <1>1, <1>2, <1>3 DEF Resolve

(* Reading an input keeps the progress made. *)
LEMMA ReadProgress ==
  ASSUME IInv, ReadNext
  PROVE  Progress'
<1> USE DEF IInv, Progress
<1> DEFINE input == inputs[Len(read) + 1]
<1>1. CASE Revalidated(input) /\ ~Fail
  <2>1. /\ pc = "read" /\ pc' = "read" /\ read' = Append(read, AtPath(input.name))
        /\ UNCHANGED <<world, given, handle, todo, before, file, listed, inputs, outcome>>
    BY <1>1 DEF ReadNext
  <2>2. AtPath(input.name) = input.ino /\ input \in Inputs
    BY <1>1 DEF Revalidated, ReadNext, TypeOK
  <2>3. Reread'
    <3>1. AtPath(input.name) \in Inodes
      BY <2>2 DEF Inputs
    <3> DEFINE ino == AtPath(input.name)
    <3>2. ino \in Inodes /\ read' = Append(read, ino) /\ read \in Seq(Inodes)
      BY <2>1, <3>1 DEF TypeOK
    <3> HIDE DEF ino
    <3>3. \A j \in DOMAIN read' :
            (j \in DOMAIN read /\ read'[j] = read[j]) \/ (j = Len(read) + 1 /\ read'[j] = ino)
      BY <3>2
    <3>4. ino = inputs[Len(read) + 1].ino /\ inputs' = inputs
      BY <2>1, <2>2 DEF ino
    <3> QED BY <3>3, <3>4 DEF Reread
  <2> QED BY <2>1, <2>3 DEF Scanned, Distinct, Phases, InputNames, world, given
<1> QED BY <1>1, FailProgress DEF ReadNext

(* What others change keeps the progress made. *)
LEMMA OthersProgress ==
  ASSUME IInv, Others
  PROVE  Progress'
<1>1. Change
  BY DEF Others, Put, Unlink, LinkTo, ChangeMode, ReplaceDirectory
<1>2. exposed \subseteq exposed' /\ UNCHANGED <<given, run>>
  BY <1>1 DEF Change
<1> QED BY <1>2 DEF IInv, Progress, Scanned, Distinct, Reread, Phases, InputNames, given, run

(* Every step keeps the invariant. *)
LEMMA StepIInv ==
  ASSUME IInv, [InputNext]_inputVars
  PROVE  IInv'
<1>1. TypeOK' /\ Seen'
  BY TypeStep, SeenStep DEF IInv, Progress
<1>2. ASSUME EndReading PROVE Progress'
  BY <1>2 DEF EndReading, IInv, Progress, Scanned, Distinct, Reread, Phases, InputNames, world, given
<1>3. ASSUME UNCHANGED inputVars PROVE Progress'
  BY <1>3 DEF IInv, Progress, Scanned, Distinct, Reread, Phases, InputNames, inputVars, world, given, run
<1>4. Progress'
  BY <1>2, <1>3, ScanProgress, ResolveProgress, ReadProgress, OthersProgress, FailProgress
  DEF InputNext, Reject, Break, IInv
<1> QED BY <1>1, <1>4 DEF IInv

(* The invariant holds in every reachable state. *)
LEMMA Invariance == InputSpec => []IInv
<1>1. IInv /\ [InputNext]_inputVars => IInv'
  BY StepIInv
<1> QED BY InitIInv, <1>1, PTL DEF InputSpec

(* The variables of every reachable state have their types (TypeOK). *)
THEOREM TypeCorrect == InputSpec => []TypeOK
<1>1. IInv => TypeOK
  BY DEF IInv
<1> QED BY Invariance, <1>1, PTL

(* Whatever others do to the directory: a run that succeeds has read every   *)
(* listed log that nobody made not private, each input once and as it was    *)
(* resolved, and no output (WholeListing).                                   *)
THEOREM SuccessReadsTheListing == InputSpec => []WholeListing
<1>1. ASSUME IInv, outcome = "ok"
      PROVE  WholeListing
  <2> USE <1>1 DEF IInv, Progress
  <2>1. /\ Len(read) = Len(inputs) /\ inputs # <<>>
        /\ \A j \in DOMAIN inputs : inputs[j].ino \notin outputs
    BY DEF Phases
  <2>2. DOMAIN read = DOMAIN inputs
    BY <2>1 DEF TypeOK
  <2>3. \A j \in DOMAIN inputs : read[j] = inputs[j].ino
    BY <2>2 DEF Reread
  <2>4. request.directory =>
          /\ \A n \in listed : n \in exposed \/ \E j \in DOMAIN inputs : inputs[j].name = n
          /\ \A j \in DOMAIN inputs : inputs[j].name \in listed
    BY DEF Scanned, InputNames
  <2> QED BY <2>1, <2>2, <2>3, <2>4 DEF WholeListing, Distinct
<1>2. IInv => WholeListing
  BY <1>1 DEF WholeListing
<1> QED BY Invariance, <1>2, PTL

(***************************************************************************)
(* The command implements SessionInputs.                                   *)
(***************************************************************************)

(* A run of the command starts as a run of SessionInputs. *)
LEMMA InitInputs == Init => InputInit
<1> SUFFICES ASSUME NEW s \in Scenarios,
                    entries = s.entries, restricted = s.restricted, changes = s.changes,
                    outputs = s.outputs, request = s.request, current = s.current,
                    exposed = ExposedIn(entries, restricted),
                    pc = "start", handle = current, todo = {}, before = None, file = None,
                    listed = {}, inputs = <<>>, read = <<>>, outcome = "running"
             PROVE  InputInit
  BY DEF Init
<1> QED BY ScenarioTypes DEF InputInit

(* A step of the command is one of SessionInputs, or leaves the inputs
   alone. *)
LEMMA NextInputs == [Next]_vars => [InputNext]_inputVars
<1> SUFFICES ASSUME [Next]_vars PROVE [InputNext]_inputVars
  OBVIOUS
<1>1. CASE Prepare
  BY <1>1 DEF Prepare, InputNext, Resolve
<1>2. CASE CheckOutputs
  BY <1>2 DEF CheckOutputs, InputNext, Resolve
<1>3. CASE AnalyzeNext
  BY <1>3 DEF AnalyzeNext, InputNext
<1>4. CASE RefuseLog \/ RefuseAnalysis
  BY <1>4 DEF RefuseLog, RefuseAnalysis, InputNext
<1>5. CASE Publish
  BY <1>5 DEF Publish, InputNext
<1>6. CASE RunPreview \/ RunSuggestions \/ UNCHANGED vars
  BY <1>6 DEF RunPreview, RunSuggestions, vars
<1> QED BY <1>1, <1>2, <1>3, <1>4, <1>5, <1>6 DEF Next

(* The analyzer's command implements the specification of its inputs (main.rs *)
(* run, over discover_session_inputs and RevalidatedInputReader).             *)
THEOREM CommandKeepsInputs == Spec => InputSpec
BY InitInputs, NextInputs, PTL DEF Spec, InputSpec

(* The types of the inputs hold whatever the analysis does (TypeOK). *)
THEOREM CommandTypeCorrect == Spec => []TypeOK
BY CommandKeepsInputs, TypeCorrect, PTL

(* A run that publishes a summary has read every listed log that nobody made *)
(* not private, each input once and as it was resolved, and no output, in    *)
(* every directory that others change in any way meanwhile (WholeListing).   *)
THEOREM PublishedReadsTheListing == Spec => []WholeListing
BY CommandKeepsInputs, SuccessReadsTheListing, PTL

-----------------------------------------------------------------------------
(* The logs that were read, one after the other. *)
LeadingLogs(seqs, k) == [j \in 1..k |-> seqs[j]]
Flat(seqs, k) == FlattenSeq(LeadingLogs(seqs, k))
Joined(h, seqs, N) ==
  h \in [0..N -> Logs] /\ h[0] = <<>> /\ \A n \in 1..N : h[n] = h[n - 1] \o seqs[n]

(* Logs can be joined one after the other. *)
LEMMA JoinedExists ==
  ASSUME NEW N \in Nat, NEW seqs \in [1..N -> Logs]
  PROVE  \E h : Joined(h, seqs, N)
<1> DEFINE step == [p \in (1..N) \X Logs |-> p[2] \o seqs[p[1]]]
<1>1. \A a, b \in Logs : a \o b \in Logs
  BY DEF Logs
<1>2. step \in [(1..N) \X Logs -> Logs]
  BY <1>1
<1>3. \A n \in 1..N : \A a \in Logs : step[<<n, a>>] = a \o seqs[n]
  OBVIOUS
<1>4. <<>> \in Logs
  BY DEF Logs
<1> HIDE DEF step
<1>5. PICK h : Recursion(h, N, Logs, <<>>, step)
  BY <1>2, <1>4, RecursionExists
<1>6. h \in [0..N -> Logs] /\ h[0] = <<>>
  BY <1>5 DEF Recursion
<1>7. ASSUME NEW n \in 1..N PROVE h[n] = h[n - 1] \o seqs[n]
  <2>1. h[n] = step[<<n, h[n - 1]>>] /\ h[n - 1] \in Logs
    BY <1>5, <1>6 DEF Recursion
  <2> QED BY <1>3, <2>1
<1> QED BY <1>6, <1>7 DEF Joined

(* Flattening joins. *)
LEMMA FlatJoined ==
  ASSUME NEW N \in Nat, NEW seqs \in [1..N -> Logs], NEW h, Joined(h, seqs, N), NEW k \in 1..N
  PROVE  Flat(seqs, k) = h[k]
<1> DEFINE s == LeadingLogs(seqs, k)
           Eq(g) == g = [i \in 1..Len(s) |-> IF i = 1 THEN s[i] ELSE g[i - 1] \o s[i]]
           it == CHOOSE g : Eq(g)
<1>1. s \in Seq(Logs) /\ Len(s) = k /\ \A i \in 1..k : s[i] = seqs[i]
  BY DEF LeadingLogs
<1>2. /\ h \in [0..N -> Logs] /\ h[0] = <<>> /\ \A n \in 1..N : h[n] = h[n - 1] \o seqs[n]
  BY DEF Joined
<1>3. Flat(seqs, k) = it[k]
  BY <1>1 DEF Flat, FlattenSeq
<1> HIDE DEF s
<1>4. h[1] = seqs[1]
  <2>1. 1 \in 1..N /\ 1 - 1 = 0
    OBVIOUS
  <2>2. h[1] = h[1 - 1] \o seqs[1]
    BY <1>2, <2>1
  <2>3. seqs[1] \in Logs
    BY <2>1
  <2>4. h[1 - 1] = <<>>
    BY <1>2, <2>1
  <2>5. <<>> \o seqs[1] = seqs[1]
    BY <2>3, ConcatEmptySeq DEF Logs
  <2> QED BY <2>2, <2>4, <2>5
<1>5. \E g : Eq(g)
  <2> DEFINE g == [i \in 1..k |-> h[i]]
  <2>1. ASSUME NEW i \in 1..k PROVE g[i] = IF i = 1 THEN s[i] ELSE g[i - 1] \o s[i]
    <3>1. g[i] = h[i] /\ i \in 1..N /\ s[i] = seqs[i]
      BY <1>1
    <3>2. CASE i = 1 BY <1>4, <3>1, <3>2
    <3>3. CASE i # 1
      <4>1. i - 1 \in 1..k
        BY <3>3
      <4>2. g[i - 1] = h[i - 1]
        BY <4>1
      <4>3. h[i] = h[i - 1] \o seqs[i]
        BY <1>2, <3>1
      <4> QED BY <3>1, <3>3, <4>2, <4>3
    <3> QED BY <3>2, <3>3
  <2>2. Eq(g)
    BY <1>1, <2>1
  <2> HIDE DEF g, Eq
  <2> QED BY <2>2
<1>6. Eq(it)
  <2> HIDE DEF Eq
  <2> QED BY <1>5
<1>7. \A i \in 1..k : it[i] = IF i = 1 THEN s[i] ELSE it[i - 1] \o s[i]
  <2> HIDE DEF it
  <2> QED BY <1>1, <1>6
<1> HIDE DEF it
<1> DEFINE S == {i \in 0..k : i = 0 \/ it[i] = h[i]}
<1>8. 0 \in S /\ k \in Nat
  OBVIOUS
<1>9. ASSUME NEW n \in 1..k, n - 1 \in S PROVE n \in S
  <2>1. CASE n = 1 BY <1>1, <1>4, <1>7, <2>1
  <2>2. CASE n # 1
    <3>1. n - 1 # 0 /\ n \in 1..N /\ n \in 0..k
      BY <2>2
    <3>2. it[n - 1] = h[n - 1]
      BY <1>9, <3>1
    <3>3. it[n] = it[n - 1] \o s[n] /\ s[n] = seqs[n]
      BY <1>1, <1>7, <2>2
    <3>4. h[n] = h[n - 1] \o seqs[n]
      BY <1>2, <3>1
    <3>5. it[n] = h[n]
      BY <3>2, <3>3, <3>4
    <3> QED BY <3>1, <3>5
  <2> QED BY <2>1, <2>2
<1>10. k \in S
  <2> HIDE DEF S
  <2>1. 0..k \subseteq S
    BY <1>8, <1>9, RangeInduction
  <2> QED BY <2>1
<1> QED BY <1>3, <1>10

(* Flattening one log more appends it. *)
LEMMA FlatStep ==
  ASSUME NEW N \in Nat, NEW seqs \in [1..N -> Logs]
  PROVE  /\ Flat(seqs, 0) = <<>> /\ \A k \in 0..N : Flat(seqs, k) \in Logs
         /\ \A k \in 1..N : Flat(seqs, k) = Flat(seqs, k - 1) \o seqs[k]
<1>1. PICK h : Joined(h, seqs, N)
  BY JoinedExists
<1>2. /\ h \in [0..N -> Logs] /\ h[0] = <<>> /\ \A n \in 1..N : h[n] = h[n - 1] \o seqs[n]
  BY <1>1 DEF Joined
<1>3. Flat(seqs, 0) = <<>>
  <2>1. LeadingLogs(seqs, 0) = <<>>
    BY DEF LeadingLogs
  <2> QED BY <2>1 DEF Flat, FlattenSeq
<1>4. ASSUME NEW k \in 0..N PROVE Flat(seqs, k) = h[k]
  <2>1. CASE k = 0 BY <1>2, <1>3, <2>1
  <2>2. CASE k # 0
    <3>1. k \in 1..N
      BY <2>2
    <3> QED BY <1>1, <3>1, FlatJoined
  <2> QED BY <2>1, <2>2
<1>5. \A k \in 0..N : Flat(seqs, k) \in Logs
  BY <1>2, <1>4
<1>6. ASSUME NEW k \in 1..N PROVE Flat(seqs, k) = Flat(seqs, k - 1) \o seqs[k]
  <2>1. k \in 0..N /\ k - 1 \in 0..N
    OBVIOUS
  <2>2. Flat(seqs, k) = h[k] /\ Flat(seqs, k - 1) = h[k - 1]
    BY <1>4, <2>1
  <2> QED BY <1>2, <2>2
<1> QED BY <1>3, <1>5, <1>6

(* What was read until the k-th log. *)
Past(t, r, k) == FlattenSeq([j \in 1..k |-> t[r[j]]])

(* What was read grows by the next log. *)
LEMMA PastStep ==
  ASSUME NEW t \in [Inodes -> Logs], NEW r \in Seq(Inodes)
  PROVE  /\ Past(t, r, 0) = <<>> /\ \A k \in 0..Len(r) : Past(t, r, k) \in Logs
         /\ \A k \in 1..Len(r) : Past(t, r, k) = Past(t, r, k - 1) \o t[r[k]]
<1> DEFINE seqs == [j \in 1..Len(r) |-> t[r[j]]]
<1>1. Len(r) \in Nat /\ seqs \in [1..Len(r) -> Logs]
  OBVIOUS
<1>2. ASSUME NEW k \in 0..Len(r) PROVE Past(t, r, k) = Flat(seqs, k)
  <2>1. [j \in 1..k |-> t[r[j]]] = LeadingLogs(seqs, k)
    BY DEF LeadingLogs
  <2> QED BY <2>1 DEF Past, Flat
<1> HIDE DEF seqs
<1>3. /\ Flat(seqs, 0) = <<>> /\ \A k \in 0..Len(r) : Flat(seqs, k) \in Logs
      /\ \A k \in 1..Len(r) : Flat(seqs, k) = Flat(seqs, k - 1) \o seqs[k]
  BY <1>1, FlatStep
<1>4. \A k \in 1..Len(r) : seqs[k] = t[r[k]]
  BY DEF seqs
<1>5. \A k \in 1..Len(r) : k - 1 \in 0..Len(r) /\ k \in 0..Len(r)
  BY <1>1
<1>6. Past(t, r, 0) = <<>> /\ \A k \in 0..Len(r) : Past(t, r, k) \in Logs
  <2>1. 0 \in 0..Len(r)
    BY <1>1
  <2> QED BY <1>2, <1>3, <2>1
<1>7. ASSUME NEW k \in 1..Len(r) PROVE Past(t, r, k) = Past(t, r, k - 1) \o t[r[k]]
  <2>1. Past(t, r, k) = Flat(seqs, k) /\ Past(t, r, k - 1) = Flat(seqs, k - 1)
    BY <1>2, <1>5
  <2> QED BY <1>3, <1>4, <2>1
<1> QED BY <1>6, <1>7

(* A log more leaves the earlier ones. *)
LEMMA PastStays ==
  ASSUME NEW t \in [Inodes -> Logs], NEW r \in Seq(Inodes), NEW i \in Inodes, NEW k \in 0..Len(r)
  PROVE  Past(t, Append(r, i), k) = Past(t, r, k)
<1>1. \A j \in 1..k : Append(r, i)[j] = r[j]
  OBVIOUS
<1>2. [j \in 1..k |-> t[Append(r, i)[j]]] = [j \in 1..k |-> t[r[j]]]
  BY <1>1
<1> QED BY <1>2 DEF Past

-----------------------------------------------------------------------------
(* A log, and a part of one, may be read after the earlier ones. *)
Starts(log) == Of(log, "session_start")
Ids(log) == {log[i].session : i \in Of(log, "session_start")}
Filled(e) ==
  /\ e.kind = "key_sequence" => e.duration <= e.elapsed /\ e.keys # <<>>
  /\ e.kind = "mapping_use" => e.keys # <<>>
  /\ e.kind = "control_key_use" => e.count > 0
Following(log, i) ==
  /\ (i \in Starts(log)) <=> (i = 1 \/ log[i - 1].kind = "session_end")
  /\ i \in Starts(log) => log[i].elapsed = 0
  /\ i \notin Starts(log) => log[i].session = log[i - 1].session /\ log[i].elapsed >= log[i - 1].elapsed
Regular(log) == \A i \in DOMAIN log : Following(log, i) /\ Filled(log[i])
NewIds(log, earlier) ==
  /\ Cardinality(Ids(log)) = Cardinality(Starts(log)) /\ Ids(log) \cap Ids(earlier) = {}
  /\ Cardinality(Ids(log) \cup Ids(earlier)) <= MaxSessions
Good(log, earlier) == Regular(log) /\ NewIds(log, earlier)
Closed(log) == log # <<>> /\ Last(log).kind = "session_end"

(* An event may be the next one of a log. *)
Opens(log) == log = <<>> \/ log[Len(log)].kind = "session_end"
NewSession(log, e, earlier) ==
  e.session \notin Ids(log) \cup Ids(earlier) /\ Cardinality(Ids(log) \cup Ids(earlier)) < MaxSessions
FollowingNext(log, e) ==
  /\ (e.kind = "session_start") <=> Opens(log)
  /\ e.kind = "session_start" => e.elapsed = 0
  /\ e.kind # "session_start" => e.session = log[Len(log)].session /\ e.elapsed >= log[Len(log)].elapsed
NextFits(log, e, earlier) ==
  FollowingNext(log, e) /\ Filled(e) /\ (e.kind = "session_start" => NewSession(log, e, earlier))

(* The start of a session adds its ID. *)
LEMMA IdsAppend ==
  ASSUME NEW log \in Logs, NEW e \in LogEvents, NEW more, more = Append(log, e)
  PROVE  /\ Ids(more) = Ids(log) \cup (IF e.kind = "session_start" THEN {e.session} ELSE {})
         /\ Starts(more) = Starts(log) \cup (IF e.kind = "session_start" THEN {Len(log) + 1} ELSE {})
<1>1. /\ DOMAIN more = DOMAIN log \cup {Len(log) + 1} /\ Len(log) + 1 \notin DOMAIN log
      /\ more[Len(log) + 1] = e /\ \A i \in DOMAIN log : more[i] = log[i]
  BY AppendEvent
<1>2. Starts(more) = Starts(log) \cup (IF e.kind = "session_start" THEN {Len(log) + 1} ELSE {})
  BY OfAppend DEF Starts
<1>3. Starts(log) \subseteq DOMAIN log
  BY DEF Starts, Of
<1>4. Ids(more) = {more[i].session : i \in Starts(more)} /\ Ids(log) = {log[i].session : i \in Starts(log)}
  BY DEF Ids, Starts
<1>5. CASE e.kind = "session_start"
  <2>1. Starts(more) = Starts(log) \cup {Len(log) + 1}
    BY <1>2, <1>5
  <2>2. Ids(more) = Ids(log) \cup {e.session}
    BY <1>1, <1>3, <1>4, <2>1
  <2> QED BY <1>2, <1>5, <2>2
<1>6. CASE e.kind # "session_start"
  <2>1. Starts(more) = Starts(log)
    BY <1>2, <1>6
  <2>2. Ids(more) = Ids(log)
    BY <1>1, <1>3, <1>4, <2>1
  <2> QED BY <1>2, <1>6, <2>2
<1> QED BY <1>5, <1>6

(* There are finitely many sessions, and no more IDs than starts. *)
LEMMA IdsFinite ==
  ASSUME NEW log \in Logs
  PROVE  /\ IsFiniteSet(Ids(log)) /\ IsFiniteSet(Starts(log)) /\ Ids(log) \subseteq Nat \ {NoSession}
         /\ Cardinality(Ids(log)) \in Nat /\ Cardinality(Starts(log)) \in Nat
         /\ Cardinality(Ids(log)) <= Cardinality(Starts(log))
<1> DEFINE f == [i \in Starts(log) |-> log[i].session]
<1>1. IsFiniteSet(Starts(log)) /\ Starts(log) \subseteq DOMAIN log
  BY OfFinite DEF Starts
<1>2. \A i \in Starts(log) : log[i].session \in Nat \ {NoSession}
  BY <1>1, EventAt, EventType
<1>3. Ids(log) \subseteq Nat \ {NoSession}
  BY <1>2 DEF Ids, Starts
<1>4. f \in Surjection(Starts(log), Ids(log))
  <2>1. f \in [Starts(log) -> Ids(log)]
    BY DEF Ids, Starts
  <2>2. \A s \in Ids(log) : \E i \in Starts(log) : f[i] = s
    BY DEF Ids, Starts
  <2> HIDE DEF f
  <2> QED BY <2>1, <2>2 DEF Surjection
<1> HIDE DEF f
<1>5. IsFiniteSet(Ids(log)) /\ Cardinality(Ids(log)) <= Cardinality(Starts(log))
  BY <1>1, <1>4, FS_Surjection
<1> QED BY <1>1, <1>3, <1>5, FS_CardinalityType

(* A log is regular when it was before its last event and that one follows. *)
LEMMA RegularStep ==
  ASSUME NEW log \in Logs, NEW e \in LogEvents, NEW more, more = Append(log, e)
  PROVE  Regular(more) <=> Regular(log) /\ FollowingNext(log, e) /\ Filled(e)
<1> DEFINE n == Len(log) + 1
<1>1. /\ DOMAIN more = DOMAIN log \cup {n} /\ n \notin DOMAIN log
      /\ more[n] = e /\ \A i \in DOMAIN log : more[i] = log[i]
  BY AppendEvent
<1>2. DOMAIN log = 1..Len(log) /\ Len(log) \in Nat
  BY Indices
<1>3. \A i : i \in Starts(more) <=> i \in DOMAIN more /\ more[i].kind = "session_start"
  BY DEF Starts, Of
<1>4. \A i : i \in Starts(log) <=> i \in DOMAIN log /\ log[i].kind = "session_start"
  BY DEF Starts, Of
<1>5. ASSUME NEW i \in DOMAIN log PROVE Following(more, i) <=> Following(log, i)
  <2>1. more[i] = log[i] /\ (i \in Starts(more) <=> i \in Starts(log))
    BY <1>1, <1>3, <1>4
  <2>2. i # 1 => more[i - 1] = log[i - 1]
    BY <1>1, <1>2
  <2>3. i \in Starts(log) \/ i # 1 \/ ~Following(log, i)
    BY DEF Following
  <2>4. i \in Starts(more) \/ i # 1 \/ ~Following(more, i)
    BY DEF Following
  <2> QED BY <2>1, <2>2, <2>3, <2>4 DEF Following
<1>6. Following(more, n) <=> FollowingNext(log, e)
  <2>1. n \in Starts(more) <=> e.kind = "session_start"
    BY <1>1, <1>3
  <2>2. n = 1 <=> log = <<>>
    BY <1>2
  <2>3. n # 1 => more[n - 1] = log[Len(log)]
    <3>1. n - 1 = Len(log) /\ (n # 1 => Len(log) \in 1..Len(log))
      BY <1>2
    <3> QED BY <1>1, <1>2, <3>1
  <2>4. (n = 1 \/ more[n - 1].kind = "session_end") <=> Opens(log)
    BY <2>2, <2>3 DEF Opens
  <2>5. n = 1 => (FollowingNext(log, e) => e.kind = "session_start")
    BY <2>2 DEF FollowingNext, Opens
  <2>6. n = 1 => (Following(more, n) => e.kind = "session_start")
    BY <2>1 DEF Following
  <2> HIDE DEF n
  <2> QED BY <1>1, <2>1, <2>3, <2>4, <2>5, <2>6 DEF Following, FollowingNext
<1> HIDE DEF n
<1> QED BY <1>1, <1>5, <1>6 DEF Regular

(* IDs are new when they were before the last event and that one starts no
   known session. *)
LEMMA NewIdsStep ==
  ASSUME NEW log \in Logs, NEW e \in LogEvents, NEW more, more = Append(log, e), NEW earlier \in Logs
  PROVE  NewIds(more, earlier)
           <=> NewIds(log, earlier) /\ (e.kind = "session_start" => NewSession(log, e, earlier))
<1>1. /\ Ids(more) = Ids(log) \cup (IF e.kind = "session_start" THEN {e.session} ELSE {})
      /\ Starts(more) = Starts(log) \cup (IF e.kind = "session_start" THEN {Len(log) + 1} ELSE {})
  BY IdsAppend
<1>2. CASE e.kind # "session_start" BY <1>1, <1>2 DEF NewIds
<1>3. CASE e.kind = "session_start"
  <2> DEFINE I == Ids(log)
             U == Ids(log) \cup Ids(earlier)
             s == e.session
  <2>1. Ids(more) = I \cup {s} /\ Starts(more) = Starts(log) \cup {Len(log) + 1}
    BY <1>1, <1>3
  <2>2. /\ IsFiniteSet(I) /\ IsFiniteSet(Starts(log)) /\ IsFiniteSet(Ids(earlier))
        /\ Cardinality(I) \in Nat /\ Cardinality(Starts(log)) \in Nat
        /\ Cardinality(I) <= Cardinality(Starts(log))
    BY IdsFinite
  <2>3. Len(log) + 1 \notin Starts(log)
    BY OfAppend DEF Starts
  <2>4. Cardinality(Starts(more)) = Cardinality(Starts(log)) + 1
    BY <2>1, <2>2, <2>3, FS_AddElement
  <2>5. Cardinality(I \cup {s}) = IF s \in I THEN Cardinality(I) ELSE Cardinality(I) + 1
    BY <2>2, FS_AddElement
  <2>6. IsFiniteSet(U) /\ Cardinality(U) \in Nat
    BY <2>2, FS_Union, FS_CardinalityType
  <2>7. Ids(more) \cup Ids(earlier) = U \cup {s}
    BY <2>1
  <2>8. Cardinality(U \cup {s}) = IF s \in U THEN Cardinality(U) ELSE Cardinality(U) + 1
    BY <2>6, FS_AddElement
  <2>9. s \in U <=> s \in I \/ s \in Ids(earlier)
    OBVIOUS
  <2>10. (I \cup {s}) \cap Ids(earlier) = {} <=> I \cap Ids(earlier) = {} /\ s \notin Ids(earlier)
    OBVIOUS
  <2>11. NewIds(more, earlier) <=>
           /\ Cardinality(I \cup {s}) = Cardinality(Starts(log)) + 1
           /\ I \cap Ids(earlier) = {} /\ s \notin Ids(earlier)
           /\ Cardinality(U \cup {s}) <= MaxSessions
    BY <2>1, <2>4, <2>7, <2>10 DEF NewIds
  <2>12. NewIds(log, earlier) <=>
           /\ Cardinality(I) = Cardinality(Starts(log)) /\ I \cap Ids(earlier) = {}
           /\ Cardinality(U) <= MaxSessions
    BY DEF NewIds
  <2>13. NewSession(log, e, earlier) <=> s \notin U /\ Cardinality(U) < MaxSessions
    BY DEF NewSession
  <2>14. MaxSessions \in Nat
    BY Limits
  <2> HIDE DEF I, U, s
  <2>15. CASE s \in I BY <2>2, <2>5, <2>9, <2>11, <2>13, <2>15, <1>3
  <2>16. CASE s \notin I /\ s \in Ids(earlier) BY <2>9, <2>11, <2>13, <2>16, <1>3
  <2>17. CASE s \notin U
    <3>1. Cardinality(I \cup {s}) = Cardinality(I) + 1 /\ Cardinality(U \cup {s}) = Cardinality(U) + 1
      BY <2>5, <2>8, <2>9, <2>17
    <3>2. (Cardinality(I) + 1 = Cardinality(Starts(log)) + 1) <=> Cardinality(I) = Cardinality(Starts(log))
      BY <2>2
    <3>3. (Cardinality(U) + 1 <= MaxSessions) <=> (Cardinality(U) <= MaxSessions /\ Cardinality(U) < MaxSessions)
      BY <2>6, <2>14
    <3> QED BY <1>3, <2>9, <2>11, <2>12, <2>13, <2>17, <3>1, <3>2, <3>3
  <2> QED BY <2>9, <2>15, <2>16, <2>17
<1> QED BY <1>2, <1>3

(* A part of a log is good when it was before its last event and that one
   fits. *)
LEMMA GoodStep ==
  ASSUME NEW log \in Logs, NEW e \in LogEvents, NEW earlier \in Logs
  PROVE  Good(Append(log, e), earlier) <=> Good(log, earlier) /\ NextFits(log, e, earlier)
BY RegularStep, NewIdsStep DEF Good, NextFits

(* A log of which nothing is read is good. *)
LEMMA GoodEmpty ==
  ASSUME NEW earlier \in Logs, Cardinality(Ids(earlier)) <= MaxSessions
  PROVE  Good(<<>>, earlier)
<1>1. Ids(<<>>) = {} /\ Starts(<<>>) = {}
  BY DEF Ids, Starts, Of
<1>2. Cardinality({}) = 0 /\ {} \cup Ids(earlier) = Ids(earlier)
  BY FS_EmptySet
<1>3. Regular(<<>>)
  BY DEF Regular
<1> QED BY <1>1, <1>2, <1>3 DEF Good, NewIds

-----------------------------------------------------------------------------
(* The validator in the middle of a log. *)
Validators == [active : Nat, seen : SUBSET Nat, ok : BOOLEAN]
Readers == [log : Validators, elapsed : Nat, events : Nat]
ReaderAt(v, log, earlier) ==
  /\ v.log.seen = Ids(earlier) \cup Ids(log)
  /\ v.log.active = IF Opens(log) THEN NoSession ELSE log[Len(log)].session
  /\ log # <<>> => v.elapsed = log[Len(log)].elapsed
  /\ v.events = Len(earlier) + Len(log)

(* The fields of the validator. *)
LEMMA ReaderFields ==
  ASSUME NEW v \in Readers
  PROVE  /\ v.log \in Validators /\ v.elapsed \in Nat /\ v.events \in Nat
         /\ v.log.active \in Nat /\ v.log.seen \in SUBSET Nat /\ v.log.ok \in BOOLEAN
BY DEF Readers, Validators

Shaped(s, e) ==
  s.kind = e.kind /\ s.session = e.session /\ (ValidPayload(s) <=>
    /\ e.kind \in {"key_sequence", "mapping_use"} => e.keys # <<>>
    /\ e.kind = "control_key_use" => e.count > 0)

(* What the validator looks at is valid when the event is filled. *)
LEMMA ShapeOf ==
  ASSUME NEW e \in LogEvents
  PROVE  Shaped(Shape(e), e)
<1>1. Shape(e).kind = e.kind /\ Shape(e).session = e.session
  BY DEF Shape
<1>2. CASE e.kind \in {"key_sequence", "mapping_use"}
  <2>1. Shape(e).keys = ToSet(e.keys)
    BY <1>2 DEF Shape
  <2>2. e.keys \in Seq(Token)
    BY <1>2, EventType
  <2>3. ToSet(e.keys) = {} <=> e.keys = <<>>
    <3>1. e.keys = <<>> => ToSet(e.keys) = {}
      BY DEF ToSet
    <3>2. e.keys # <<>> => 1 \in DOMAIN e.keys
      BY <2>2
    <3>3. e.keys # <<>> => e.keys[1] \in ToSet(e.keys)
      BY <3>2 DEF ToSet
    <3> QED BY <3>1, <3>3
  <2> QED BY <1>1, <1>2, <2>1, <2>3 DEF Shaped, ValidPayload
<1>3. CASE e.kind = "control_key_use"
  <2>1. CASE e.count > 0
    <3>1. Shape(e).keys = {e.key}
      BY <1>3, <2>1 DEF Shape
    <3> QED BY <1>1, <1>3, <2>1, <3>1 DEF Shaped, ValidPayload
  <2>2. CASE ~(e.count > 0)
    <3>1. Shape(e).keys = {}
      BY <1>3, <2>2 DEF Shape
    <3> QED BY <1>1, <1>3, <2>2, <3>1 DEF Shaped, ValidPayload
  <2> QED BY <2>1, <2>2
<1>4. CASE e.kind \notin {"key_sequence", "mapping_use", "control_key_use"}
  BY <1>1, <1>4 DEF Shaped, ValidPayload
<1> QED BY <1>2, <1>3, <1>4

(* What the validator makes of an event it accepts. *)
Accepting(v, w, e) ==
  w = [log |-> [active |-> IF e.kind = "session_start" THEN e.session
                           ELSE IF e.kind = "session_end" THEN NoSession ELSE v.log.active,
                seen |-> IF e.kind = "session_start" THEN v.log.seen \cup {e.session} ELSE v.log.seen,
                ok |-> TRUE],
       elapsed |-> e.elapsed, events |-> v.events + 1]
MayRead(v, e) ==
  /\ ValidTimes(v, e) /\ (e.kind = "session_start" => Cardinality(v.log.seen) < MaxSessions)
  /\ ValidEvent(v.log, Shape(e))

(* The state after an event that is accepted. *)
LEMMA ValidatorFields ==
  ASSUME NEW v \in Validators, v.ok, NEW e, NEW w, w = ValidateEvent(v, e), ValidEvent(v, e)
  PROVE  w = [active |-> IF e.kind = "session_start" THEN e.session
                         ELSE IF e.kind = "session_end" THEN NoSession ELSE v.active,
              seen |-> IF e.kind = "session_start" THEN v.seen \cup {e.session} ELSE v.seen,
              ok |-> TRUE]
<1>1. CASE e.kind = "session_start" BY <1>1 DEF ValidateEvent, Validators
<1>2. CASE e.kind = "session_end" BY <1>2 DEF ValidateEvent, Validators
<1>3. CASE e.kind \notin {"session_start", "session_end"} BY <1>3 DEF ValidateEvent, Validators
<1> QED BY <1>1, <1>2, <1>3

(* An event is accepted or refused, and in the first case counted. *)
LEMMA ReadEventCases ==
  ASSUME NEW v \in Readers, v.log.ok, NEW e \in LogEvents, NEW w, w = ReadEvent(v, e)
  PROVE  /\ w \in Readers /\ (w.log.ok <=> MayRead(v, e))
         /\ MayRead(v, e) => Accepting(v, w, e)
<1> DEFINE timed == ValidTimes(v, e) /\ (e.kind = "session_start" => Cardinality(v.log.seen) < MaxSessions)
<1>1. v.log \in Validators /\ v.elapsed \in Nat /\ v.events \in Nat /\ v.log.active \in Nat
      /\ v.log.seen \in SUBSET Nat
  BY ReaderFields
<1>2. e.session \in Nat /\ e.elapsed \in Nat /\ Shape(e).kind = e.kind /\ Shape(e).session = e.session
  BY EventType, ShapeOf DEF Shaped
<1>3. CASE MayRead(v, e)
  <2>1. timed /\ ValidEvent(v.log, Shape(e))
    BY <1>3 DEF MayRead
  <2>2. PICK u : u = ValidateEvent(v.log, Shape(e))
    OBVIOUS
  <2>3. w = [log |-> u, elapsed |-> e.elapsed, events |-> v.events + 1]
    BY <2>1, <2>2 DEF ReadEvent
  <2>4. u = [active |-> IF e.kind = "session_start" THEN e.session
                        ELSE IF e.kind = "session_end" THEN NoSession ELSE v.log.active,
             seen |-> IF e.kind = "session_start" THEN v.log.seen \cup {e.session} ELSE v.log.seen,
             ok |-> TRUE]
    BY <1>1, <1>2, <2>1, <2>2, ValidatorFields
  <2>5. u \in Validators /\ u.ok
    BY <1>1, <1>2, <2>4 DEF Validators, NoSession
  <2>6. w \in Readers /\ w.log.ok
    BY <1>1, <1>2, <2>3, <2>5 DEF Readers
  <2> QED BY <1>3, <2>3, <2>4, <2>6 DEF Accepting
<1>4. CASE ~MayRead(v, e) /\ timed
  <2>1. ~ValidEvent(v.log, Shape(e))
    BY <1>4 DEF MayRead
  <2>2. PICK u : u = ValidateEvent(v.log, Shape(e))
    OBVIOUS
  <2>3. w = [log |-> u, elapsed |-> e.elapsed, events |-> v.events + 1]
    BY <1>4, <2>2 DEF ReadEvent
  <2>4. u = [v.log EXCEPT !.ok = FALSE]
    BY <2>1, <2>2 DEF ValidateEvent
  <2>5. u \in Validators /\ ~u.ok
    BY <1>1, <2>4 DEF Validators
  <2>6. w \in Readers /\ ~w.log.ok
    BY <1>1, <1>2, <2>3, <2>5 DEF Readers
  <2> QED BY <1>4, <2>6
<1>5. CASE ~MayRead(v, e) /\ ~timed
  <2>1. w = [v EXCEPT !.log.ok = FALSE]
    BY <1>5 DEF ReadEvent
  <2>2. PICK u : u = [v.log EXCEPT !.ok = FALSE]
    OBVIOUS
  <2>3. u \in Validators /\ ~u.ok
    BY <1>1, <2>2 DEF Validators
  <2>4. w = [v EXCEPT !.log = u]
    BY <2>1, <2>2 DEF Readers
  <2>5. w \in Readers /\ w.log = u
    BY <2>3, <2>4 DEF Readers
  <2> QED BY <1>5, <2>3, <2>5
<1> QED BY <1>3, <1>4, <1>5

(* The validator accepts an event exactly when it fits. *)
LEMMA MayReadFits ==
  ASSUME NEW v \in Readers, v.log.ok, NEW log \in Logs, NEW earlier \in Logs, ReaderAt(v, log, earlier),
         NEW e \in LogEvents
  PROVE  MayRead(v, e) <=> NextFits(log, e, earlier)
<1>1. Shaped(Shape(e), e)
  BY ShapeOf
<1>2. /\ v.log.seen = Ids(earlier) \cup Ids(log)
      /\ v.log.active = IF Opens(log) THEN NoSession ELSE log[Len(log)].session
      /\ log # <<>> => v.elapsed = log[Len(log)].elapsed
  BY DEF ReaderAt
<1>3. ~Opens(log) => log # <<>> /\ log[Len(log)].session # NoSession
  <2>1. ASSUME ~Opens(log) PROVE log # <<>> /\ log[Len(log)].session # NoSession
    <3>1. log # <<>> /\ Len(log) \in DOMAIN log
      BY <2>1, Indices DEF Opens
    <3> QED BY <3>1, EventAt, EventType
  <2> QED BY <2>1
<1>4. e.session # NoSession
  BY EventType
<1>5. ValidEvent(v.log, Shape(e)) <=>
        /\ e.kind \in {"key_sequence", "mapping_use"} => e.keys # <<>>
        /\ e.kind = "control_key_use" => e.count > 0
        /\ IF e.kind = "session_start" THEN v.log.active = NoSession /\ e.session \notin v.log.seen
           ELSE v.log.active # NoSession /\ v.log.active = e.session
  BY <1>1 DEF Shaped, ValidEvent
<1>6. CASE e.kind = "session_start"
  <2>1. MayRead(v, e) <=>
          /\ e.elapsed = 0 /\ Cardinality(v.log.seen) < MaxSessions
          /\ v.log.active = NoSession /\ e.session \notin v.log.seen
    BY <1>5, <1>6 DEF MayRead, ValidTimes
  <2>2. v.log.active = NoSession <=> Opens(log)
    BY <1>2, <1>3
  <2>3. v.log.seen = Ids(log) \cup Ids(earlier)
    BY <1>2
  <2> QED BY <1>6, <2>1, <2>2, <2>3 DEF NextFits, FollowingNext, Filled, NewSession
<1>7. CASE e.kind # "session_start"
  <2>1. MayRead(v, e) <=>
          /\ e.elapsed >= v.elapsed /\ Filled(e)
          /\ v.log.active # NoSession /\ v.log.active = e.session
    BY <1>5, <1>7 DEF MayRead, ValidTimes, Filled
  <2>2. v.log.active # NoSession /\ v.log.active = e.session
          <=> ~Opens(log) /\ e.session = log[Len(log)].session
    BY <1>2, <1>3
  <2> QED BY <1>2, <1>3, <1>7, <2>1, <2>2 DEF NextFits, FollowingNext
<1> QED BY <1>6, <1>7

(* After an accepted event the validator is one event further. *)
LEMMA ReaderStep ==
  ASSUME NEW v \in Readers, NEW log \in Logs, NEW earlier \in Logs, ReaderAt(v, log, earlier),
         NEW e \in LogEvents, NextFits(log, e, earlier), NEW w, Accepting(v, w, e),
         NEW more, more = Append(log, e)
  PROVE  ReaderAt(w, more, earlier)
<1>1. /\ v.log.seen = Ids(earlier) \cup Ids(log) /\ v.events = Len(earlier) + Len(log)
      /\ v.log.active = IF Opens(log) THEN NoSession ELSE log[Len(log)].session
  BY DEF ReaderAt
<1>2. /\ w.log.active = IF e.kind = "session_start" THEN e.session
                        ELSE IF e.kind = "session_end" THEN NoSession ELSE v.log.active
      /\ w.log.seen = IF e.kind = "session_start" THEN v.log.seen \cup {e.session} ELSE v.log.seen
      /\ w.elapsed = e.elapsed /\ w.events = v.events + 1
  BY DEF Accepting
<1>3. /\ Len(more) = Len(log) + 1 /\ more[Len(more)] = e /\ Len(log) \in Nat /\ Len(earlier) \in Nat
      /\ more # <<>>
  <2>1. Len(more) = Len(log) + 1 /\ more[Len(log) + 1] = e /\ more \in Logs
    BY AppendEvent
  <2>2. Len(log) \in Nat /\ Len(earlier) \in Nat
    BY Indices
  <2>3. more # <<>>
    BY <2>1, <2>2
  <2> QED BY <2>1, <2>2, <2>3
<1>4. Ids(more) = Ids(log) \cup (IF e.kind = "session_start" THEN {e.session} ELSE {})
  BY IdsAppend
<1>5. w.log.seen = Ids(earlier) \cup Ids(more)
  BY <1>1, <1>2, <1>4
<1>6. w.events = Len(earlier) + Len(more)
  BY <1>1, <1>2, <1>3
<1>7. w.log.active = IF Opens(more) THEN NoSession ELSE more[Len(more)].session
  <2>1. Opens(more) <=> e.kind = "session_end"
    BY <1>3 DEF Opens
  <2>2. CASE e.kind = "session_start" BY <1>2, <1>3, <2>1, <2>2
  <2>3. CASE e.kind = "session_end" BY <1>2, <2>1, <2>3
  <2>4. CASE e.kind \notin {"session_start", "session_end"}
    <3>1. ~Opens(log) /\ e.session = log[Len(log)].session
      BY <2>4 DEF NextFits, FollowingNext
    <3> QED BY <1>1, <1>2, <1>3, <2>1, <2>4, <3>1
  <2> QED BY <2>2, <2>3, <2>4
<1> QED BY <1>2, <1>3, <1>5, <1>6, <1>7 DEF ReaderAt

-----------------------------------------------------------------------------
(* Reading a log: what validator and accumulator are after each event. *)
Known(snapshot) == {a \in Accumulators : \E events \in Logs : Exact(a, events, snapshot)}
LogStates(snapshot) == [reader : Readers, acc : Known(snapshot)]
EventStep(t, e, snapshot) ==
  LET v == ReadEvent(t.reader, e)
  IN  IF ~t.reader.log.ok THEN t
      ELSE [reader |-> v, acc |-> IF v.log.ok THEN Observe(t.acc, e, snapshot) ELSE t.acc]

(* An accumulator that is exact for some events is exact for one more. *)
LEMMA KnownStep ==
  ASSUME NEW snapshot, NEW acc \in Known(snapshot), NEW e \in LogEvents
  PROVE  Observe(acc, e, snapshot) \in Known(snapshot)
<1>1. PICK events \in Logs : Exact(acc, events, snapshot)
  BY DEF Known
<1>2. PICK a : a = Observe(acc, e, snapshot)
  OBVIOUS
<1>3. Exact(a, Append(events, e), snapshot) /\ Append(events, e) \in Logs
  BY <1>1, <1>2, ObserveExact, AppendEvent
<1>4. a \in Accumulators
  BY <1>3 DEF Exact, Accounted
<1> QED BY <1>2, <1>3, <1>4 DEF Known

(* The cases of a step. *)
Stepped(t, u, e, snapshot) ==
  /\ ~t.reader.log.ok => u = t
  /\ t.reader.log.ok =>
       /\ u.reader.log.ok <=> MayRead(t.reader, e)
       /\ u.reader.log.ok => Accepting(t.reader, u.reader, e) /\ u.acc = Observe(t.acc, e, snapshot)

(* A step of the reader keeps its type and is one of the cases. *)
LEMMA EventStepType ==
  ASSUME NEW snapshot, NEW t \in LogStates(snapshot), NEW e \in LogEvents,
         NEW u, u = EventStep(t, e, snapshot)
  PROVE  u \in LogStates(snapshot) /\ Stepped(t, u, e, snapshot)
<1>1. t.reader \in Readers /\ t.acc \in Known(snapshot)
  BY DEF LogStates
<1>2. CASE ~t.reader.log.ok BY <1>2 DEF EventStep, Stepped
<1>3. CASE t.reader.log.ok
  <2>1. PICK v : v = ReadEvent(t.reader, e)
    OBVIOUS
  <2>2. v \in Readers /\ (v.log.ok <=> MayRead(t.reader, e)) /\ (MayRead(t.reader, e) => Accepting(t.reader, v, e))
    BY <1>1, <1>3, <2>1, ReadEventCases
  <2>3. PICK a : a = Observe(t.acc, e, snapshot)
    OBVIOUS
  <2>4. a \in Known(snapshot)
    BY <1>1, <2>3, KnownStep
  <2>5. u = [reader |-> v, acc |-> IF v.log.ok THEN a ELSE t.acc]
    BY <1>3, <2>1, <2>3 DEF EventStep
  <2>6. u.reader = v /\ (v.log.ok => u.acc = a)
    BY <2>5
  <2>7. u \in LogStates(snapshot)
    BY <1>1, <2>2, <2>4, <2>5 DEF LogStates
  <2> QED BY <1>3, <2>2, <2>3, <2>6, <2>7 DEF Stepped
<1> QED BY <1>2, <1>3

(* The state after each event. *)
ReadEventsSteps(f, log, from, snapshot) ==
  /\ f \in [0..Len(log) -> LogStates(snapshot)] /\ f[0] = from
  /\ \A n \in 1..Len(log) : f[n] = EventStep(f[n - 1], log[n], snapshot)
(* These are the values its fold takes. *)
LEMMA ReadEventsFold ==
  ASSUME NEW log \in Logs, NEW snapshot, NEW from \in LogStates(snapshot)
  PROVE  \E f : ReadEventsSteps(f, log, from, snapshot) /\ ReadEvents(from, log, snapshot) = f[Len(log)]
<1> DEFINE N == Len(log)
           step == [p \in (1..N) \X LogStates(snapshot) |-> EventStep(p[2], log[p[1]], snapshot)]
           Eq(g) == g = [s \in SUBSET DOMAIN log |->
                           IF s = {} THEN from ELSE EventStep(g[s \ {Max(s)}], log[Max(s)], snapshot)]
           it == CHOOSE g : Eq(g)
<1>1. N \in Nat /\ DOMAIN log = 1..N /\ \A i \in 1..N : log[i] \in LogEvents
  BY DEF Logs
<1>2. from \in LogStates(snapshot)
  OBVIOUS
<1>3. ASSUME NEW a \in LogStates(snapshot), NEW x \in LogEvents
      PROVE  EventStep(a, x, snapshot) \in LogStates(snapshot)
  BY <1>3, EventStepType
<1>4. step \in [(1..N) \X LogStates(snapshot) -> LogStates(snapshot)]
  BY <1>1, <1>3
<1>5. ASSUME NEW i \in 1..N, NEW a \in LogStates(snapshot) PROVE step[<<i, a>>] = EventStep(a, log[i], snapshot)
  OBVIOUS
<1>6. ReadEvents(from, log, snapshot) = it[DOMAIN log]
  BY DEF FoldLeft, MapThenFoldSet, ReadEvents, EventStep
<1> HIDE DEF step, N, it
<1>7. \E g : Eq(g)
  <2>1. PICK g : SetRecursion(g, N, LogStates(snapshot), from, step)
    <3> HIDE DEF Eq
    <3> QED BY <1>1, <1>2, <1>4, FoldExists
  <2>2. g \in [SUBSET (1..N) -> LogStates(snapshot)] /\ g[{}] = from
    BY <2>1 DEF SetRecursion
  <2>3. ASSUME NEW s \in SUBSET (1..N), s # {}
        PROVE  g[s] = EventStep(g[s \ {Max(s)}], log[Max(s)], snapshot)
    <3>1. Max(s) \in 1..N
      BY <1>1, <2>3, MaxIn
    <3>2. g[s \ {Max(s)}] \in LogStates(snapshot)
      BY <2>2
    <3>3. g[s] = step[<<Max(s), g[s \ {Max(s)}]>>]
      BY <2>1, <2>3 DEF SetRecursion
    <3> QED BY <1>5, <3>1, <3>2, <3>3
  <2>4. ASSUME NEW s \in SUBSET DOMAIN log
        PROVE  g[s] = IF s = {} THEN from ELSE EventStep(g[s \ {Max(s)}], log[Max(s)], snapshot)
    BY <1>1, <2>2, <2>3
  <2>5. DOMAIN g = SUBSET DOMAIN log /\ g = [s \in DOMAIN g |-> g[s]]
    BY <1>1, <2>2
  <2>6. Eq(g)
    BY <2>4, <2>5
  <2> HIDE DEF Eq
  <2> QED BY <2>6
<1>8. Eq(it)
  <2> HIDE DEF Eq
  <2> QED BY <1>7 DEF it
<1>9. it[{}] = from
  BY <1>8
<1>10. \A s \in SUBSET (1..N) : s # {} /\ it[s \ {Max(s)}] \in LogStates(snapshot)
         => it[s] = step[<<Max(s), it[s \ {Max(s)}]>>]
  <2> SUFFICES ASSUME NEW s \in SUBSET (1..N), s # {}, it[s \ {Max(s)}] \in LogStates(snapshot)
               PROVE  it[s] = step[<<Max(s), it[s \ {Max(s)}]>>]
    OBVIOUS
  <2>1. Max(s) \in 1..N
    BY <1>1, MaxIn
  <2>2. it[s] = EventStep(it[s \ {Max(s)}], log[Max(s)], snapshot)
    BY <1>1, <1>8
  <2> QED BY <1>5, <2>1, <2>2
<1>11. Folding(it, N, LogStates(snapshot), from, step)
  <2> HIDE DEF Eq
  <2> QED BY <1>9, <1>10 DEF Folding
<1>12. PICK f : Unfolding(f, it, N, LogStates(snapshot), from, step)
  <2> HIDE DEF Eq
  <2> QED BY <1>1, <1>2, <1>4, <1>11, FoldValue
<1>13. f \in [0..N -> LogStates(snapshot)] /\ f[0] = from
  BY <1>12 DEF Recursion, Unfolding
<1>14. ASSUME NEW n \in 1..N PROVE f[n] = EventStep(f[n - 1], log[n], snapshot)
  <2>1. f[n - 1] \in LogStates(snapshot)
    BY <1>1, <1>13
  <2>2. f[n] = step[<<n, f[n - 1]>>]
    BY <1>12 DEF Recursion, Unfolding
  <2> QED BY <1>5, <2>1, <2>2
<1>15. ReadEventsSteps(f, log, from, snapshot)
  BY <1>13, <1>14 DEF ReadEventsSteps, N
<1> QED BY <1>1, <1>6, <1>12, <1>15 DEF N, Unfolding

-----------------------------------------------------------------------------
(* In the middle of a log: the validator accepted what may be read, and the *)
(* accumulator is exact, or the log is refused already.                     *)
SoFar(t, log, earlier, snapshot) ==
  /\ t.reader.log.ok =>
       Good(log, earlier) /\ ReaderAt(t.reader, log, earlier) /\ Exact(t.acc, earlier \o log, snapshot)
  /\ ~t.reader.log.ok => ~Good(log, earlier)

(* One event further in a log. *)
LEMMA SoFarStep ==
  ASSUME NEW snapshot, NEW t \in LogStates(snapshot), NEW log \in Logs, NEW earlier \in Logs,
         SoFar(t, log, earlier, snapshot), NEW e \in LogEvents,
         NEW u, u = EventStep(t, e, snapshot), NEW more, more = Append(log, e)
  PROVE  SoFar(u, more, earlier, snapshot)
<1>1. u \in LogStates(snapshot) /\ Stepped(t, u, e, snapshot)
  BY EventStepType
<1>2. Good(more, earlier) <=> Good(log, earlier) /\ NextFits(log, e, earlier)
  BY GoodStep
<1>3. CASE ~t.reader.log.ok
  <2>1. u = t /\ ~Good(log, earlier)
    BY <1>1, <1>3 DEF Stepped, SoFar
  <2> QED BY <1>2, <1>3, <2>1 DEF SoFar
<1>4. CASE t.reader.log.ok
  <2>1. /\ Good(log, earlier) /\ ReaderAt(t.reader, log, earlier)
        /\ Exact(t.acc, earlier \o log, snapshot) /\ t.reader \in Readers
    BY <1>4 DEF SoFar, LogStates
  <2>2. MayRead(t.reader, e) <=> NextFits(log, e, earlier)
    BY <1>4, <2>1, MayReadFits
  <2>3. u.reader.log.ok <=> NextFits(log, e, earlier)
    BY <1>1, <1>4, <2>2 DEF Stepped
  <2>4. CASE u.reader.log.ok
    <3>1. Accepting(t.reader, u.reader, e) /\ u.acc = Observe(t.acc, e, snapshot)
      BY <1>1, <1>4, <2>4 DEF Stepped
    <3>2. ReaderAt(u.reader, more, earlier)
      BY <2>1, <2>3, <2>4, <3>1, ReaderStep
    <3>3. earlier \o log \in Logs /\ earlier \o more = Append(earlier \o log, e)
      BY DEF Logs
    <3>4. Exact(u.acc, earlier \o more, snapshot)
      BY <2>1, <3>1, <3>3, ObserveExact
    <3> QED BY <1>2, <2>1, <2>3, <2>4, <3>2, <3>4 DEF SoFar
  <2>5. CASE ~u.reader.log.ok BY <1>2, <2>3, <2>5 DEF SoFar
  <2> QED BY <2>4, <2>5
<1> QED BY <1>3, <1>4

(* A part of a log is a shorter part and one event. *)
LEMMA Prefix ==
  ASSUME NEW log \in Logs, NEW n \in 1..Len(log)
  PROVE  /\ SubSeq(log, 1, n) = Append(SubSeq(log, 1, n - 1), log[n])
         /\ SubSeq(log, 1, n - 1) \in Logs /\ log[n] \in LogEvents
BY DEF Logs

(* The whole log is a part of it, and so is nothing. *)
LEMMA WholePrefix ==
  ASSUME NEW log \in Logs
  PROVE  SubSeq(log, 1, Len(log)) = log /\ SubSeq(log, 1, 0) = <<>>
BY DEF Logs

(* At the end of a log it is good and counted, or refused. *)
LEMMA ReadEventsEnd ==
  ASSUME NEW snapshot, NEW from \in LogStates(snapshot), NEW earlier \in Logs,
         SoFar(from, <<>>, earlier, snapshot), NEW log \in Logs,
         NEW end, end = ReadEvents(from, log, snapshot)
  PROVE  end \in LogStates(snapshot) /\ SoFar(end, log, earlier, snapshot)
<1>1. PICK f : ReadEventsSteps(f, log, from, snapshot) /\ ReadEvents(from, log, snapshot) = f[Len(log)]
  BY ReadEventsFold
<1>2. /\ f \in [0..Len(log) -> LogStates(snapshot)] /\ f[0] = from
      /\ \A n \in 1..Len(log) : f[n] = EventStep(f[n - 1], log[n], snapshot)
  BY <1>1 DEF ReadEventsSteps
<1> DEFINE L == Len(log)
           S == {n \in 0..L : SoFar(f[n], SubSeq(log, 1, n), earlier, snapshot)}
<1>3. L \in Nat
  BY Indices
<1>4. 0 \in S
  <2>1. f[0] = from /\ SubSeq(log, 1, 0) = <<>>
    BY <1>2, WholePrefix
  <2>2. SoFar(f[0], SubSeq(log, 1, 0), earlier, snapshot)
    BY <2>1
  <2>3. 0 \in 0..L
    BY <1>3
  <2> QED BY <2>2, <2>3
<1>5. ASSUME NEW n \in 1..L, n - 1 \in S PROVE n \in S
  <2>1. /\ SubSeq(log, 1, n) = Append(SubSeq(log, 1, n - 1), log[n])
        /\ SubSeq(log, 1, n - 1) \in Logs /\ log[n] \in LogEvents
    BY Prefix
  <2>2. n - 1 \in 0..L /\ n \in 0..L
    BY <1>3
  <2>3. f[n - 1] \in LogStates(snapshot) /\ f[n] = EventStep(f[n - 1], log[n], snapshot)
    BY <1>2, <2>2
  <2>4. SoFar(f[n - 1], SubSeq(log, 1, n - 1), earlier, snapshot)
    BY <1>5
  <2>5. SoFar(f[n], SubSeq(log, 1, n), earlier, snapshot)
    BY <2>1, <2>3, <2>4, SoFarStep
  <2> QED BY <2>2, <2>5
<1> HIDE DEF S
<1>6. 0..L \subseteq S
  <2> HIDE DEF L
  <2> QED BY <1>3, <1>4, <1>5, RangeInduction
<1>7. L \in S /\ L \in 0..L
  BY <1>3, <1>6
<1>8. SoFar(f[L], log, earlier, snapshot)
  BY <1>7, WholePrefix DEF S
<1> QED BY <1>1, <1>2, <1>7, <1>8

(* The sessions of two logs are those of both together. *)
LEMMA IdsJoined ==
  ASSUME NEW a \in Logs, NEW b \in Logs
  PROVE  Ids(a \o b) = Ids(a) \cup Ids(b) /\ a \o b \in Logs /\ Len(a \o b) = Len(a) + Len(b)
<1> DEFINE c == a \o b
<1>1. /\ c \in Logs /\ Len(c) = Len(a) + Len(b) /\ DOMAIN c = 1..(Len(a) + Len(b))
      /\ DOMAIN a = 1..Len(a) /\ DOMAIN b = 1..Len(b) /\ Len(a) \in Nat /\ Len(b) \in Nat
  BY DEF Logs
<1>2. (\A i \in DOMAIN a : c[i] = a[i]) /\ \A i \in DOMAIN b : c[Len(a) + i] = b[i]
  BY DEF Logs
<1> HIDE DEF c
<1>3. \A i \in DOMAIN a : i \in DOMAIN c
  BY <1>1
<1>4. \A i \in DOMAIN b : Len(a) + i \in DOMAIN c
  BY <1>1
<1>5. \A i \in DOMAIN c : i \in DOMAIN a \/ \E j \in DOMAIN b : i = Len(a) + j
  <2> SUFFICES ASSUME NEW i \in DOMAIN c, i \notin DOMAIN a
               PROVE  \E j \in DOMAIN b : i = Len(a) + j
    OBVIOUS
  <2>1. i - Len(a) \in DOMAIN b /\ i = Len(a) + (i - Len(a))
    BY <1>1
  <2> QED BY <2>1
<1>6. ASSUME NEW s \in Ids(c) PROVE s \in Ids(a) \cup Ids(b)
  <2>1. PICK i \in DOMAIN c : c[i].kind = "session_start" /\ s = c[i].session
    BY DEF Ids, Of
  <2>2. CASE i \in DOMAIN a BY <1>2, <2>1, <2>2 DEF Ids, Of
  <2>3. CASE \E j \in DOMAIN b : i = Len(a) + j BY <1>2, <2>1, <2>3 DEF Ids, Of
  <2> QED BY <1>5, <2>2, <2>3
<1>7. ASSUME NEW s \in Ids(a) PROVE s \in Ids(c)
  <2>1. PICK i \in DOMAIN a : a[i].kind = "session_start" /\ s = a[i].session
    BY DEF Ids, Of
  <2> QED BY <1>2, <1>3, <2>1 DEF Ids, Of
<1>8. ASSUME NEW s \in Ids(b) PROVE s \in Ids(c)
  <2>1. PICK i \in DOMAIN b : b[i].kind = "session_start" /\ s = b[i].session
    BY DEF Ids, Of
  <2>2. Len(a) + i \in DOMAIN c /\ c[Len(a) + i] = b[i]
    BY <1>2, <1>4
  <2> QED BY <2>1, <2>2 DEF Ids, Of
<1>9. Ids(c) = Ids(a) \cup Ids(b)
  BY <1>6, <1>7, <1>8
<1> QED BY <1>1, <1>9 DEF c

(* Between two logs. *)
Between(t, earlier, snapshot) ==
  /\ t.reader.log.ok /\ t.reader.log.active = NoSession /\ t.reader.log.seen = Ids(earlier)
  /\ t.reader.events = Len(earlier) /\ Cardinality(Ids(earlier)) <= MaxSessions
  /\ Exact(t.acc, earlier, snapshot)

(* A log is accepted exactly when it is closed and good after the earlier
   ones. *)
LEMMA ReadLogEnd ==
  ASSUME NEW snapshot, NEW from \in LogStates(snapshot), NEW earlier \in Logs,
         Between(from, earlier, snapshot), NEW log \in Logs, NEW u, u = ReadLog(from, log, snapshot)
  PROVE  /\ u \in LogStates(snapshot) /\ (u.reader.log.ok <=> Closed(log) /\ Good(log, earlier))
         /\ u.reader.log.ok => Between(u, earlier \o log, snapshot)
<1>1. Good(<<>>, earlier)
  BY GoodEmpty DEF Between
<1>2. <<>> \in Logs /\ earlier \o <<>> = earlier /\ Ids(<<>>) = {} /\ Opens(<<>>) /\ Len(<<>>) = 0
      /\ Len(earlier) \in Nat
  BY DEF Logs, Ids, Of, Opens
<1>3. ReaderAt(from.reader, <<>>, earlier)
  BY <1>2 DEF ReaderAt, Between
<1>4. SoFar(from, <<>>, earlier, snapshot)
  BY <1>1, <1>2, <1>3 DEF SoFar, Between
<1>5. PICK end : end = ReadEvents(from, log, snapshot)
  OBVIOUS
<1>6. end \in LogStates(snapshot) /\ SoFar(end, log, earlier, snapshot)
  BY <1>4, <1>5, ReadEventsEnd
<1>7. end.reader \in Readers /\ end.acc \in Known(snapshot) /\ end.reader.log \in Validators
  BY <1>6, ReaderFields DEF LogStates
<1>8. PICK ok \in BOOLEAN : ok <=> /\ end.reader.log.ok /\ ~(end.reader.log.active # NoSession)
                                   /\ ~(end.reader.log.seen = from.reader.log.seen)
  OBVIOUS
<1>9. u = [end EXCEPT !.reader.log.ok = ok]
  <2>1. u = [end EXCEPT !.reader.log.ok = /\ @ /\ ~(end.reader.log.active # NoSession)
                                          /\ ~(end.reader.log.seen = from.reader.log.seen)]
    BY <1>5 DEF ReadLog
  <2>2. (/\ end.reader.log.ok /\ ~(end.reader.log.active # NoSession)
         /\ ~(end.reader.log.seen = from.reader.log.seen)) = ok
    BY <1>7, <1>8 DEF Validators
  <2> QED BY <2>1, <2>2
<1>10. /\ u \in LogStates(snapshot) /\ u.reader.log.ok = ok /\ u.acc = end.acc
       /\ u.reader.log.active = end.reader.log.active /\ u.reader.log.seen = end.reader.log.seen
       /\ u.reader.events = end.reader.events
  <2>1. PICK w : w = [end.reader.log EXCEPT !.ok = ok]
    OBVIOUS
  <2>2. w \in Validators /\ w.ok = ok /\ w.active = end.reader.log.active /\ w.seen = end.reader.log.seen
    BY <1>7, <2>1 DEF Validators
  <2>3. PICK v : v = [end.reader EXCEPT !.log = w]
    OBVIOUS
  <2>4. v \in Readers /\ v.log = w /\ v.events = end.reader.events
    BY <1>7, <2>2, <2>3 DEF Readers
  <2>5. u = [end EXCEPT !.reader = v]
    BY <1>9, <2>1, <2>3
  <2>6. u \in LogStates(snapshot) /\ u.reader = v /\ u.acc = end.acc
    BY <1>6, <2>4, <2>5 DEF LogStates
  <2> QED BY <2>2, <2>4, <2>6
<1>11. from.reader.log.seen = Ids(earlier)
  BY DEF Between
<1>12. CASE ~end.reader.log.ok
  <2>1. ~Good(log, earlier) /\ ~ok
    BY <1>6, <1>8, <1>12 DEF SoFar
  <2> QED BY <1>10, <2>1
<1>13. CASE end.reader.log.ok
  <2>1. Good(log, earlier) /\ ReaderAt(end.reader, log, earlier) /\ Exact(end.acc, earlier \o log, snapshot)
    BY <1>6, <1>13 DEF SoFar
  <2>2. /\ end.reader.log.seen = Ids(earlier) \cup Ids(log) /\ end.reader.events = Len(earlier) + Len(log)
        /\ end.reader.log.active = IF Opens(log) THEN NoSession ELSE log[Len(log)].session
    BY <2>1 DEF ReaderAt
  <2>3. end.reader.log.active = NoSession <=> Opens(log)
    <3>1. ASSUME ~Opens(log) PROVE log[Len(log)].session # NoSession
      <4>1. log # <<>> /\ Len(log) \in DOMAIN log
        BY <3>1, Indices DEF Opens
      <4> QED BY <4>1, EventAt, EventType
    <3> QED BY <2>2, <3>1
  <2>4. end.reader.log.seen = Ids(earlier) <=> log = <<>>
    <3>1. CASE log = <<>> BY <1>2, <2>2, <3>1
    <3>2. CASE log # <<>>
      <4>1. 1 \in DOMAIN log
        BY <3>2, Indices
      <4>2. 1 \in Starts(log)
        BY <2>1, <4>1 DEF Good, Regular, Following
      <4>3. log[1].session \in Ids(log)
        BY <4>2 DEF Ids, Starts
      <4>4. log[1].session \notin Ids(earlier)
        BY <2>1, <4>3 DEF Good, NewIds
      <4> QED BY <2>2, <3>2, <4>3, <4>4
    <3> QED BY <3>1, <3>2
  <2>5. ok <=> Closed(log)
    <3>1. Closed(log) <=> log # <<>> /\ Opens(log)
      BY DEF Closed, Opens, Last
    <3> QED BY <1>8, <1>11, <1>13, <2>3, <2>4, <3>1
  <2>6. ok => Between(u, earlier \o log, snapshot)
    <3> SUFFICES ASSUME ok PROVE Between(u, earlier \o log, snapshot)
      OBVIOUS
    <3>1. Ids(earlier \o log) = Ids(earlier) \cup Ids(log) /\ Len(earlier \o log) = Len(earlier) + Len(log)
      BY IdsJoined
    <3>2. Cardinality(Ids(earlier \o log)) <= MaxSessions
      <4>1. Ids(log) \cup Ids(earlier) = Ids(earlier \o log)
        BY <3>1
      <4> QED BY <2>1, <4>1 DEF Good, NewIds
    <3>3. end.reader.log.active = NoSession
      BY <1>8
    <3> QED BY <1>10, <2>1, <2>2, <3>1, <3>2, <3>3 DEF Between
  <2> QED BY <1>10, <2>1, <2>5, <2>6
<1> QED BY <1>12, <1>13

-----------------------------------------------------------------------------
(* The analysis between two logs: what it knows of the logs it has read. *)
Correct(t, r, k) == Closed(t[r[k]]) /\ Good(t[r[k]], Past(t, r, k - 1))
FirstOver(t, r, st, fst, snapshot) ==
  IF fst = 0 THEN st.acc.error = NoError
  ELSE /\ fst \in 1..Len(r)
       /\ Over(Past(t, r, fst), snapshot) /\ ~Over(Past(t, r, fst - 1), snapshot)
Judged(t, r, st, fst, snapshot) ==
  /\ st \in LogStates(snapshot) /\ \A k \in 1..(Len(r) - 1) : Correct(t, r, k)
  /\ st.reader.log.ok =>
       /\ \A k \in 1..Len(r) : Correct(t, r, k)
       /\ Between(st, Past(t, r, Len(r)), snapshot) /\ FirstOver(t, r, st, fst, snapshot)
  /\ ~st.reader.log.ok => r # <<>> /\ ~Correct(t, r, Len(r))

(* Without an error nothing is over the budget, and with one something is. *)
LEMMA ErrorExact ==
  ASSUME NEW acc, NEW events \in Logs, NEW snapshot, Exact(acc, events, snapshot)
  PROVE  acc.error = NoError <=> ~Over(events, snapshot)
BY DEF Exact, Accounted, Stocked, Unfailed, Over

(* Before the first log nothing is judged. *)
LEMMA JudgedFirst ==
  ASSUME NEW t, NEW snapshot
  PROVE  Judged(t, <<>>, [reader |-> NewReader, acc |-> NewAccumulator], 0, snapshot)
<1> DEFINE st == [reader |-> NewReader, acc |-> NewAccumulator]
<1>1. Exact(NewAccumulator, <<>>, snapshot) /\ <<>> \in Logs
  BY EmptyExact DEF Logs
<1>2. NewAccumulator \in Known(snapshot)
  BY <1>1 DEF Known, Exact, Accounted
<1>3. NewReader \in Readers
  BY DEF NewReader, NewValidator, Readers, Validators, NoSession
<1>4. st \in LogStates(snapshot)
  BY <1>2, <1>3 DEF LogStates
<1>5. Past(t, <<>>, 0) = <<>> /\ Len(<<>>) = 0
  BY DEF Past, FlattenSeq
<1>6. Ids(<<>>) = {}
  BY DEF Ids, Of
<1>7. Cardinality({}) = 0 /\ 0 <= MaxSessions
  BY FS_EmptySet, Limits
<1>8. Between(st, <<>>, snapshot)
  BY <1>1, <1>6, <1>7 DEF Between, NewReader, NewValidator
<1>9. st.reader.log.ok = TRUE /\ st.acc.error = NoError
  BY DEF NewReader, NewValidator, NewAccumulator
<1> HIDE DEF st
<1>10. FirstOver(t, <<>>, st, 0, snapshot)
  BY <1>9 DEF FirstOver
<1>11. 1..Len(<<>>) = {} /\ 1..(Len(<<>>) - 1) = {}
  OBVIOUS
<1>12. Judged(t, <<>>, st, 0, snapshot)
  BY <1>4, <1>5, <1>8, <1>9, <1>10, <1>11 DEF Judged
<1> QED BY <1>12 DEF st

(* What was correct stays so, and is counted alike, with a log more. *)
LEMMA CorrectStays ==
  ASSUME NEW t \in [Inodes -> Logs], NEW r \in Seq(Inodes), NEW i \in Inodes, NEW more, more = Append(r, i)
  PROVE  /\ Len(more) = Len(r) + 1 /\ more[Len(r) + 1] = i /\ Len(r) \in Nat /\ more \in Seq(Inodes)
         /\ more # <<>>
         /\ \A k \in 0..Len(r) : Past(t, more, k) = Past(t, r, k)
         /\ \A k \in 1..Len(r) : Correct(t, more, k) <=> Correct(t, r, k)
<1>1. /\ Len(more) = Len(r) + 1 /\ more[Len(r) + 1] = i /\ Len(r) \in Nat /\ more \in Seq(Inodes)
      /\ more # <<>> /\ \A k \in 1..Len(r) : more[k] = r[k]
  OBVIOUS
<1>2. \A k \in 0..Len(r) : Past(t, more, k) = Past(t, r, k)
  BY PastStays
<1>3. ASSUME NEW k \in 1..Len(r) PROVE Correct(t, more, k) <=> Correct(t, r, k)
  <2>1. k - 1 \in 0..Len(r)
    BY <1>1
  <2>2. Past(t, more, k - 1) = Past(t, r, k - 1) /\ more[k] = r[k]
    BY <1>1, <1>2, <2>1
  <2> QED BY <2>2 DEF Correct
<1> QED BY <1>1, <1>2, <1>3

(* With one log more the judgement is right again, and so is the first that
   is over the budget. *)
LEMMA JudgedStep ==
  ASSUME NEW t \in [Inodes -> Logs], NEW r \in Seq(Inodes), NEW i \in Inodes, NEW snapshot,
         NEW st, NEW fst, Judged(t, r, st, fst, snapshot), st.reader.log.ok,
         NEW u, u = ReadLog(st, t[i], snapshot), NEW more, more = Append(r, i),
         NEW fst2, fst2 = IF fst = 0 /\ u.reader.log.ok /\ u.acc.error # NoError THEN Len(more) ELSE fst
  PROVE  Judged(t, more, u, fst2, snapshot)
<1> DEFINE n == Len(r)
           E == Past(t, r, n)
<1>1. /\ Len(more) = n + 1 /\ more[n + 1] = i /\ n \in Nat /\ more \in Seq(Inodes) /\ more # <<>>
      /\ \A k \in 0..n : Past(t, more, k) = Past(t, r, k)
      /\ \A k \in 1..n : Correct(t, more, k) <=> Correct(t, r, k)
  <2>1. /\ Len(more) = Len(r) + 1 /\ more[Len(r) + 1] = i /\ Len(r) \in Nat
        /\ more \in Seq(Inodes) /\ more # <<>>
    BY CorrectStays
  <2>2. /\ \A k \in 0..Len(r) : Past(t, more, k) = Past(t, r, k)
        /\ \A k \in 1..Len(r) : Correct(t, more, k) <=> Correct(t, r, k)
    <3> HIDE DEF n, E
    <3> QED BY CorrectStays, ZenonT(20)
  <2> QED BY <2>1, <2>2
<1>2. /\ st \in LogStates(snapshot) /\ \A k \in 1..n : Correct(t, r, k)
      /\ Between(st, E, snapshot) /\ FirstOver(t, r, st, fst, snapshot)
  BY DEF Judged
<1>3. E \in Logs /\ t[i] \in Logs /\ n \in 0..n
  <2>1. n \in 0..n
    BY <1>1
  <2>2. \A k \in 0..Len(r) : Past(t, r, k) \in Logs
    BY PastStep
  <2> QED BY <2>1, <2>2
<1>4. /\ u \in LogStates(snapshot) /\ (u.reader.log.ok <=> Closed(t[i]) /\ Good(t[i], E))
      /\ u.reader.log.ok => Between(u, E \o t[i], snapshot)
  BY <1>2, <1>3, ReadLogEnd
<1> HIDE DEF n
<1>5. (n + 1) - 1 = n /\ n + 1 \in 1..(n + 1) /\ n \in 0..n
  BY <1>1
<1>6. Past(t, more, n + 1) = E \o t[i]
  <2>1. Past(t, more, n + 1) = Past(t, more, (n + 1) - 1) \o t[more[n + 1]]
    BY <1>1, <1>5, PastStep
  <2>2. Past(t, more, n) = E
    BY <1>1, <1>5
  <2> QED BY <1>1, <1>5, <2>1, <2>2
<1>7. u.reader.log.ok <=> Correct(t, more, n + 1)
  <2>1. Past(t, more, n) = E
    BY <1>1, <1>5
  <2> QED BY <1>1, <1>4, <1>5, <2>1 DEF Correct
<1>8. \A k \in 1..n : Correct(t, more, k)
  BY <1>1, <1>2
<1>9. \A k \in 1..(n + 1) : k \in 1..n \/ k = n + 1
  BY <1>1
<1>10. ASSUME u.reader.log.ok PROVE FirstOver(t, more, u, fst2, snapshot)
  <2>1. Past(t, more, n + 1) \in Logs /\ Exact(u.acc, Past(t, more, n + 1), snapshot)
    <3>1. E \o t[i] \in Logs
      BY <1>3, IdsJoined
    <3> QED BY <1>4, <1>6, <1>10, <3>1 DEF Between
  <2>2. u.acc.error = NoError <=> ~Over(Past(t, more, n + 1), snapshot)
    BY <2>1, ErrorExact
  <2>3. CASE fst = 0 /\ u.acc.error # NoError
    <3>1. st.acc.error = NoError
      BY <1>2, <2>3 DEF FirstOver
    <3>2. ~Over(E, snapshot)
      BY <1>2, <1>3, <3>1, ErrorExact DEF Between
    <3>3. Past(t, more, (n + 1) - 1) = E
      BY <1>1, <1>5
    <3>4. fst2 = n + 1 /\ n + 1 # 0
      BY <1>1, <1>10, <2>3
    <3> QED BY <1>1, <1>5, <2>2, <2>3, <3>2, <3>3, <3>4 DEF FirstOver
  <2>4. CASE fst = 0 /\ u.acc.error = NoError BY <1>10, <2>4 DEF FirstOver
  <2>5. CASE fst # 0
    <3>1. /\ fst \in 1..n /\ fst2 = fst
          /\ Over(Past(t, r, fst), snapshot) /\ ~Over(Past(t, r, fst - 1), snapshot)
      BY <1>2, <2>5 DEF FirstOver, n
    <3>2. fst \in 0..n /\ fst - 1 \in 0..n /\ fst \in 1..(n + 1)
      BY <1>1, <3>1
    <3>3. Past(t, more, fst) = Past(t, r, fst) /\ Past(t, more, fst - 1) = Past(t, r, fst - 1)
      BY <1>1, <3>2
    <3> QED BY <1>1, <2>5, <3>1, <3>2, <3>3 DEF FirstOver
  <2> QED BY <2>3, <2>4, <2>5
<1>11. u.reader.log.ok => \A k \in 1..Len(more) : Correct(t, more, k)
  BY <1>1, <1>7, <1>8, <1>9
<1>12. \A k \in 1..(Len(more) - 1) : Correct(t, more, k)
  BY <1>1, <1>5, <1>8
<1>13. ~u.reader.log.ok => ~Correct(t, more, Len(more))
  BY <1>1, <1>7
<1>14. u.reader.log.ok => Between(u, Past(t, more, Len(more)), snapshot)
  BY <1>1, <1>4, <1>6
<1> QED BY <1>1, <1>4, <1>10, <1>11, <1>12, <1>13, <1>14 DEF Judged

-----------------------------------------------------------------------------
(* A log is well-formed when it is correct. *)
LEMMA WellFormedCorrect ==
  ASSUME NEW k
  PROVE  WellFormed(k) <=> Correct(text, read, k)
<1> DEFINE log == text[read[k]]
           earlier == Events(k - 1)
<1>1. earlier = Past(text, read, k - 1)
  BY DEF Events, Past
<1>2. Regular(log) <=>
        \A i \in DOMAIN log :
           /\ (i \in Of(log, "session_start")) <=> (i = 1 \/ log[i - 1].kind = "session_end")
           /\ i \in Of(log, "session_start") => log[i].elapsed = 0
           /\ i \notin Of(log, "session_start") =>
                log[i].session = log[i - 1].session /\ log[i].elapsed >= log[i - 1].elapsed
           /\ log[i].kind = "key_sequence" => log[i].duration <= log[i].elapsed /\ log[i].keys # <<>>
           /\ log[i].kind = "mapping_use" => log[i].keys # <<>>
           /\ log[i].kind = "control_key_use" => log[i].count > 0
  BY DEF Regular, Following, Filled, Starts
<1>3. Ids(log) = {log[i].session : i \in Of(log, "session_start")}
      /\ Ids(earlier) = {earlier[i].session : i \in Of(earlier, "session_start")}
      /\ Starts(log) = Of(log, "session_start")
  BY DEF Ids, Starts
<1>4. WellFormed(k) <=> log # <<>> /\ Last(log).kind = "session_end" /\ Regular(log) /\ NewIds(log, earlier)
  <2> HIDE DEF log, earlier
  <2>1. WellFormed(k) <=>
          /\ log # <<>> /\ Last(log).kind = "session_end"
          /\ \A i \in DOMAIN log :
             /\ (i \in Of(log, "session_start")) <=> (i = 1 \/ log[i - 1].kind = "session_end")
             /\ i \in Of(log, "session_start") => log[i].elapsed = 0
             /\ i \notin Of(log, "session_start") =>
                  log[i].session = log[i - 1].session /\ log[i].elapsed >= log[i - 1].elapsed
             /\ log[i].kind = "key_sequence" => log[i].duration <= log[i].elapsed /\ log[i].keys # <<>>
             /\ log[i].kind = "mapping_use" => log[i].keys # <<>>
             /\ log[i].kind = "control_key_use" => log[i].count > 0
          /\ Cardinality(Ids(log)) = Cardinality(Starts(log)) /\ Ids(log) \cap Ids(earlier) = {}
          /\ Cardinality(Ids(log) \cup Ids(earlier)) <= MaxSessions
    BY <1>3 DEF WellFormed, log, earlier
  <2> QED BY <1>2, <2>1 DEF NewIds
<1> QED BY <1>1, <1>4 DEF Correct, Closed, Good

-----------------------------------------------------------------------------
(* The inductive invariant of the command. *)
Hashed(snapshot) ==
  \A m, n \in ToSet(snapshot.mappings) :
    /\ IdOf(m.mode, m.scope, m.lhs) \in MappingIds
    /\ IdOf(m.mode, m.scope, m.lhs) = IdOf(n.mode, n.scope, n.lhs)
         => <<m.mode, m.scope, m.lhs>> = <<n.mode, n.scope, n.lhs>>
GivenTypes ==
  /\ text \in [Inodes -> Logs] /\ keymap.snapshot \in Snapshots /\ Hashed(keymap.snapshot)
  /\ \A a \in answers : a.mapping.lhs \in Seq(Token)
Blamed ==
  IF failure.error = "validation" THEN failure.input = Len(read) /\ ~Sound
  ELSE Sound /\ Len(read) = Len(inputs) /\ first # 0 /\ failure.input = first
Results ==
  /\ failure # None => pc = "done" /\ Blamed
  /\ outcome = "ok" => Sound /\ first = 0 /\ summary = Summarize(state.acc, state.reader, keymap.snapshot)
  /\ summary # None => outcome = "ok"
  /\ payload # None => summary # None /\ payload = Preview(summary)
  /\ accepted \notin {None, Refused} => payload # None /\ accepted \in answers /\ Accepts(accepted, summary)
SnapshotIsValid == pc = "read" \/ outcome = "ok" => ValidSnapshot(keymap.snapshot)
Analysis ==
  GivenTypes /\ Judged(text, read, state, first, keymap.snapshot) /\ SnapshotIsValid /\ Results
CInv == IInv /\ Analysis

(* The invariant holds before the first step. *)
LEMMA InitCInv == Init => CInv
<1> SUFFICES ASSUME Init PROVE CInv
  OBVIOUS
<1>1. IInv
  BY InitInputs, InitIInv
<1>2. PICK s \in Scenarios :
        /\ text = s.text /\ keymap = s.keymap /\ answers = s.answers
        /\ pc = "start" /\ read = <<>> /\ outcome = "running"
        /\ state = [reader |-> NewReader, acc |-> NewAccumulator] /\ first = 0 /\ failure = None
        /\ summary = None /\ payload = None /\ accepted = None
  BY DEF Init
<1>3. GivenTypes
  BY <1>2, ScenarioTypes, HashAssumption DEF GivenTypes, Hashed, Logs
<1>4. Judged(text, read, state, first, keymap.snapshot)
  BY <1>2, JudgedFirst
<1>5. SnapshotIsValid /\ Results
  BY <1>2 DEF SnapshotIsValid, Results
<1> QED BY <1>1, <1>3, <1>4, <1>5 DEF CInv, Analysis

(* What leaves the analysis alone. *)
Aside ==
  /\ pc # "done" /\ read' = read /\ outcome' # "ok" /\ (pc' = "read" => ValidSnapshot(keymap.snapshot))
  /\ UNCHANGED <<fixed, state, first, failure, results>>

(* What happens before the logs are read keeps the invariant. *)
LEMMA AsideKeeps ==
  ASSUME CInv, Aside
  PROVE  Analysis'
<1>1. failure = None /\ outcome = "running" /\ failure' = failure
  BY DEF CInv, Analysis, Results, IInv, Progress, Phases, Aside
<1>2. GivenTypes'
  BY DEF CInv, Analysis, GivenTypes, Aside, fixed
<1>3. Judged(text, read, state, first, keymap.snapshot)'
  BY DEF CInv, Analysis, Aside, fixed
<1>4. SnapshotIsValid'
  BY DEF SnapshotIsValid, Aside, fixed
<1>5. summary = None /\ payload = None /\ accepted \in {None, Refused}
  BY <1>1 DEF CInv, Analysis, Results
<1>6. Results'
  BY <1>1, <1>5 DEF Results, Aside, results, fixed
<1> QED BY <1>2, <1>3, <1>4, <1>6 DEF Analysis

(* A failure before the logs are read leaves the analysis alone. *)
LEMMA FailAside ==
  ASSUME CInv, pc # "done", Fail, UNCHANGED <<fixed, state, first, failure, results>>
  PROVE  Aside
BY DEF Fail, Aside

(* Preparing leaves the analysis alone. *)
LEMMA PrepareAside ==
  ASSUME CInv, Prepare
  PROVE  Aside
<1> USE DEF Aside
<1>1. outcome # "ok" \/ pc = "done"
  BY DEF CInv, IInv, Progress, Phases
<1>2. pc = "read" => ValidSnapshot(keymap.snapshot)
  BY DEF CInv, Analysis, SnapshotIsValid
<1>3. UNCHANGED <<fixed, state, first, failure, results>>
  BY DEF Prepare
<1>4. CASE Start BY <1>1, <1>3, <1>4 DEF Start, Go
<1>5. CASE List BY <1>1, <1>3, <1>5 DEF List, Fail
<1>6. CASE VerifyListing BY <1>1, <1>3, <1>6 DEF VerifyListing, Go, Fail
<1>7. CASE Inspect BY <1>1, <1>3, <1>7 DEF Inspect, Go, Fail
<1>8. CASE OpenChild BY <1>1, <1>3, <1>8 DEF OpenChild, Go, Fail
<1>9. CASE MatchChild BY <1>1, <1>3, <1>9 DEF MatchChild, Go, Fail
<1>10. CASE EndDiscovery BY <1>1, <1>3, <1>10 DEF EndDiscovery, Go, Fail
<1>11. CASE ResolveInput BY <1>1, <1>3, <1>11 DEF ResolveInput, Go, Fail
<1>12. CASE EndExplicit BY <1>1, <1>3, <1>12 DEF EndExplicit, Go, Fail
<1>13. CASE Others
  <2>1. pc # "done" /\ UNCHANGED run
    BY <1>13 DEF Others, Put, Unlink, LinkTo, ChangeMode, ReplaceDirectory, Change
  <2> QED BY <1>1, <1>2, <1>3, <2>1 DEF run
<1>14. CASE Break BY <1>3, <1>14, FailAside DEF Break
<1> QED BY <1>4, <1>5, <1>6, <1>7, <1>8, <1>9, <1>10, <1>11, <1>12, <1>13, <1>14 DEF Prepare, Scan

(* Checking the outputs leaves the analysis alone, and lets only a valid
   snapshot pass. *)
LEMMA CheckAside ==
  ASSUME CInv, CheckOutputs
  PROVE  Aside
<1>1. UNCHANGED <<fixed, state, first, failure, results>>
  BY DEF CheckOutputs
<1>2. CASE ValidSnapshot(keymap.snapshot) /\ ResolveOutputs
  <2>1. CASE Fail BY <1>1, <1>2, <2>1, FailAside DEF ResolveOutputs
  <2>2. CASE Go("read")
    <3>1. pc = "resolve" /\ outcome = "running"
      BY <1>2 DEF CInv, IInv, Progress, Phases, ResolveOutputs
    <3> QED BY <1>1, <1>2, <2>2, <3>1 DEF Aside, Go
  <2> QED BY <1>2, <2>1, <2>2 DEF ResolveOutputs
<1>3. CASE Break BY <1>1, <1>3, FailAside DEF Break
<1> QED BY <1>2, <1>3 DEF CheckOutputs

(* Reading the next log keeps the invariant. *)
LEMMA AnalyzeKeeps ==
  ASSUME CInv, IInv', AnalyzeNext
  PROVE  Analysis'
<1>1. pc = "read" /\ Sound /\ ReadNext /\ UNCHANGED <<fixed, failure, results>>
      /\ Len(read) < Len(inputs)
  BY DEF AnalyzeNext, ReadNext
<1>2. read \in Seq(Inodes) /\ inputs \in Seq(Inputs) /\ TypeOK'
  BY DEF CInv, IInv, TypeOK
<1>3. CASE Fail
  <2>1. read' = read
    BY <1>3 DEF Fail
  <2>2. ~(Len(read') > Len(read))
    BY <1>2, <2>1
  <2>3. UNCHANGED <<state, first>>
    BY <2>2 DEF AnalyzeNext
  <2> QED BY <1>1, <1>3, <2>3, FailAside, AsideKeeps
<1>4. CASE ~Fail
  <2> DEFINE i == AtPath(inputs[Len(read) + 1].name)
  <2>1. pc' = "read" /\ outcome' = outcome /\ read' = Append(read, i)
    BY <1>1, <1>4 DEF ReadNext
  <2> HIDE DEF i
  <2>2. Len(read') = Len(read) + 1 /\ read'[Len(read) + 1] = i /\ Len(read) \in Nat
    BY <1>2, <2>1
  <2>3. i \in Inodes
    <3>1. read' \in Seq(Inodes) /\ Len(read) + 1 \in 1..Len(read')
      BY <1>2, <2>2 DEF TypeOK
    <3> QED BY <2>2, <3>1
  <2>4. Last(read') = i
    BY <2>2 DEF Last
  <2>5. /\ state' = ReadLog(state, text[i], keymap.snapshot)
        /\ first' = IF first = 0 /\ state'.reader.log.ok /\ state'.acc.error # NoError
                    THEN Len(read') ELSE first
    <3>1. Len(read') > Len(read)
      BY <2>2
    <3> QED BY <2>4, <3>1 DEF AnalyzeNext
  <2>6. text' = text /\ keymap' = keymap /\ answers' = answers
    BY <1>1 DEF fixed
  <2>7. Judged(text, read', state', first', keymap.snapshot)
    BY <1>1, <1>2, <2>1, <2>3, <2>5, JudgedStep DEF CInv, Analysis, GivenTypes, Sound
  <2>8. Judged(text, read, state, first, keymap.snapshot)'
    BY <2>6, <2>7
  <2>9. GivenTypes'
    BY <2>6 DEF CInv, Analysis, GivenTypes
  <2>10. outcome = "running" /\ failure = None
    BY <1>1 DEF CInv, Analysis, Results, IInv, Progress, Phases
  <2>11. summary = None /\ payload = None /\ accepted \in {None, Refused}
    BY <2>10 DEF CInv, Analysis, Results
  <2>12. Results'
    BY <1>1, <2>1, <2>10, <2>11 DEF Results, results
  <2>13. SnapshotIsValid'
    BY <1>1, <2>6 DEF CInv, Analysis, SnapshotIsValid
  <2> QED BY <2>8, <2>9, <2>12, <2>13 DEF Analysis
<1> QED BY <1>3, <1>4

-----------------------------------------------------------------------------
(* What leaves the logs and what is known of them. *)
Settled == UNCHANGED <<text, keymap, answers, read, inputs, state, first>>

(* What is known of the logs stays while they do. *)
LEMMA SettledKeeps ==
  ASSUME CInv, Settled
  PROVE  GivenTypes' /\ Judged(text, read, state, first, keymap.snapshot)'
BY DEF CInv, Analysis, GivenTypes, Settled

(* Refusing keeps the invariant. *)
LEMMA RefuseKeeps ==
  ASSUME CInv, RefuseLog \/ RefuseAnalysis
  PROVE  Analysis'
<1>1. pc = "read" /\ Fail
  BY DEF RefuseLog, RefuseAnalysis, Reject
<1>2. outcome = "running"
  BY <1>1 DEF CInv, IInv, Progress, Phases
<1>3. summary = None /\ payload = None /\ accepted \in {None, Refused}
  BY <1>2 DEF CInv, Analysis, Results
<1>4. Settled /\ UNCHANGED results
  BY DEF RefuseLog, RefuseAnalysis, Reject, Fail, Settled, fixed
<1>5. pc' = "done" /\ outcome' = "failed"
  BY <1>1 DEF Fail
<1>6. Blamed'
  <2>1. CASE RefuseLog
    BY <1>4, <2>1 DEF RefuseLog, Blamed, Sound, Settled
  <2>2. CASE RefuseAnalysis
    <3>1. failure'.error = state.acc.error /\ failure'.input = first /\ Sound /\ first # 0
          /\ Len(read) = Len(inputs)
      BY <2>2 DEF RefuseAnalysis, AllRead
    <3>2. state.acc.error # "validation"
      <4>1. state.acc \in Accumulators
        BY DEF CInv, Analysis, Judged, LogStates, Known
      <4> QED BY <4>1 DEF Accumulators, Errors, NoError
    <3> QED BY <1>4, <3>1, <3>2 DEF Blamed, Settled, Sound
  <2> QED BY <2>1, <2>2
<1>7. Results'
  BY <1>3, <1>4, <1>5, <1>6 DEF Results, results
<1>8. SnapshotIsValid'
  BY <1>5 DEF SnapshotIsValid
<1> QED BY <1>4, <1>7, <1>8, SettledKeeps DEF Analysis

(* Publishing keeps the invariant. *)
LEMMA PublishKeeps ==
  ASSUME CInv, Publish
  PROVE  Analysis'
<1>1. pc = "read" /\ outcome' = "ok" /\ pc' = "done" /\ Sound /\ first = 0
      /\ summary' = Summarize(state.acc, state.reader, keymap.snapshot)
  BY DEF Publish, AllRead, EndReading
<1>2. outcome = "running" /\ failure = None
  BY <1>1 DEF CInv, Analysis, Results, IInv, Progress, Phases
<1>3. summary = None /\ payload = None /\ accepted \in {None, Refused}
  BY <1>2 DEF CInv, Analysis, Results
<1>4. Settled /\ UNCHANGED <<failure, payload, accepted>>
  BY DEF Publish, EndReading, Settled, fixed
<1>5. Results'
  <2>1. Sound'
    BY <1>1, <1>4 DEF Sound, Settled
  <2>2. first' = 0 /\ summary' = Summarize(state.acc, state.reader, keymap.snapshot)'
    BY <1>1, <1>4 DEF Settled
  <2>3. failure' = None /\ payload' = None /\ accepted' \in {None, Refused}
    BY <1>2, <1>3, <1>4
  <2> QED BY <1>1, <2>1, <2>2, <2>3 DEF Results
<1>6. SnapshotIsValid'
  BY <1>1, <1>4 DEF CInv, Analysis, SnapshotIsValid, Settled
<1> QED BY <1>4, <1>5, <1>6, SettledKeeps DEF Analysis

(* Preview and suggestions keep the invariant. *)
LEMMA AfterKeeps ==
  ASSUME CInv, RunPreview \/ RunSuggestions
  PROVE  Analysis'
<1>1. UNCHANGED <<inputVars, fixed, state, first, failure, summary>>
  BY DEF RunPreview, RunSuggestions
<1>2. Settled /\ UNCHANGED <<pc, outcome, failure, summary>>
  BY <1>1 DEF Settled, fixed, inputVars, given, run
<1>3. SnapshotIsValid'
  BY <1>2 DEF CInv, Analysis, SnapshotIsValid, Settled
<1>4. (failure # None => pc = "done" /\ Blamed)'
  BY <1>2 DEF CInv, Analysis, Results, Blamed, Sound, Settled
<1>5. /\ (outcome = "ok" => Sound /\ first = 0 /\ summary = Summarize(state.acc, state.reader, keymap.snapshot))'
      /\ (summary # None => outcome = "ok")'
  BY <1>2 DEF CInv, Analysis, Results, Sound, Settled
<1>6. (payload # None => summary # None /\ payload = Preview(summary))'
  <2>1. CASE RunPreview BY <1>2, <2>1 DEF RunPreview
  <2>2. CASE RunSuggestions BY <1>2, <2>2 DEF RunSuggestions, CInv, Analysis, Results
  <2> QED BY <2>1, <2>2
<1>7. (accepted \notin {None, Refused} =>
         payload # None /\ accepted \in answers /\ Accepts(accepted, summary))'
  <2>1. CASE RunPreview
    <3>1. payload = None /\ accepted' = accepted
      BY <2>1 DEF RunPreview
    <3> QED BY <3>1 DEF CInv, Analysis, Results
  <2>2. CASE RunSuggestions
    <3>1. payload' = payload /\ payload # None /\ answers' = answers /\ summary' = summary
      BY <1>2, <2>2 DEF RunSuggestions, Settled
    <3>2. PICK s \in answers : accepted' = IF Accepts(s, summary) THEN s ELSE Refused
      BY <2>2 DEF RunSuggestions
    <3> QED BY <3>1, <3>2
  <2> QED BY <2>1, <2>2
<1>8. Results'
  BY <1>4, <1>5, <1>6, <1>7 DEF Results
<1> QED BY <1>2, <1>3, <1>8, SettledKeeps DEF Analysis

(* Doing nothing keeps the invariant. *)
LEMMA StutterKeeps ==
  ASSUME CInv, UNCHANGED vars
  PROVE  Analysis'
<1>1. Settled /\ UNCHANGED <<pc, outcome, failure, summary, payload, accepted>>
  BY DEF vars, Settled, fixed, inputVars, given, run, results
<1>2. SnapshotIsValid'
  BY <1>1 DEF CInv, Analysis, SnapshotIsValid, Settled
<1>3. Results'
  BY <1>1 DEF CInv, Analysis, Results, Blamed, Sound, Settled
<1> QED BY <1>1, <1>2, <1>3, SettledKeeps DEF Analysis

(* Every step keeps the invariant. *)
LEMMA StepCInv == CInv /\ [Next]_vars => CInv'
<1> SUFFICES ASSUME CInv, [Next]_vars PROVE CInv'
  OBVIOUS
<1>1. IInv'
  BY NextInputs, StepIInv DEF CInv
<1> SUFFICES Analysis'
  BY <1>1 DEF CInv
<1>2. CASE Prepare BY <1>2, PrepareAside, AsideKeeps
<1>3. CASE CheckOutputs BY <1>3, CheckAside, AsideKeeps
<1>4. CASE AnalyzeNext BY <1>1, <1>4, AnalyzeKeeps
<1>5. CASE RefuseLog \/ RefuseAnalysis BY <1>5, RefuseKeeps
<1>6. CASE Publish BY <1>6, PublishKeeps
<1>7. CASE RunPreview \/ RunSuggestions BY <1>7, AfterKeeps
<1>8. CASE UNCHANGED vars BY <1>8, StutterKeeps
<1> QED BY <1>1, <1>2, <1>3, <1>4, <1>5, <1>6, <1>7, <1>8 DEF Next

(* The invariant of the command always holds. *)
THEOREM CommandInvariant == Spec => []CInv
BY InitCInv, StepCInv, PTL DEF Spec

-----------------------------------------------------------------------------
(* The input that is blamed. *)
LEMMA PastEvents ==
  ASSUME CInv, NEW k \in 0..Len(read)
  PROVE  Events(k) = Past(text, read, k) /\ Events(k) \in Logs
<1>1. Events(k) = Past(text, read, k)
  BY DEF Events, Past
<1>2. text \in [Inodes -> Logs] /\ read \in Seq(Inodes)
  BY DEF CInv, Analysis, GivenTypes, IInv, TypeOK
<1> QED BY <1>1, <1>2, PastStep

(* By the invariant the blamed input is the first bad one. *)
LEMMA FirstBadInputHolds ==
  ASSUME CInv
  PROVE  FirstBadInput
<1>1. Judged(text, read, state, first, keymap.snapshot) /\ Results
  BY DEF CInv, Analysis
<1>2. read \in Seq(Inodes) /\ Len(read) \in Nat /\ DOMAIN read = 1..Len(read)
  BY DEF CInv, IInv, TypeOK
<1>3. Sound => /\ \A k \in DOMAIN read : WellFormed(k)
               /\ Between(state, Past(text, read, Len(read)), keymap.snapshot)
               /\ FirstOver(text, read, state, first, keymap.snapshot)
  BY <1>1, <1>2, WellFormedCorrect DEF Judged, Sound
<1>4. ASSUME outcome = "ok" PROVE (\A k \in DOMAIN read : WellFormed(k)) /\ ~OverBudget(All)
  <2>1. Sound /\ first = 0
    BY <1>1, <1>4 DEF Results
  <2>2. state.acc.error = NoError
    BY <1>3, <2>1 DEF FirstOver
  <2>3. Len(read) \in 0..Len(read)
    BY <1>2
  <2>4. All = Past(text, read, Len(read)) /\ All \in Logs
    BY <2>3, PastEvents DEF All
  <2>5. Exact(state.acc, All, keymap.snapshot)
    BY <1>3, <2>1, <2>4 DEF Between
  <2>6. ~Over(All, keymap.snapshot)
    BY <2>2, <2>4, <2>5, ErrorExact
  <2> QED BY <1>3, <2>1, <2>4, <2>6, BudgetExact
<1>5. ASSUME failure # None, failure.error = "validation"
      PROVE  ~WellFormed(failure.input) /\ \A k \in 1..(failure.input - 1) : WellFormed(k)
  <2>1. failure.input = Len(read) /\ ~Sound
    BY <1>1, <1>5 DEF Results, Blamed
  <2>2. ~Correct(text, read, Len(read)) /\ \A k \in 1..(Len(read) - 1) : Correct(text, read, k)
    BY <1>1, <2>1 DEF Judged, Sound
  <2> QED BY <2>1, <2>2, WellFormedCorrect
<1>6. ASSUME failure # None, failure.error # "validation"
      PROVE  /\ \A k \in DOMAIN read : WellFormed(k)
             /\ Len(read) = Len(inputs)
             /\ OverBudget(Events(failure.input)) /\ ~OverBudget(Events(failure.input - 1))
  <2>1. Sound /\ Len(read) = Len(inputs) /\ first # 0 /\ failure.input = first
    BY <1>1, <1>6 DEF Results, Blamed
  <2>2. /\ first \in 1..Len(read)
        /\ Over(Past(text, read, first), keymap.snapshot) /\ ~Over(Past(text, read, first - 1), keymap.snapshot)
    BY <1>3, <2>1 DEF FirstOver
  <2>3. first \in 0..Len(read) /\ first - 1 \in 0..Len(read)
    BY <1>2, <2>2
  <2>4. OverBudget(Events(first)) /\ ~OverBudget(Events(first - 1))
    BY <2>2, <2>3, PastEvents, BudgetExact
  <2> QED BY <1>3, <2>1, <2>4
<1> QED BY <1>4, <1>5, <1>6 DEF FirstBadInput

(* An analysis succeeds exactly when all logs are well-formed and together   *)
(* fit the budget, and otherwise blames the first input that is malformed or *)
(* goes over it: for all logs, snapshots and limits (FirstBadInput).         *)
THEOREM BlameIsExact == Spec => []FirstBadInput
BY CommandInvariant, FirstBadInputHolds, PTL

-----------------------------------------------------------------------------
(* The orders of tokens, of left-hand sides and of mappings.                 *)

(* The order of tokens is strict and total. *)
LEMMA LessOrder ==
  /\ \A x \in Token : Position(x) \in Nat
  /\ \A x, y \in Token : (Less(x, y) /\ ~Less(y, x)) \/ (Less(y, x) /\ ~Less(x, y)) \/ (x = y /\ ~Less(x, y))
  /\ \A x, y, z \in Token : Less(x, y) /\ Less(y, z) => Less(x, z)
<1>1. Order \in Seq(Token) /\ ToSet(Order) = Token
  BY AggregationConstants
<1>2. \A x \in Token : Position(x) \in DOMAIN Order /\ Order[Position(x)] = x
  BY <1>1 DEF ToSet, Position
<1>3. \A x \in Token : Position(x) \in Nat
  BY <1>1, <1>2
<1>4. \A x, y \in Token : Position(x) = Position(y) => x = y
  BY <1>2
<1> QED
  BY <1>3, <1>4 DEF Less

(* Left-hand sides are compared at their first difference. *)
AgreeTo(a, b, n) == \A j \in 1..n : a[j] = b[j]
BeforeAt(a, b, i) ==
  i \in 1..Len(b) /\ i <= Len(a) + 1 /\ AgreeTo(a, b, i - 1) /\ (i <= Len(a) => Less(a[i], b[i]))

(* Prefixes are equal when their entries are. *)
LEMMA PrefixAgree ==
  ASSUME NEW a \in Seq(Token), NEW b \in Seq(Token), NEW n \in Nat, n <= Len(a), n <= Len(b)
  PROVE  SubSeq(a, 1, n) = SubSeq(b, 1, n) <=> AgreeTo(a, b, n)
<1>1. /\ SubSeq(a, 1, n) \in Seq(Token) /\ Len(SubSeq(a, 1, n)) = n
      /\ \A j \in 1..n : SubSeq(a, 1, n)[j] = a[j]
  OBVIOUS
<1>2. /\ SubSeq(b, 1, n) \in Seq(Token) /\ Len(SubSeq(b, 1, n)) = n
      /\ \A j \in 1..n : SubSeq(b, 1, n)[j] = b[j]
  OBVIOUS
<1>3. SubSeq(a, 1, n) = SubSeq(b, 1, n) => AgreeTo(a, b, n)
  BY <1>1, <1>2 DEF AgreeTo
<1>4. AgreeTo(a, b, n) => SubSeq(a, 1, n) = SubSeq(b, 1, n)
  BY <1>1, <1>2 DEF AgreeTo
<1> QED
  BY <1>3, <1>4

(* The order of left-hand sides, at their first difference. *)
LEMMA LhsBeforeAt ==
  ASSUME NEW a \in Seq(Token), NEW b \in Seq(Token)
  PROVE  LhsBefore(a, b) <=> \E i : BeforeAt(a, b, i)
<1>1. \A i \in 1..Len(b) : i <= Len(a) + 1 =>
        (SubSeq(a, 1, i - 1) = SubSeq(b, 1, i - 1) <=> AgreeTo(a, b, i - 1))
  <2> TAKE i \in 1..Len(b)
  <2> HAVE i <= Len(a) + 1
  <2>1. i - 1 \in Nat /\ i - 1 <= Len(a) /\ i - 1 <= Len(b)
    OBVIOUS
  <2> QED
    BY <2>1, PrefixAgree
<1> QED
  BY <1>1 DEF LhsBefore, BeforeAt

(* Of two left-hand sides one at most comes before the other. *)
LEMMA LhsAsymmetric ==
  ASSUME NEW a \in Seq(Token), NEW b \in Seq(Token), LhsBefore(a, b)
  PROVE  ~LhsBefore(b, a)
<1> SUFFICES ASSUME LhsBefore(b, a)
             PROVE  FALSE
  OBVIOUS
<1>1. PICK i : BeforeAt(a, b, i)
  BY LhsBeforeAt
<1>2. PICK j : BeforeAt(b, a, j)
  BY LhsBeforeAt
<1>3. Len(a) \in Nat /\ Len(b) \in Nat /\ i \in Nat /\ j \in Nat
  BY <1>1, <1>2 DEF BeforeAt
<1>4. \A k \in 1..Len(a) : a[k] \in Token
  OBVIOUS
<1>5. \A k \in 1..Len(b) : b[k] \in Token
  OBVIOUS
<1>6. CASE i < j
  <2>1. i \in 1..Len(a) /\ i \in 1..Len(b) /\ i \in 1..(j - 1)
    BY <1>1, <1>2, <1>3, <1>6 DEF BeforeAt
  <2>2. b[i] = a[i] /\ Less(a[i], b[i])
    BY <2>1, <1>1, <1>2 DEF BeforeAt, AgreeTo
  <2> QED
    BY <2>1, <2>2, <1>4, LessOrder
<1>7. CASE j < i
  <2>1. j \in 1..Len(a) /\ j \in 1..Len(b) /\ j \in 1..(i - 1)
    BY <1>1, <1>2, <1>3, <1>7 DEF BeforeAt
  <2>2. b[j] = a[j] /\ Less(b[j], a[j])
    BY <2>1, <1>1, <1>2 DEF BeforeAt, AgreeTo
  <2> QED
    BY <2>1, <2>2, <1>4, LessOrder
<1>8. CASE i = j
  <2>1. i \in 1..Len(a) /\ i \in 1..Len(b)
    BY <1>1, <1>2, <1>3, <1>8 DEF BeforeAt
  <2>2. Less(b[i], a[i]) /\ Less(a[i], b[i])
    BY <2>1, <1>1, <1>2, <1>8 DEF BeforeAt, AgreeTo
  <2> QED
    BY <2>1, <2>2, <1>4, <1>5, LessOrder
<1> QED
  BY <1>3, <1>6, <1>7, <1>8

(* Left-hand sides are ordered transitively. *)
LEMMA LhsTransitive ==
  ASSUME NEW a \in Seq(Token), NEW b \in Seq(Token), NEW c \in Seq(Token), LhsBefore(a, b), LhsBefore(b, c)
  PROVE  LhsBefore(a, c)
<1>1. PICK i : BeforeAt(a, b, i)
  BY LhsBeforeAt
<1>2. PICK j : BeforeAt(b, c, j)
  BY LhsBeforeAt
<1>3. Len(a) \in Nat /\ Len(b) \in Nat /\ Len(c) \in Nat /\ i \in Nat /\ j \in Nat
  BY <1>1, <1>2 DEF BeforeAt
<1>4. /\ \A k \in 1..Len(a) : a[k] \in Token
      /\ \A k \in 1..Len(b) : b[k] \in Token
      /\ \A k \in 1..Len(c) : c[k] \in Token
  OBVIOUS
<1>6. CASE i < j
  <2>1. i \in 1..Len(c) /\ i \in 1..(j - 1) /\ i <= Len(a) + 1 /\ \A k \in 1..(i - 1) : k \in 1..(j - 1)
    BY <1>1, <1>2, <1>3, <1>6 DEF BeforeAt
  <2>2. AgreeTo(a, c, i - 1) /\ b[i] = c[i]
    BY <2>1, <1>1, <1>2 DEF BeforeAt, AgreeTo
  <2>3. i <= Len(a) => Less(a[i], c[i])
    BY <2>2, <1>1 DEF BeforeAt
  <2>4. BeforeAt(a, c, i)
    BY <2>1, <2>2, <2>3 DEF BeforeAt
  <2> QED
    BY <2>4, LhsBeforeAt
<1>7. CASE j < i
  <2>1. /\ j \in 1..Len(c) /\ j \in 1..(i - 1) /\ j <= Len(a) + 1 /\ j <= Len(b)
        /\ \A k \in 1..(j - 1) : k \in 1..(i - 1)
    BY <1>1, <1>2, <1>3, <1>7 DEF BeforeAt
  <2>2. AgreeTo(a, c, j - 1) /\ a[j] = b[j]
    BY <2>1, <1>1, <1>2 DEF BeforeAt, AgreeTo
  <2>3. j <= Len(a) => Less(a[j], c[j])
    BY <2>1, <2>2, <1>2 DEF BeforeAt
  <2>4. BeforeAt(a, c, j)
    BY <2>1, <2>2, <2>3 DEF BeforeAt
  <2> QED
    BY <2>4, LhsBeforeAt
<1>8. CASE i = j
  <2>1. i \in 1..Len(c) /\ i <= Len(a) + 1 /\ i \in 1..Len(b) /\ (i <= Len(a) => i \in 1..Len(a))
    BY <1>1, <1>2, <1>3, <1>8 DEF BeforeAt
  <2>2. AgreeTo(a, c, i - 1)
    BY <1>1, <1>2, <1>8 DEF BeforeAt, AgreeTo
  <2>3. i <= Len(a) => Less(a[i], b[i]) /\ Less(b[i], c[i])
    BY <2>1, <1>1, <1>2, <1>8 DEF BeforeAt
  <2>4. i <= Len(a) => Less(a[i], c[i])
    BY <2>1, <2>3, <1>4, LessOrder
  <2>5. BeforeAt(a, c, i)
    BY <2>1, <2>2, <2>4 DEF BeforeAt
  <2> QED
    BY <2>5, LhsBeforeAt
<1> QED
  BY <1>3, <1>6, <1>7, <1>8

(* Mappings as a snapshot holds them. *)
SnapshotMappings == [mapping_id : Token, mode : SequenceModes, scope : Scopes, lhs : Seq(Token)]

(* The fields of a mapping. *)
LEMMA MappingFields ==
  ASSUME NEW m \in SnapshotMappings
  PROVE  /\ m.mapping_id \in Token /\ m.mode \in SequenceModes /\ m.scope \in Scopes /\ m.lhs \in Seq(Token)
         /\ ModeRank(m.mode) \in 1..3
<1>1. m.mapping_id \in Token /\ m.mode \in SequenceModes /\ m.scope \in Scopes /\ m.lhs \in Seq(Token)
  BY DEF SnapshotMappings
<1> QED
  BY <1>1 DEF ModeRank, SequenceModes

(* Of two mappings one at most comes before the other. *)
LEMMA MappingAsymmetric ==
  ASSUME NEW a \in SnapshotMappings, NEW b \in SnapshotMappings, MappingBefore(a, b)
  PROVE  ~MappingBefore(b, a)
<1>1. /\ a.mode \in SequenceModes /\ a.lhs \in Seq(Token) /\ ModeRank(a.mode) \in 1..3
      /\ b.mode \in SequenceModes /\ b.lhs \in Seq(Token) /\ ModeRank(b.mode) \in 1..3
  BY MappingFields
<1>2. LhsBefore(a.lhs, b.lhs) => ~LhsBefore(b.lhs, a.lhs)
  BY <1>1, LhsAsymmetric
<1>3. CASE ModeRank(a.mode) < ModeRank(b.mode)
  <2>1. ~(ModeRank(b.mode) < ModeRank(a.mode)) /\ a.mode # b.mode
    BY <1>1, <1>3
  <2> QED
    BY <2>1 DEF MappingBefore
<1>4. CASE a.mode = b.mode /\ LhsBefore(a.lhs, b.lhs)
  <2>1. ~(ModeRank(b.mode) < ModeRank(a.mode))
    BY <1>1, <1>4
  <2>2. a.lhs # b.lhs
    BY <1>2, <1>4
  <2> QED
    BY <2>1, <2>2, <1>2, <1>4 DEF MappingBefore
<1>5. CASE a.mode = b.mode /\ a.lhs = b.lhs /\ a.scope = "buffer" /\ b.scope = "global"
  <2>1. ~(ModeRank(b.mode) < ModeRank(a.mode))
    BY <1>1, <1>5
  <2>2. ~LhsBefore(b.lhs, a.lhs)
    BY <1>2, <1>5
  <2> QED
    BY <2>1, <2>2, <1>5 DEF MappingBefore
<1> QED
  BY <1>3, <1>4, <1>5 DEF MappingBefore

(* Modes differ by their ranks. *)
LEMMA RankOfMode ==
  \A x, y \in SequenceModes : ModeRank(x) = ModeRank(y) => x = y
BY DEF ModeRank, SequenceModes

(* Mappings are ordered transitively. *)
LEMMA MappingTransitive ==
  ASSUME NEW a \in SnapshotMappings, NEW b \in SnapshotMappings, NEW c \in SnapshotMappings,
         MappingBefore(a, b), MappingBefore(b, c)
  PROVE  MappingBefore(a, c)
<1>1. /\ a.mode \in SequenceModes /\ a.lhs \in Seq(Token) /\ ModeRank(a.mode) \in 1..3
      /\ b.mode \in SequenceModes /\ b.lhs \in Seq(Token) /\ ModeRank(b.mode) \in 1..3
      /\ c.mode \in SequenceModes /\ c.lhs \in Seq(Token) /\ ModeRank(c.mode) \in 1..3
  BY MappingFields
<1>2. LhsBefore(a.lhs, b.lhs) /\ LhsBefore(b.lhs, c.lhs) => LhsBefore(a.lhs, c.lhs)
  BY <1>1, LhsTransitive
<1>3. CASE ModeRank(a.mode) < ModeRank(b.mode) \/ ModeRank(b.mode) < ModeRank(c.mode)
  <2>1. ModeRank(a.mode) <= ModeRank(b.mode) /\ ModeRank(b.mode) <= ModeRank(c.mode)
    BY <1>1 DEF MappingBefore
  <2>2. ModeRank(a.mode) < ModeRank(c.mode)
    BY <2>1, <1>1, <1>3
  <2> QED
    BY <2>2 DEF MappingBefore
<1>4. CASE ~(ModeRank(a.mode) < ModeRank(b.mode) \/ ModeRank(b.mode) < ModeRank(c.mode))
  <2>1. a.mode = b.mode /\ b.mode = c.mode
    BY <1>4 DEF MappingBefore
  <2>2. /\ \/ LhsBefore(a.lhs, b.lhs)
           \/ a.lhs = b.lhs /\ a.scope = "buffer" /\ b.scope = "global"
        /\ \/ LhsBefore(b.lhs, c.lhs)
           \/ b.lhs = c.lhs /\ b.scope = "buffer" /\ c.scope = "global"
    BY <1>4 DEF MappingBefore
  <2>3. LhsBefore(a.lhs, c.lhs)
    BY <2>2, <1>2
  <2> QED
    BY <2>1, <2>3 DEF MappingBefore
<1> QED
  BY <1>3, <1>4

-----------------------------------------------------------------------------
(* A sorted sequence is known from the set of its mappings.                  *)
InOrder(s) == \A i, j \in DOMAIN s : i < j => MappingBefore(s[i], s[j])
EarlierIn(S, x) == {y \in S : MappingBefore(y, x)}

(* The numbers up to one. *)
LEMMA UpTo ==
  ASSUME NEW n \in Nat
  PROVE  IsFiniteSet(1..n) /\ Cardinality(1..n) = n
BY FS_Interval

(* A sequence of the elements of a set holds each of them once. *)
LEMMA SequenceOfSet ==
  ASSUME NEW S, IsFiniteSet(S), NEW s \in SetToSeqs(S)
  PROVE  /\ DOMAIN s = 1..Cardinality(S) /\ Cardinality(S) \in Nat
         /\ \A i \in DOMAIN s : s[i] \in S
         /\ \A i, j \in DOMAIN s : i # j => s[i] # s[j]
         /\ \A x \in S : \E i \in DOMAIN s : s[i] = x
<1>1. Cardinality(S) \in Nat
  BY FS_CardinalityType
<1>2. s \in [1..Cardinality(S) -> S] /\ \A i, j \in 1..Cardinality(S) : i # j => s[i] # s[j]
  BY DEF SetToSeqs
<1>3. s \in Injection(1..Cardinality(S), S)
  BY <1>2 DEF Injection, IsInjective
<1>4. IsFiniteSet(1..Cardinality(S)) /\ Cardinality(1..Cardinality(S)) = Cardinality(S)
  BY <1>1, FS_Interval
<1>5. s \in Surjection(1..Cardinality(S), S)
  BY <1>3, <1>4, FS_Injection
<1>6. \A x \in S : \E i \in 1..Cardinality(S) : s[i] = x
  BY <1>5 DEF Surjection
<1> QED
  BY <1>1, <1>2, <1>6

(* In a sorted sequence the elements before one are as many as its place
   says. *)
LEMMA SortedRank ==
  ASSUME NEW S \in SUBSET SnapshotMappings, IsFiniteSet(S), NEW s \in SetToSeqs(S), InOrder(s), NEW i \in DOMAIN s
  PROVE  Cardinality(EarlierIn(S, s[i])) = i - 1 /\ i \in Nat
<1>1. /\ DOMAIN s = 1..Cardinality(S) /\ Cardinality(S) \in Nat
      /\ \A k \in DOMAIN s : s[k] \in S
      /\ \A k, j \in DOMAIN s : k # j => s[k] # s[j]
      /\ \A x \in S : \E k \in DOMAIN s : s[k] = x
  BY SequenceOfSet
<1>2. i \in Nat /\ \A j \in 1..(i - 1) : j \in DOMAIN s /\ j < i
  BY <1>1
<1> DEFINE f == [j \in 1..(i - 1) |-> s[j]]
<1>3. OneToOne(f, 1..(i - 1))
  <2>1. \A j, k \in 1..(i - 1) : f[j] = f[k] => j = k
    BY <1>1, <1>2
  <2> QED
    BY <2>1 DEF OneToOne
<1>4. EarlierIn(S, s[i]) = ImageOf(f, 1..(i - 1))
  <2>1. ASSUME NEW j \in 1..(i - 1)
        PROVE  f[j] \in EarlierIn(S, s[i])
    BY <1>1, <1>2 DEF EarlierIn, InOrder
  <2>2. ASSUME NEW x \in EarlierIn(S, s[i])
        PROVE  x \in ImageOf(f, 1..(i - 1))
    <3>1. x \in S /\ MappingBefore(x, s[i])
      BY DEF EarlierIn
    <3>2. PICK k \in DOMAIN s : s[k] = x
      BY <1>1, <3>1
    <3>3. ~MappingBefore(s[i], x)
      BY <3>1, <1>1, MappingAsymmetric
    <3>4. k # i /\ ~(i < k)
      BY <3>1, <3>2, <3>3 DEF InOrder
    <3>5. k \in 1..(i - 1)
      BY <3>4, <1>1, <1>2
    <3> QED
      BY <3>2, <3>5 DEF ImageOf
  <2> QED
    BY <2>1, <2>2 DEF ImageOf
<1>5. IsFiniteSet(1..(i - 1)) /\ Cardinality(1..(i - 1)) = i - 1
  <2>1. i - 1 \in Nat
    BY <1>1
  <2> QED
    BY <2>1, FS_Interval
<1> HIDE DEF f
<1>6. Cardinality(EarlierIn(S, s[i])) = Cardinality(1..(i - 1))
  BY <1>3, <1>4, <1>5, ImageSize
<1> QED
  BY <1>2, <1>5, <1>6

(* There is one way to sort a set. *)
LEMMA SortedUnique ==
  ASSUME NEW S \in SUBSET SnapshotMappings, IsFiniteSet(S),
         NEW s \in SetToSeqs(S), InOrder(s), NEW t \in SetToSeqs(S), InOrder(t)
  PROVE  s = t
<1>1. /\ DOMAIN s = 1..Cardinality(S)
      /\ \A k \in DOMAIN s : s[k] \in S
  BY SequenceOfSet
<1>2. /\ DOMAIN t = 1..Cardinality(S)
      /\ \A x \in S : \E k \in DOMAIN t : t[k] = x
  BY SequenceOfSet
<1>0. DOMAIN s = DOMAIN t
  BY <1>1, <1>2
<1>3. ASSUME NEW i \in DOMAIN s
      PROVE  s[i] = t[i]
  <2>1. PICK k \in DOMAIN t : t[k] = s[i]
    BY <1>1, <1>2
  <2>2. Cardinality(EarlierIn(S, s[i])) = i - 1 /\ i \in Nat
    BY SortedRank
  <2>3. Cardinality(EarlierIn(S, t[k])) = k - 1 /\ k \in Nat
    BY SortedRank
  <2>4. i - 1 = k - 1
    BY <2>1, <2>2, <2>3
  <2> QED
    BY <2>1, <2>2, <2>3, <2>4
<1>4. s = [i \in DOMAIN s |-> s[i]] /\ t = [i \in DOMAIN t |-> t[i]]
  BY DEF SetToSeqs
<1> QED
  BY <1>0, <1>3, <1>4

(* The mappings of a valid snapshot are in order. *)
LEMMA ValidInOrder ==
  ASSUME NEW ms \in Seq(SnapshotMappings), \A i \in DOMAIN ms : i > 1 => MappingBefore(ms[i - 1], ms[i])
  PROVE  InOrder(ms)
<1> SUFFICES ASSUME NEW i \in DOMAIN ms, NEW j \in DOMAIN ms, i < j
             PROVE  MappingBefore(ms[i], ms[j])
  BY DEF InOrder
<1>1. Len(ms) \in Nat /\ DOMAIN ms = 1..Len(ms) /\ \A k \in 1..Len(ms) : ms[k] \in SnapshotMappings
  OBVIOUS
<1> DEFINE A == {n \in 0..Len(ms) : i < n => MappingBefore(ms[i], ms[n])}
<1>2. 0 \in A
  BY <1>1
<1>3. ASSUME NEW n \in 1..Len(ms), n - 1 \in A
      PROVE  n \in A
  <2>1. CASE i < n - 1
    <3>1. MappingBefore(ms[i], ms[n - 1])
      BY <1>3, <2>1
    <3>2. n - 1 \in 1..Len(ms) /\ n > 1 /\ i \in 1..Len(ms)
      BY <1>1, <2>1
    <3>3. MappingBefore(ms[n - 1], ms[n])
      BY <3>2, <1>1
    <3>4. MappingBefore(ms[i], ms[n])
      BY <3>1, <3>2, <3>3, <1>1, MappingTransitive
    <3> QED
      BY <3>4
  <2>2. CASE i = n - 1
    <3>1. n > 1 /\ n \in DOMAIN ms /\ n \in 0..Len(ms)
      BY <1>1, <2>2
    <3>2. MappingBefore(ms[n - 1], ms[n])
      BY <3>1
    <3>3. MappingBefore(ms[i], ms[n])
      BY <3>2, <2>2
    <3> QED
      BY <3>1, <3>3
  <2>3. CASE ~(i < n)
    BY <2>3
  <2> QED
    BY <1>1, <2>1, <2>2, <2>3
<1> HIDE DEF A
<1>4. 0..Len(ms) \subseteq A
  BY <1>1, <1>2, <1>3, RangeInduction
<1>5. j \in A
  BY <1>1, <1>4
<1> QED
  BY <1>5 DEF A

(* A sequence in order holds no mapping twice. *)
LEMMA InOrderSequence ==
  ASSUME NEW ms \in Seq(SnapshotMappings), InOrder(ms)
  PROVE  /\ IsFiniteSet(ToSet(ms)) /\ Cardinality(ToSet(ms)) = Len(ms) /\ Len(ms) \in Nat
         /\ ms \in SetToSeqs(ToSet(ms)) /\ ToSet(ms) \subseteq SnapshotMappings
         /\ \A i, j \in 1..Len(ms) : ms[i] = ms[j] => i = j
<1>1. Len(ms) \in Nat /\ DOMAIN ms = 1..Len(ms) /\ \A k \in 1..Len(ms) : ms[k] \in SnapshotMappings
  OBVIOUS
<1>2. \A i, j \in 1..Len(ms) : ms[i] = ms[j] => i = j
  <2> TAKE i, j \in 1..Len(ms)
  <2> HAVE ms[i] = ms[j]
  <2>1. ~(i < j)
    BY <1>1, MappingAsymmetric DEF InOrder
  <2>2. ~(j < i)
    BY <1>1, MappingAsymmetric DEF InOrder
  <2> QED
    BY <2>1, <2>2
<1>3. OneToOne(ms, 1..Len(ms))
  BY <1>1, <1>2 DEF OneToOne
<1>4. ToSet(ms) = ImageOf(ms, 1..Len(ms))
  BY <1>1 DEF ToSet, ImageOf
<1>5. IsFiniteSet(1..Len(ms)) /\ Cardinality(1..Len(ms)) = Len(ms)
  BY <1>1, UpTo
<1>6. IsFiniteSet(ToSet(ms)) /\ Cardinality(ToSet(ms)) = Len(ms)
  BY <1>3, <1>4, <1>5, ImageSize
<1>7. ms \in [1..Len(ms) -> ToSet(ms)] /\ ToSet(ms) \subseteq SnapshotMappings
  BY <1>1 DEF ToSet
<1>8. ms \in SetToSeqs(ToSet(ms))
  BY <1>2, <1>6, <1>7 DEF SetToSeqs
<1> QED
  BY <1>1, <1>2, <1>6, <1>7, <1>8

(* Sorting the mappings of a sequence in order gives it back. *)
LEMMA SortedIs ==
  ASSUME NEW ms \in Seq(SnapshotMappings), InOrder(ms)
  PROVE  Sorted(ToSet(ms)) = ms
<1>1. /\ IsFiniteSet(ToSet(ms)) /\ ms \in SetToSeqs(ToSet(ms)) /\ ToSet(ms) \subseteq SnapshotMappings
  BY InOrderSequence
<1>2. Sorted(ToSet(ms)) \in SetToSeqs(ToSet(ms)) /\ InOrder(Sorted(ToSet(ms)))
  BY <1>1 DEF Sorted, InOrder
<1> QED
  BY <1>1, <1>2, SortedUnique

-----------------------------------------------------------------------------
(* The snapshot is put together again from its attribution. *)
AsMapping(m) == [mapping_id |-> m.mapping_id, mode |-> m.mode, scope |-> m.scope, lhs |-> m.lhs]
AttributedOf(snapshot, counts, m) ==
  [mapping_id |-> m.mapping_id, count |-> CountOf(counts, m.mapping_id),
   status |-> IF CountOf(counts, m.mapping_id) > 0 THEN "observed" ELSE "unobserved_in_sample",
   mode |-> m.mode, scope |-> m.scope, lhs |-> m.lhs, collisions |-> CollidingIds(snapshot, m)]
UnknownOf(counts, id) ==
  [mapping_id |-> id, count |-> counts[id], status |-> "observed_not_in_snapshot",
   mode |-> "", scope |-> "", lhs |-> <<>>, collisions |-> {}]
UnknownIds(snapshot, counts) ==
  IF snapshot.present THEN DOMAIN counts \ SnapshotIds(snapshot) ELSE {}

(* The attribution: an entry for each mapping of the snapshot, and one for
   each other ID in use. *)
LEMMA AttributionIs ==
  ASSUME NEW snapshot, NEW counts
  PROVE  /\ Attribution(snapshot, counts).present = snapshot.present
         /\ Attribution(snapshot, counts).collisions = Shadowing(snapshot)
         /\ Attribution(snapshot, counts).mappings
              = {AttributedOf(snapshot, counts, m) : m \in ToSet(snapshot.mappings)}
                  \cup {UnknownOf(counts, id) : id \in UnknownIds(snapshot, counts)}
BY DEF Attribution, AttributedInSnapshot, AttributedOf, UnknownOf, UnknownIds, SnapshotIds

Entries(snapshot, counts) == Attribution(snapshot, counts).mappings

(* The entry of a mapping of the snapshot. *)
LEMMA AttributedFields ==
  ASSUME NEW snapshot, NEW counts, NEW m, NEW e, e = AttributedOf(snapshot, counts, m)
  PROVE  /\ e.mapping_id = m.mapping_id /\ e.count = CountOf(counts, m.mapping_id)
         /\ e.status = IF CountOf(counts, m.mapping_id) > 0 THEN "observed" ELSE "unobserved_in_sample"
         /\ e.mode = m.mode /\ e.scope = m.scope /\ e.lhs = m.lhs
         /\ e.collisions = CollidingIds(snapshot, m)
BY DEF AttributedOf

(* The entry of an ID that the snapshot does not hold. *)
LEMMA UnknownFields ==
  ASSUME NEW counts, NEW id, NEW e, e = UnknownOf(counts, id)
  PROVE  /\ e.mapping_id = id /\ e.count = counts[id] /\ e.status = "observed_not_in_snapshot"
         /\ e.lhs = <<>> /\ e.collisions = {}
BY DEF UnknownOf

IsAttributed(e, snapshot, counts) == \E m \in ToSet(snapshot.mappings) : e = AttributedOf(snapshot, counts, m)
IsUnknown(e, snapshot, counts) == \E id \in UnknownIds(snapshot, counts) : e = UnknownOf(counts, id)

(* Every entry is one of these, and all of these are entries. *)
LEMMA EntryCases ==
  ASSUME NEW snapshot, NEW counts
  PROVE  /\ \A e \in Entries(snapshot, counts) : IsAttributed(e, snapshot, counts) \/ IsUnknown(e, snapshot, counts)
         /\ \A m \in ToSet(snapshot.mappings) : AttributedOf(snapshot, counts, m) \in Entries(snapshot, counts)
         /\ \A id \in UnknownIds(snapshot, counts) : UnknownOf(counts, id) \in Entries(snapshot, counts)
<1>1. Entries(snapshot, counts) = {AttributedOf(snapshot, counts, m) : m \in ToSet(snapshot.mappings)}
                  \cup {UnknownOf(counts, id) : id \in UnknownIds(snapshot, counts)}
  BY AttributionIs DEF Entries
<1> QED
  BY <1>1 DEF IsAttributed, IsUnknown

KnownOf(a) == {AsMapping(m) : m \in {n \in a.mappings : n.status # "observed_not_in_snapshot"}}
ReadsBack(ms) == \A m \in ToSet(ms) : AsMapping(m) = m

(* The entries that name a mapping of the snapshot, read back. *)
LEMMA KnownAre ==
  ASSUME NEW snapshot, NEW counts, ReadsBack(snapshot.mappings)
  PROVE  KnownOf(Attribution(snapshot, counts)) = ToSet(snapshot.mappings)
<1> DEFINE ms == Attribution(snapshot, counts).mappings
           known == {n \in ms : n.status # "observed_not_in_snapshot"}
<1>1. ms = {AttributedOf(snapshot, counts, m) : m \in ToSet(snapshot.mappings)}
                  \cup {UnknownOf(counts, id) : id \in UnknownIds(snapshot, counts)}
  BY AttributionIs
<1>2. \A m : AttributedOf(snapshot, counts, m).status # "observed_not_in_snapshot"
  BY DEF AttributedOf
<1>3. \A id : UnknownOf(counts, id).status = "observed_not_in_snapshot"
  BY DEF UnknownOf
<1>4. \A m : AsMapping(AttributedOf(snapshot, counts, m)) = AsMapping(m)
  BY DEF AttributedOf, AsMapping
<1> HIDE DEF ms
<1>5. known = {AttributedOf(snapshot, counts, m) : m \in ToSet(snapshot.mappings)}
  BY <1>1, <1>2, <1>3
<1>6. {AsMapping(m) : m \in known} = {AsMapping(m) : m \in ToSet(snapshot.mappings)}
  BY <1>4, <1>5
<1> QED
  BY <1>6 DEF ms, ReadsBack, KnownOf

(* A snapshot is none, or has mappings. *)
LEMMA SnapshotCases ==
  ASSUME NEW snapshot \in Snapshots
  PROVE  /\ snapshot.present \in BOOLEAN /\ snapshot.mappings \in Seq(SnapshotMappings)
         /\ snapshot = [present |-> snapshot.present, mappings |-> snapshot.mappings]
         /\ ~snapshot.present => snapshot = NoSnapshot
         /\ \A m \in ToSet(snapshot.mappings) : m \in SnapshotMappings /\ AsMapping(m) = m
<1>1. CASE snapshot = NoSnapshot
  <2>1. snapshot.mappings = <<>> /\ ~snapshot.present
    BY <1>1 DEF NoSnapshot
  <2> QED
    BY <1>1, <2>1 DEF NoSnapshot, ToSet
<1>2. CASE snapshot \in [present : {TRUE}, mappings : Seq(SnapshotMappings)]
  <2>1. snapshot.present = TRUE /\ snapshot.mappings \in Seq(SnapshotMappings)
    BY <1>2
  <2>2. \A m \in ToSet(snapshot.mappings) : m \in SnapshotMappings
    BY <2>1 DEF ToSet
  <2>3. \A m \in SnapshotMappings : AsMapping(m) = m
    BY DEF SnapshotMappings, AsMapping
  <2> QED
    BY <1>2, <2>1, <2>2, <2>3
<1> QED
  BY <1>1, <1>2 DEF Snapshots, SnapshotMappings

(* A valid snapshot is in order. *)
LEMMA ValidIsInOrder ==
  ASSUME NEW snapshot \in Snapshots, ValidSnapshot(snapshot)
  PROVE  InOrder(snapshot.mappings)
<1>1. snapshot.mappings \in Seq(SnapshotMappings)
  BY SnapshotCases
<1>2. \A i \in DOMAIN snapshot.mappings :
        i > 1 => MappingBefore(snapshot.mappings[i - 1], snapshot.mappings[i])
  BY DEF ValidSnapshot
<1> QED
  BY <1>1, <1>2, ValidInOrder

(* A valid snapshot is reconstructed from its attribution. *)
LEMMA ReconstructIs ==
  ASSUME NEW snapshot \in Snapshots, ValidSnapshot(snapshot), NEW counts,
         NEW s, s.mapping_attribution = Attribution(snapshot, counts)
  PROVE  Reconstruct(s) = snapshot
<1>1. /\ snapshot.mappings \in Seq(SnapshotMappings) /\ snapshot.present \in BOOLEAN
      /\ snapshot = [present |-> snapshot.present, mappings |-> snapshot.mappings]
      /\ ~snapshot.present => snapshot = NoSnapshot
      /\ ReadsBack(snapshot.mappings)
  BY SnapshotCases DEF ReadsBack
<1>2. Reconstruct(s) = IF Attribution(snapshot, counts).present
        THEN [present |-> TRUE, mappings |-> Sorted(KnownOf(Attribution(snapshot, counts)))]
        ELSE NoSnapshot
  BY DEF Reconstruct, AsMapping, KnownOf
<1>5. Attribution(snapshot, counts).present = snapshot.present
  BY AttributionIs
<1>6. KnownOf(Attribution(snapshot, counts)) = ToSet(snapshot.mappings)
  BY <1>1, KnownAre
<1>3. Reconstruct(s) = IF snapshot.present
        THEN [present |-> TRUE, mappings |-> Sorted(ToSet(snapshot.mappings))]
        ELSE NoSnapshot
  BY <1>2, <1>5, <1>6
<1>4. Sorted(ToSet(snapshot.mappings)) = snapshot.mappings
  BY <1>1, ValidIsInOrder, SortedIs
<1> QED
  BY <1>1, <1>3, <1>4

-----------------------------------------------------------------------------
(* What is known when an analysis has succeeded. *)
Finished ==
  /\ All \in Logs /\ Between(state, All, keymap.snapshot) /\ state.acc.error = NoError
  /\ \A k \in 1..Len(read) : Correct(text, read, k)
  /\ keymap.snapshot \in Snapshots /\ ValidSnapshot(keymap.snapshot) /\ Hashed(keymap.snapshot)
  /\ summary = Summarize(state.acc, state.reader, keymap.snapshot)

(* By the invariant a run that succeeded has finished. *)
LEMMA WhenFinished ==
  ASSUME CInv, outcome = "ok"
  PROVE  Finished
<1>1. /\ Sound /\ first = 0 /\ summary = Summarize(state.acc, state.reader, keymap.snapshot)
      /\ Judged(text, read, state, first, keymap.snapshot)
      /\ keymap.snapshot \in Snapshots /\ ValidSnapshot(keymap.snapshot) /\ Hashed(keymap.snapshot)
  BY DEF CInv, Analysis, Results, GivenTypes, SnapshotIsValid
<1>2. /\ \A k \in 1..Len(read) : Correct(text, read, k)
      /\ Between(state, Past(text, read, Len(read)), keymap.snapshot) /\ state.acc.error = NoError
  BY <1>1 DEF Judged, Sound, FirstOver
<1>3. Len(read) \in 0..Len(read)
  <2>1. Len(read) \in Nat
    BY DEF CInv, IInv, TypeOK
  <2> QED
    BY <2>1
<1>4. All = Past(text, read, Len(read)) /\ All \in Logs
  BY <1>3, PastEvents DEF All
<1> QED
  BY <1>1, <1>2, <1>4 DEF Finished

(* What a summary takes from where. *)
Counted(s, acc, reader) ==
  /\ s.sessions = Cardinality(reader.log.seen) /\ s.events = reader.events
  /\ s.total_session_duration_ms = acc.total_session_duration_ms
  /\ s.key_sequences = acc.key_sequences /\ s.sequence_keys = acc.sequence_keys
  /\ s.text_runs = acc.text_runs /\ s.text_keys = acc.text_keys
  /\ s.mode_transitions = acc.mode_transitions /\ s.mapping_uses = acc.mapping_uses
  /\ s.control_key_uses = acc.control_key_uses
  /\ s.repeated_key_runs = acc.repeated_key_runs /\ s.repeated_key_presses = acc.repeated_key_presses
  /\ s.count_prefix_occurrences = acc.count_occurrences
  /\ s.count_prefix_digit_presses = acc.count_digit_presses
  /\ s.unique_keys = Cardinality(DOMAIN acc.keys) /\ s.unique_mappings = Cardinality(DOMAIN acc.mappings)
  /\ s.unique_control_keys = Cardinality(DOMAIN acc.control_keys)
  /\ s.unique_repeated_keys = Cardinality(DOMAIN acc.repeated_keys)
Listed(s, acc, reader, snapshot) ==
  /\ s.modes = acc.modes /\ s.transitions = acc.transitions /\ s.session_duration = acc.session_duration
  /\ s.sequence_length = acc.sequence_length /\ s.latency = acc.latency /\ s.operations = acc.operations
  /\ s.keys = Ranked(acc.keys) /\ s.mappings = Ranked(acc.mappings)
  /\ s.control_keys = RankedControlKeys(acc.control_keys)
  /\ s.repeated_keys = RankedRepeats(acc.repeated_keys, MaxRankedItems, FALSE)
  /\ s.repeated_motions = RankedRepeats(acc.repeated_motions, MaxCandidates, TRUE)
  /\ s.candidates = Candidates(acc, s.sessions, s.repeated_motions, snapshot)
  /\ s.mapping_coverage = Coverage(snapshot, acc.mappings)
  /\ s.mapping_attribution = Attribution(snapshot, acc.mappings)

(* The totals of a summary. *)
LEMMA SummaryCounted ==
  ASSUME NEW acc, NEW reader, NEW snapshot
  PROVE  Counted(Summarize(acc, reader, snapshot), acc, reader)
BY DEF Summarize, Counted

(* The lists of a summary. *)
LEMMA SummaryListed ==
  ASSUME NEW acc, NEW reader, NEW snapshot
  PROVE  Listed(Summarize(acc, reader, snapshot), acc, reader, snapshot)
BY DEF Summarize, Listed

(* The published summary takes its totals and lists from the accumulator. *)
LEMMA SummaryFields ==
  ASSUME Finished
  PROVE  Counted(summary, state.acc, state.reader) /\ Listed(summary, state.acc, state.reader, keymap.snapshot)
<1>1. summary = Summarize(state.acc, state.reader, keymap.snapshot)
  BY DEF Finished
<1> QED
  BY <1>1, SummaryCounted, SummaryListed

(* The published summary gives the snapshot back. *)
LEMMA SnapshotRebuilt ==
  ASSUME Finished
  PROVE  Reconstruct(summary) = keymap.snapshot
<1>1. summary.mapping_attribution = Attribution(keymap.snapshot, state.acc.mappings)
  BY SummaryFields DEF Listed
<1>2. keymap.snapshot \in Snapshots /\ ValidSnapshot(keymap.snapshot)
  BY DEF Finished
<1> QED
  BY <1>1, <1>2, ReconstructIs

-----------------------------------------------------------------------------
(* Prefixes collide. *)
PrefixOf(a, b) == Len(a) <= Len(b) /\ SubSeq(b, 1, Len(a)) = a

(* A prefix collides, whichever of the two it is. *)
LEMMA PrefixCollides ==
  ASSUME NEW a \in Seq(Token), NEW b \in Seq(Token), PrefixOf(a, b)
  PROVE  Collides(a, b) /\ Collides(b, a)
<1>1. Len(a) \in Nat /\ Len(b) \in Nat /\ Len(a) <= Len(b)
  BY DEF PrefixOf
<1>2. SubSeq(a, 1, Len(a)) = a
  BY <1>1
<1>3. AgreeTo(a, b, Len(a))
  BY <1>1, <1>2, PrefixAgree DEF PrefixOf
<1> QED
  BY <1>3 DEF AgreeTo, Collides

(* By the invariant the conflicts of an accepted proposal are known. *)
LEMMA ConflictsHold ==
  ASSUME CInv
  PROVE  ConflictsAreKnown
<1> SUFFICES ASSUME accepted \notin {None, Refused}
             PROVE  /\ accepted.mapping # NoMapping =>
                         /\ keymap.snapshot.present
                         /\ \A m \in ToSet(keymap.snapshot.mappings) :
                              m.mode = accepted.mapping.mode
                              /\ (PrefixOf(m.lhs, accepted.mapping.lhs) \/ PrefixOf(accepted.mapping.lhs, m.lhs))
                                => m.mapping_id \in ToSet(accepted.conflicts) \cup {accepted.mapping.target}
                         /\ accepted.mapping.target \in SnapshotIds(keymap.snapshot) \cup {""}
                    /\ \A e \in accepted.evidence :
                         /\ e.metric = "sequence_keys" => e.value = Cardinality(Keyed(All))
                         /\ e.metric = "mapping_uses" => e.value = Cardinality(Of(All, "mapping_use"))
  BY DEF ConflictsAreKnown, PrefixOf
<1>1. /\ accepted \in answers /\ Accepts(accepted, summary) /\ outcome = "ok"
      /\ accepted.mapping.lhs \in Seq(Token)
  BY DEF CInv, Analysis, Results, GivenTypes
<1>2. Finished
  BY <1>1, WhenFinished
<1>3. Reconstruct(summary) = keymap.snapshot
  BY <1>2, SnapshotRebuilt
<1>4. /\ accepted.mapping # NoMapping => keymap.snapshot.present
      /\ \A e \in accepted.evidence : e.value = Measurement(e.metric, summary)
      /\ accepted.mapping # NoMapping =>
           /\ accepted.mapping.target # "" => accepted.mapping.target \in SnapshotIds(keymap.snapshot)
           /\ ToSet(accepted.conflicts) = Conflicts(accepted.mapping, keymap.snapshot)
  BY <1>1, <1>3 DEF Accepts
<1>5. ASSUME accepted.mapping # NoMapping, NEW m \in ToSet(keymap.snapshot.mappings),
             m.mode = accepted.mapping.mode,
             PrefixOf(m.lhs, accepted.mapping.lhs) \/ PrefixOf(accepted.mapping.lhs, m.lhs)
      PROVE  m.mapping_id \in ToSet(accepted.conflicts) \cup {accepted.mapping.target}
  <2>1. m \in SnapshotMappings
    BY <1>2, SnapshotCases DEF Finished
  <2>2. m.lhs \in Seq(Token)
    BY <2>1, MappingFields
  <2>3. Collides(m.lhs, accepted.mapping.lhs)
    BY <1>1, <1>5, <2>2, PrefixCollides
  <2>4. m.mapping_id # accepted.mapping.target => m.mapping_id \in Conflicts(accepted.mapping, keymap.snapshot)
    BY <1>5, <2>3 DEF Conflicts
  <2> QED
    BY <2>4, <1>4, <1>5
<1>6. state.acc.sequence_keys = Cardinality(Keyed(All)) /\ state.acc.mapping_uses = Cardinality(Of(All, "mapping_use"))
  BY <1>2 DEF Finished, Between, Exact, Accounted, Totals
<1>7. summary.sequence_keys = state.acc.sequence_keys /\ summary.mapping_uses = state.acc.mapping_uses
  BY <1>2, SummaryFields DEF Counted
<1>8. /\ Measurement("sequence_keys", summary) = summary.sequence_keys
      /\ Measurement("mapping_uses", summary) = summary.mapping_uses
  BY DEF Measurement, Metrics
<1> QED
  BY <1>4, <1>5, <1>6, <1>7, <1>8

(* An accepted proposal names what it would shadow or wait for, an existing  *)
(* target and recountable evidence, for every snapshot and every proposal    *)
(* Codex may return (ConflictsAreKnown).                                     *)
THEOREM AcceptedConflictsAreKnown == Spec => []ConflictsAreKnown
<1>1. CInv => ConflictsAreKnown
  BY ConflictsHold
<1> QED
  BY <1>1, CommandInvariant, PTL

-----------------------------------------------------------------------------
(* The first entries of a list, by what is ahead of each.                    *)
Ordered(ahead, D) ==
  /\ DOMAIN ahead = D /\ IsFiniteSet(D)
  /\ \A k \in D : ahead[k] \subseteq D /\ k \notin ahead[k]
  /\ \A j, k \in D : j # k => j \in ahead[k] \/ k \in ahead[j]
  /\ \A i, j, k \in D : i \in ahead[j] /\ j \in ahead[k] => i \in ahead[k]
RankIn(ahead, k) == Cardinality(ahead[k])

(* What is ahead has fewer ahead of it, and nothing has all. *)
LEMMA RankGrows ==
  ASSUME NEW D, NEW ahead, Ordered(ahead, D), NEW k \in D
  PROVE  /\ RankIn(ahead, k) \in Nat /\ RankIn(ahead, k) < Cardinality(D) /\ Cardinality(D) \in Nat
         /\ \A j \in ahead[k] : RankIn(ahead, j) < RankIn(ahead, k)
<1>1. IsFiniteSet(D) /\ \A j \in D : ahead[j] \subseteq D /\ j \notin ahead[j]
  BY DEF Ordered
<1>2. \A j \in D : IsFiniteSet(ahead[j]) /\ Cardinality(ahead[j]) \in Nat
  BY <1>1, FS_Subset, FS_CardinalityType
<1>3. Cardinality(D) \in Nat
  BY <1>1, FS_CardinalityType
<1>4. Cardinality(ahead[k]) < Cardinality(D)
  <2>1. Cardinality(ahead[k] \cup {k}) = Cardinality(ahead[k]) + 1 /\ IsFiniteSet(ahead[k] \cup {k})
    BY <1>1, <1>2, FS_AddElement
  <2>2. ahead[k] \cup {k} \subseteq D
    BY <1>1
  <2>3. Cardinality(ahead[k] \cup {k}) <= Cardinality(D)
    BY <2>2, <1>1, FS_Subset
  <2> QED
    BY <2>1, <2>3, <1>2, <1>3
<1>5. ASSUME NEW j \in ahead[k]
      PROVE  Cardinality(ahead[j]) < Cardinality(ahead[k])
  <2>1. j \in D /\ \A i \in ahead[j] : i \in D
    BY <1>1
  <2>2. ahead[j] \cup {j} \subseteq ahead[k]
    BY <2>1 DEF Ordered
  <2>3. Cardinality(ahead[j] \cup {j}) = Cardinality(ahead[j]) + 1
    BY <2>1, <1>1, <1>2, FS_AddElement
  <2>4. Cardinality(ahead[j] \cup {j}) <= Cardinality(ahead[k])
    BY <2>2, <1>2, FS_Subset
  <2> QED
    BY <2>1, <2>3, <2>4, <1>2
<1> QED
  BY <1>2, <1>3, <1>4, <1>5 DEF RankIn

(* Two entries differ by their ranks. *)
LEMMA RankDiffers ==
  ASSUME NEW D, NEW ahead, Ordered(ahead, D), NEW j \in D, NEW k \in D, RankIn(ahead, j) = RankIn(ahead, k)
  PROVE  j = k
<1>1. RankIn(ahead, j) \in Nat /\ RankIn(ahead, k) \in Nat
  BY RankGrows
<1>2. j \notin ahead[k]
  <2> SUFFICES ASSUME j \in ahead[k]
               PROVE  FALSE
    OBVIOUS
  <2>1. RankIn(ahead, j) < RankIn(ahead, k)
    BY RankGrows
  <2> QED
    BY <2>1, <1>1
<1>3. k \notin ahead[j]
  <2> SUFFICES ASSUME k \in ahead[j]
               PROVE  FALSE
    OBVIOUS
  <2>1. RankIn(ahead, k) < RankIn(ahead, j)
    BY RankGrows
  <2> QED
    BY <2>1, <1>1
<1> QED
  BY <1>2, <1>3 DEF Ordered

Below(ahead, S, n) == \A k \in S : RankIn(ahead, k) < n
Taken(ahead, S, n) == \A m \in 0..(n - 1) : \E k \in S : RankIn(ahead, k) = m

(* The ranks of a set below a limit are a one-to-one image of it. *)
LEMMA RankInjection ==
  ASSUME NEW D, NEW ahead, Ordered(ahead, D), NEW S \in SUBSET D, NEW n \in Nat,
         Below(ahead, S, n)
  PROVE  /\ IsFiniteSet(S) /\ Cardinality(S) \in Nat /\ Cardinality(S) <= n
         /\ Cardinality(S) = n <=> Taken(ahead, S, n)
<1> DEFINE f == [k \in S |-> RankIn(ahead, k)]
<1>1. \A k \in S : RankIn(ahead, k) \in 0..(n - 1)
  BY RankGrows DEF Below
<1>2. \A j, k \in S : RankIn(ahead, j) = RankIn(ahead, k) => j = k
  BY RankDiffers
<1>3. f \in Injection(S, 0..(n - 1))
  <2>1. f \in [S -> 0..(n - 1)]
    BY <1>1
  <2>2. \A j, k \in S : f[j] = f[k] => j = k
    BY <1>2
  <2> QED
    BY <2>1, <2>2 DEF Injection, IsInjective
<1>4. IsFiniteSet(0..(n - 1)) /\ Cardinality(0..(n - 1)) = n
  BY FS_Interval
<1>5. /\ IsFiniteSet(S) /\ Cardinality(S) <= Cardinality(0..(n - 1))
      /\ Cardinality(S) = Cardinality(0..(n - 1)) <=> f \in Surjection(S, 0..(n - 1))
  BY <1>3, <1>4, FS_Injection
<1>6. f \in Surjection(S, 0..(n - 1)) <=> \A m \in 0..(n - 1) : \E k \in S : RankIn(ahead, k) = m
  <2>1. f \in [S -> 0..(n - 1)]
    BY <1>1
  <2>2. f \in Surjection(S, 0..(n - 1)) <=> \A m \in 0..(n - 1) : \E k \in S : f[k] = m
    BY <2>1 DEF Surjection
  <2> QED
    BY <2>2
<1>7. Cardinality(S) \in Nat
  BY <1>5, FS_CardinalityType
<1> QED
  BY <1>4, <1>5, <1>6, <1>7 DEF Taken

(* Every rank below the number of entries is taken. *)
LEMMA RankTaken ==
  ASSUME NEW D, NEW ahead, Ordered(ahead, D), NEW m \in Nat, m < Cardinality(D)
  PROVE  \E k \in D : RankIn(ahead, k) = m
<1>1. Cardinality(D) \in Nat
  BY FS_CardinalityType DEF Ordered
<1>2. Below(ahead, D, Cardinality(D))
  BY RankGrows DEF Below
<1>3. Taken(ahead, D, Cardinality(D))
  BY <1>1, <1>2, RankInjection
<1>4. m \in 0..(Cardinality(D) - 1)
  BY <1>1
<1> QED
  BY <1>3, <1>4 DEF Taken

(* The list shows what has fewer than the limit ahead. *)
LEMMA TopMember ==
  ASSUME NEW D, NEW ahead, Ordered(ahead, D), NEW limit \in Nat
  PROVE  Top(ahead, limit) \subseteq D /\ \A k \in D : k \in Top(ahead, limit) <=> RankIn(ahead, k) < limit
BY DEF Top, Ordered, RankIn

(* The list is not longer than its limit, and what is left out comes after a *)
(* full list.                                                                *)
LEMMA TopSize ==
  ASSUME NEW D, NEW ahead, Ordered(ahead, D), NEW limit \in Nat
  PROVE  /\ IsFiniteSet(Top(ahead, limit)) /\ Cardinality(Top(ahead, limit)) \in Nat
         /\ Cardinality(Top(ahead, limit)) <= limit
<1>1. Top(ahead, limit) \in SUBSET D /\ Below(ahead, Top(ahead, limit), limit)
  BY TopMember DEF Below
<1> QED
  BY <1>1, RankInjection

(* What the list leaves out comes after a full list. *)
LEMMA TopFull ==
  ASSUME NEW D, NEW ahead, Ordered(ahead, D), NEW limit \in Nat, NEW y \in D, y \notin Top(ahead, limit)
  PROVE  Cardinality(Top(ahead, limit)) = limit /\ Top(ahead, limit) \subseteq ahead[y]
<1>1. Top(ahead, limit) \in SUBSET D /\ Below(ahead, Top(ahead, limit), limit)
  BY TopMember DEF Below
<1>2. /\ RankIn(ahead, y) \in Nat /\ RankIn(ahead, y) < Cardinality(D) /\ Cardinality(D) \in Nat
      /\ ~(RankIn(ahead, y) < limit)
  BY RankGrows, TopMember
<1>3. Taken(ahead, Top(ahead, limit), limit)
  <2> SUFFICES ASSUME NEW m \in 0..(limit - 1)
               PROVE  \E k \in Top(ahead, limit) : RankIn(ahead, k) = m
    BY DEF Taken
  <2>1. m \in Nat /\ m < Cardinality(D) /\ m < limit
    BY <1>2
  <2>2. PICK k \in D : RankIn(ahead, k) = m
    BY <2>1, RankTaken
  <2>3. RankIn(ahead, k) < limit
    BY <2>1, <2>2
  <2>4. k \in Top(ahead, limit)
    BY <2>3, TopMember
  <2> QED
    BY <2>2, <2>4
<1>4. Cardinality(Top(ahead, limit)) = limit
  BY <1>1, <1>3, RankInjection
<1>5. ASSUME NEW k \in Top(ahead, limit)
      PROVE  k \in ahead[y]
  <2>1. k \in D /\ RankIn(ahead, k) < limit /\ RankIn(ahead, k) \in Nat /\ k # y
    BY <1>1, RankGrows DEF Below
  <2>2. y \in ahead[k] => RankIn(ahead, y) < RankIn(ahead, k)
    BY <2>1, RankGrows
  <2>3. y \notin ahead[k]
    BY <2>1, <2>2, <1>2
  <2> QED
    BY <2>1, <2>3 DEF Ordered
<1> QED
  BY <1>4, <1>5

(* A list with room for all shows all. *)
LEMMA TopAll ==
  ASSUME NEW D, NEW ahead, Ordered(ahead, D), NEW limit \in Nat, Cardinality(D) <= limit
  PROVE  Top(ahead, limit) = D
<1>1. \A k \in D : RankIn(ahead, k) < limit
  <2> TAKE k \in D
  <2>1. RankIn(ahead, k) \in Nat /\ RankIn(ahead, k) < Cardinality(D) /\ Cardinality(D) \in Nat
    BY RankGrows
  <2> QED
    BY <2>1
<1> QED
  BY <1>1, TopMember

(* What the list shows leads: it is as much as may be shown, and nothing is  *)
(* shown without what comes before it.                                       *)
LEMMA TopLeads ==
  ASSUME NEW D, NEW ahead, Ordered(ahead, D), NEW limit \in Nat
  PROVE  Leading(Top(ahead, limit), ahead, limit)
<1> DEFINE shown == Top(ahead, limit)
<1>1. DOMAIN ahead = D /\ \A k \in D : ahead[k] \subseteq D
  BY DEF Ordered
<1>2. shown \subseteq D /\ Cardinality(shown) <= limit
  BY TopMember, TopSize
<1>3. shown = D \/ Cardinality(shown) = limit
  BY <1>2, TopFull
<1>4. ASSUME NEW k \in shown, NEW j \in ahead[k] PROVE j \in shown
  <2>1. k \in D /\ j \in D /\ RankIn(ahead, k) < limit
    BY <1>1, <1>2, <1>4, TopMember
  <2>2. RankIn(ahead, j) < RankIn(ahead, k) /\ RankIn(ahead, j) \in Nat /\ RankIn(ahead, k) \in Nat
    BY <2>1, <1>4, RankGrows
  <2>3. RankIn(ahead, j) < limit
    BY <2>1, <2>2
  <2> QED BY <2>1, <2>3, TopMember
<1> HIDE DEF shown
<1> QED BY <1>1, <1>2, <1>3, <1>4 DEF Leading, shown

-----------------------------------------------------------------------------
(* The orders of the lists of a summary.                                     *)
CountAhead(f) ==
  [k \in DOMAIN f |-> {j \in DOMAIN f : f[j] > f[k] \/ (f[j] = f[k] /\ Less(j, k))}]

(* Counted tokens are ordered, by count and then by name. *)
LEMMA CountOrdered ==
  ASSUME NEW f \in Maps(Token, Nat)
  PROVE  Ordered(CountAhead(f), DOMAIN f)
<1>1. DOMAIN f \subseteq Token /\ \A k \in DOMAIN f : f[k] \in Nat
  BY MapType
<1>2. IsFiniteSet(DOMAIN f)
  BY <1>1, TokensFinite
<1>3. /\ \A x, y \in DOMAIN f : (Less(x, y) /\ ~Less(y, x)) \/ (Less(y, x) /\ ~Less(x, y)) \/ (x = y /\ ~Less(x, y))
      /\ \A x, y, z \in DOMAIN f : Less(x, y) /\ Less(y, z) => Less(x, z)
  BY <1>1, LessOrder
<1>4. \A k, j \in DOMAIN f : j \in CountAhead(f)[k] <=> f[j] > f[k] \/ (f[j] = f[k] /\ Less(j, k))
  BY DEF CountAhead
<1>5. DOMAIN CountAhead(f) = DOMAIN f /\ \A k \in DOMAIN f : CountAhead(f)[k] \subseteq DOMAIN f
  BY DEF CountAhead
<1>6. \A k \in DOMAIN f : k \notin CountAhead(f)[k]
  BY <1>1, <1>3, <1>4
<1>7. \A j, k \in DOMAIN f : j # k => j \in CountAhead(f)[k] \/ k \in CountAhead(f)[j]
  BY <1>1, <1>3, <1>4
<1>8. \A i, j, k \in DOMAIN f : i \in CountAhead(f)[j] /\ j \in CountAhead(f)[k] => i \in CountAhead(f)[k]
  BY <1>1, <1>3, <1>4
<1> QED
  BY <1>2, <1>5, <1>6, <1>7, <1>8 DEF Ordered

(* The ranked list is the top of that order. *)
LEMMA RankedIs ==
  ASSUME NEW f
  PROVE  Ranked(f) = {[key |-> k, count |-> f[k]] : k \in Top(CountAhead(f), MaxRankedItems)}
BY DEF Ranked, CountAhead

(* Control keys, by their modes and keys. *)
PairLess(j, k) == Less(j[1], k[1]) \/ (j[1] = k[1] /\ Less(j[2], k[2]))
ControlAhead(f) ==
  [k \in DOMAIN f |-> {j \in DOMAIN f : f[j] > f[k] \/ (f[j] = f[k] /\ PairLess(j, k))}]

(* Pairs of tokens are ordered, strictly and totally. *)
LEMMA PairLessOrder ==
  /\ \A x, y \in Token \X Token :
       (PairLess(x, y) /\ ~PairLess(y, x)) \/ (PairLess(y, x) /\ ~PairLess(x, y)) \/ (x = y /\ ~PairLess(x, y))
  /\ \A x, y, z \in Token \X Token : PairLess(x, y) /\ PairLess(y, z) => PairLess(x, z)
<1>1. \A x \in Token \X Token : x[1] \in Token /\ x[2] \in Token /\ x = <<x[1], x[2]>>
  OBVIOUS
<1>2. ASSUME NEW x \in Token \X Token, NEW y \in Token \X Token
      PROVE  (PairLess(x, y) /\ ~PairLess(y, x)) \/ (PairLess(y, x) /\ ~PairLess(x, y)) \/ (x = y /\ ~PairLess(x, y))
  <2>1. x[1] = y[1] /\ x[2] = y[2] => x = y
    BY <1>1
  <2>2. /\ (Less(x[1], y[1]) /\ ~Less(y[1], x[1])) \/ (Less(y[1], x[1]) /\ ~Less(x[1], y[1]))
             \/ (x[1] = y[1] /\ ~Less(x[1], y[1]))
        /\ (Less(x[2], y[2]) /\ ~Less(y[2], x[2])) \/ (Less(y[2], x[2]) /\ ~Less(x[2], y[2]))
             \/ (x[2] = y[2] /\ ~Less(x[2], y[2]))
        /\ ~Less(x[1], x[1]) /\ ~Less(y[1], y[1])
    BY <1>1, LessOrder
  <2> QED
    BY <2>1, <2>2 DEF PairLess
<1>3. ASSUME NEW x \in Token \X Token, NEW y \in Token \X Token, NEW z \in Token \X Token,
             PairLess(x, y), PairLess(y, z)
      PROVE  PairLess(x, z)
  <2>1. /\ Less(x[1], y[1]) /\ Less(y[1], z[1]) => Less(x[1], z[1])
        /\ Less(x[2], y[2]) /\ Less(y[2], z[2]) => Less(x[2], z[2])
    BY <1>1, LessOrder
  <2> QED
    BY <2>1, <1>3 DEF PairLess
<1> QED
  BY <1>2, <1>3

(* Counted control keys are ordered, by count and then by mode and key. *)
LEMMA ControlOrdered ==
  ASSUME NEW f \in Maps(TextModes \X Token, Nat)
  PROVE  Ordered(ControlAhead(f), DOMAIN f)
<1>1. DOMAIN f \subseteq TextModes \X Token /\ \A k \in DOMAIN f : f[k] \in Nat
  BY MapType
<1>0. DOMAIN f \subseteq Token \X Token
  BY <1>1, ScenarioTypes
<1>2. IsFiniteSet(DOMAIN f)
  BY <1>1, PairsFinite
<1>3. /\ \A x, y \in DOMAIN f :
           (PairLess(x, y) /\ ~PairLess(y, x)) \/ (PairLess(y, x) /\ ~PairLess(x, y)) \/ (x = y /\ ~PairLess(x, y))
      /\ \A x, y, z \in DOMAIN f : PairLess(x, y) /\ PairLess(y, z) => PairLess(x, z)
  BY <1>0, PairLessOrder
<1>4. \A k, j \in DOMAIN f : j \in ControlAhead(f)[k] <=> f[j] > f[k] \/ (f[j] = f[k] /\ PairLess(j, k))
  BY DEF ControlAhead
<1>5. DOMAIN ControlAhead(f) = DOMAIN f /\ \A k \in DOMAIN f : ControlAhead(f)[k] \subseteq DOMAIN f
  BY DEF ControlAhead
<1>6. \A k \in DOMAIN f : k \notin ControlAhead(f)[k]
  BY <1>1, <1>3, <1>4
<1>7. \A j, k \in DOMAIN f : j # k => j \in ControlAhead(f)[k] \/ k \in ControlAhead(f)[j]
  BY <1>1, <1>3, <1>4
<1>8. \A i, j, k \in DOMAIN f : i \in ControlAhead(f)[j] /\ j \in ControlAhead(f)[k] => i \in ControlAhead(f)[k]
  BY <1>1, <1>3, <1>4
<1> QED
  BY <1>2, <1>5, <1>6, <1>7, <1>8 DEF Ordered

(* The ranked list of control keys is the top of that order. *)
LEMMA RankedControlIs ==
  ASSUME NEW f
  PROVE  RankedControlKeys(f)
           = {[mode |-> k[1], key |-> k[2], count |-> f[k]] : k \in Top(ControlAhead(f), MaxRankedItems)}
BY DEF RankedControlKeys, ControlAhead, PairLess

(* Repeated keys and motions, by runs, by presses when these count, by name. *)
RepeatLess(f, byPresses, j, k) ==
  \/ f[j][1] > f[k][1]
  \/ f[j][1] = f[k][1] /\
       \/ byPresses /\ f[j][2] > f[k][2]
       \/ (byPresses => f[j][2] = f[k][2]) /\ Less(j, k)
RepeatAhead(f, byPresses) == [k \in DOMAIN f |-> {j \in DOMAIN f : RepeatLess(f, byPresses, j, k)}]

(* Repeated keys and motions are ordered. *)
LEMMA RepeatOrdered ==
  ASSUME NEW f \in Maps(Token, Numbers), NEW byPresses \in BOOLEAN
  PROVE  Ordered(RepeatAhead(f, byPresses), DOMAIN f)
<1>1. DOMAIN f \subseteq Token /\ \A k \in DOMAIN f : f[k][1] \in Nat /\ f[k][2] \in Nat
  BY MapType DEF Numbers
<1>2. IsFiniteSet(DOMAIN f)
  BY <1>1, TokensFinite
<1>3. /\ \A x, y \in DOMAIN f : (Less(x, y) /\ ~Less(y, x)) \/ (Less(y, x) /\ ~Less(x, y)) \/ (x = y /\ ~Less(x, y))
      /\ \A x, y, z \in DOMAIN f : Less(x, y) /\ Less(y, z) => Less(x, z)
  BY <1>1, LessOrder
<1>4. \A k, j \in DOMAIN f : j \in RepeatAhead(f, byPresses)[k] <=> RepeatLess(f, byPresses, j, k)
  BY DEF RepeatAhead
<1>5. DOMAIN RepeatAhead(f, byPresses) = DOMAIN f /\ \A k \in DOMAIN f : RepeatAhead(f, byPresses)[k] \subseteq DOMAIN f
  BY DEF RepeatAhead
<1>6. \A k \in DOMAIN f : k \notin RepeatAhead(f, byPresses)[k]
  BY <1>1, <1>3, <1>4 DEF RepeatLess
<1>7. \A j, k \in DOMAIN f : j # k => j \in RepeatAhead(f, byPresses)[k] \/ k \in RepeatAhead(f, byPresses)[j]
  <2> TAKE j, k \in DOMAIN f
  <2> HAVE j # k
  <2>1. Less(j, k) \/ Less(k, j)
    BY <1>3
  <2>2. f[j][1] \in Nat /\ f[j][2] \in Nat /\ f[k][1] \in Nat /\ f[k][2] \in Nat
    BY <1>1
  <2>3. RepeatLess(f, byPresses, j, k) \/ RepeatLess(f, byPresses, k, j)
    BY <2>1, <2>2 DEF RepeatLess
  <2> QED
    BY <2>3, <1>4
<1>8. \A i, j, k \in DOMAIN f : i \in RepeatAhead(f, byPresses)[j] /\ j \in RepeatAhead(f, byPresses)[k]
        => i \in RepeatAhead(f, byPresses)[k]
  <2> TAKE i, j, k \in DOMAIN f
  <2> HAVE i \in RepeatAhead(f, byPresses)[j] /\ j \in RepeatAhead(f, byPresses)[k]
  <2>1. RepeatLess(f, byPresses, i, j) /\ RepeatLess(f, byPresses, j, k)
    BY <1>4
  <2>2. /\ f[i][1] \in Nat /\ f[i][2] \in Nat /\ f[j][1] \in Nat /\ f[j][2] \in Nat /\ f[k][1] \in Nat /\ f[k][2] \in Nat
        /\ Less(i, j) /\ Less(j, k) => Less(i, k)
    BY <1>1, <1>3
  <2>3. RepeatLess(f, byPresses, i, k)
    BY <2>1, <2>2 DEF RepeatLess
  <2> QED
    BY <2>3, <1>4
<1> QED
  BY <1>2, <1>5, <1>6, <1>7, <1>8 DEF Ordered

(* Their ranked lists are the top of that order. *)
LEMMA RankedRepeatsIs ==
  ASSUME NEW f, NEW limit, NEW byPresses
  PROVE  RankedRepeats(f, limit, byPresses)
           = {[key |-> k, runs |-> f[k][1], presses |-> f[k][2]] : k \in Top(RepeatAhead(f, byPresses), limit)}
BY DEF RankedRepeats, RepeatAhead, RepeatLess

-----------------------------------------------------------------------------
(* Every session has its own ID, in all the logs together.                   *)
LEMMA StartsJoined ==
  ASSUME NEW a \in Logs, NEW b \in Logs
  PROVE  Cardinality(Starts(a \o b)) = Cardinality(Starts(a)) + Cardinality(Starts(b))
<1>1. Len(a) \in Nat /\ Len(b) \in Nat /\ DOMAIN a = 1..Len(a) /\ DOMAIN b = 1..Len(b)
  BY Indices
<1>2. /\ a \o b \in Logs /\ DOMAIN (a \o b) = 1..(Len(a) + Len(b))
      /\ \A i \in 1..Len(a) : (a \o b)[i] = a[i]
      /\ \A i \in 1..Len(b) : (a \o b)[Len(a) + i] = b[i]
  BY <1>1 DEF Logs
<1> DEFINE f == [i \in Starts(b) |-> Len(a) + i]
           shifted == {Len(a) + i : i \in Starts(b)}
<1>3. Starts(b) \subseteq 1..Len(b) /\ IsFiniteSet(Starts(b)) /\ Starts(a) \subseteq 1..Len(a) /\ IsFiniteSet(Starts(a))
  BY <1>1, OfFinite DEF Starts
<1>4. OneToOne(f, Starts(b)) /\ shifted = ImageOf(f, Starts(b))
  <2>1. \A i, j \in Starts(b) : f[i] = f[j] => i = j
    BY <1>1, <1>3
  <2> QED
    BY <2>1 DEF OneToOne, ImageOf
<1>5. Starts(a \o b) = Starts(a) \cup shifted
  <2>1. ASSUME NEW i \in Starts(a \o b)
        PROVE  i \in Starts(a) \cup shifted
    <3>1. i \in 1..(Len(a) + Len(b)) /\ (a \o b)[i].kind = "session_start"
      BY <1>2 DEF Starts, Of
    <3>2. CASE i \in 1..Len(a)
      BY <3>1, <3>2, <1>1, <1>2 DEF Starts, Of
    <3>3. CASE i \notin 1..Len(a)
      <4>1. i - Len(a) \in 1..Len(b) /\ i = Len(a) + (i - Len(a))
        BY <3>1, <3>3, <1>1
      <4>2. b[i - Len(a)].kind = "session_start"
        BY <4>1, <3>1, <1>2
      <4>3. i - Len(a) \in Starts(b)
        BY <4>1, <4>2, <1>1 DEF Starts, Of
      <4> QED
        BY <4>1, <4>3
    <3> QED
      BY <3>2, <3>3
  <2>2. ASSUME NEW i \in Starts(a)
        PROVE  i \in Starts(a \o b)
    <3>1. i \in 1..Len(a) /\ a[i].kind = "session_start"
      BY <1>1 DEF Starts, Of
    <3>2. i \in 1..(Len(a) + Len(b)) /\ (a \o b)[i] = a[i]
      BY <3>1, <1>1, <1>2
    <3> QED
      BY <3>1, <3>2, <1>2 DEF Starts, Of
  <2>3. ASSUME NEW i \in Starts(b)
        PROVE  Len(a) + i \in Starts(a \o b)
    <3>1. i \in 1..Len(b) /\ b[i].kind = "session_start"
      BY <1>1 DEF Starts, Of
    <3>2. Len(a) + i \in 1..(Len(a) + Len(b)) /\ (a \o b)[Len(a) + i] = b[i]
      BY <3>1, <1>1, <1>2
    <3> QED
      BY <3>1, <3>2, <1>2 DEF Starts, Of
  <2> QED
    BY <2>1, <2>2, <2>3
<1>6. Starts(a) \cap shifted = {}
  BY <1>1, <1>3
<1> HIDE DEF f, shifted
<1>7. IsFiniteSet(shifted) /\ Cardinality(shifted) = Cardinality(Starts(b))
  BY <1>3, <1>4, ImageSize
<1> QED
  BY <1>3, <1>5, <1>6, <1>7, ApartSize

SessionsApart(log) == Cardinality(Ids(log)) = Cardinality(Starts(log))

(* Sessions that are apart in each log, and new, are apart in both. *)
LEMMA SessionsJoined ==
  ASSUME NEW a \in Logs, NEW b \in Logs, SessionsApart(a), SessionsApart(b), Ids(b) \cap Ids(a) = {}
  PROVE  SessionsApart(a \o b)
<1>1. Cardinality(Starts(a \o b)) = Cardinality(Starts(a)) + Cardinality(Starts(b))
  BY StartsJoined
<1>2. Ids(a \o b) = Ids(a) \cup Ids(b)
  BY IdsJoined
<1>3. IsFiniteSet(Ids(a)) /\ IsFiniteSet(Ids(b)) /\ Ids(a) \cap Ids(b) = {}
  BY IdsFinite
<1>4. Cardinality(Ids(a) \cup Ids(b)) = Cardinality(Ids(a)) + Cardinality(Ids(b))
  BY <1>3, ApartSize
<1> QED
  BY <1>1, <1>2, <1>4 DEF SessionsApart

(* In correct logs there are as many sessions as starts. *)
LEMMA SessionsCounted ==
  ASSUME NEW t \in [Inodes -> Logs], NEW r \in Seq(Inodes), \A k \in 1..Len(r) : Correct(t, r, k)
  PROVE  SessionsApart(Past(t, r, Len(r)))
<1>1. Len(r) \in Nat /\ \A k \in 1..Len(r) : r[k] \in Inodes
  OBVIOUS
<1>2. /\ Past(t, r, 0) = <<>> /\ \A k \in 0..Len(r) : Past(t, r, k) \in Logs
      /\ \A k \in 1..Len(r) : Past(t, r, k) = Past(t, r, k - 1) \o t[r[k]]
  BY PastStep
<1> DEFINE A == {k \in 0..Len(r) : SessionsApart(Past(t, r, k))}
<1>3. 0 \in A
  <2>1. Starts(<<>>) = {} /\ Ids(<<>>) = {}
    BY DEF Starts, Ids, Of
  <2>2. SessionsApart(<<>>)
    BY <2>1 DEF SessionsApart
  <2> QED
    BY <2>2, <1>1, <1>2
<1>4. ASSUME NEW k \in 1..Len(r), k - 1 \in A
      PROVE  k \in A
  <2>1. k \in 0..Len(r) /\ k - 1 \in 0..Len(r)
    BY <1>1
  <2>2. t[r[k]] \in Logs /\ Past(t, r, k - 1) \in Logs
    BY <1>1, <1>2, <2>1
  <2>3. SessionsApart(Past(t, r, k - 1))
    BY <1>4
  <2>4. SessionsApart(t[r[k]]) /\ Ids(t[r[k]]) \cap Ids(Past(t, r, k - 1)) = {}
    BY DEF Correct, Good, NewIds, SessionsApart
  <2>5. SessionsApart(Past(t, r, k - 1) \o t[r[k]])
    BY <2>2, <2>3, <2>4, SessionsJoined
  <2> QED
    BY <2>1, <2>5, <1>2
<1> HIDE DEF A
<1>5. 0..Len(r) \subseteq A
  BY <1>1, <1>3, <1>4, RangeInduction
<1>6. Len(r) \in A
  BY <1>1, <1>5
<1> QED
  BY <1>6 DEF A

-----------------------------------------------------------------------------
(* The mappings that were used, and those that were not. *)
LEMMA UsedCounted ==
  ASSUME NEW events \in Logs, NEW id
  PROVE  /\ UsesOf(events, id) \in Nat /\ (UsesOf(events, id) > 0 <=> id \in UsedIds(events))
<1> DEFINE S == {i \in Of(events, "mapping_use") : events[i].mapping_id = id}
<1>1. IsFiniteSet(S)
  <2>1. S \in SUBSET Of(events, "mapping_use")
    OBVIOUS
  <2> QED
    BY <2>1, OfFinite
<1>2. S = {} <=> id \notin UsedIds(events)
  BY DEF UsedIds
<1>3. UsesOf(events, id) = Cardinality(S)
  BY DEF UsesOf
<1> HIDE DEF S
<1>4. Cardinality(S) \in Nat /\ (Cardinality(S) = 0 <=> S = {})
  BY <1>1, FS_CardinalityType, FS_EmptySet
<1> QED
  BY <1>2, <1>3, <1>4

(* Each mapping of a valid snapshot has its own ID. *)
LEMMA SnapshotIdsDiffer ==
  ASSUME NEW snapshot \in Snapshots, ValidSnapshot(snapshot), Hashed(snapshot),
         NEW m \in ToSet(snapshot.mappings), NEW n \in ToSet(snapshot.mappings), m.mapping_id = n.mapping_id
  PROVE  m = n
<1>1. m \in SnapshotMappings /\ AsMapping(m) = m /\ n \in SnapshotMappings /\ AsMapping(n) = n
  BY SnapshotCases
<1>2. m.mapping_id = IdOf(m.mode, m.scope, m.lhs) /\ n.mapping_id = IdOf(n.mode, n.scope, n.lhs)
  BY DEF ValidSnapshot, ValidMapping, ToSet
<1>3. <<m.mode, m.scope, m.lhs>> = <<n.mode, n.scope, n.lhs>>
  BY <1>2 DEF Hashed
<1>4. m.mode = n.mode /\ m.scope = n.scope /\ m.lhs = n.lhs
  BY <1>3
<1>5. AsMapping(m) = AsMapping(n)
  BY <1>4 DEF AsMapping
<1> QED
  BY <1>1, <1>5

IdAt(ms) == [i \in DOMAIN ms |-> ms[i].mapping_id]

(* The IDs of a valid snapshot, by their places, all differ. *)
LEMMA IdsAtDiffer ==
  ASSUME NEW snapshot \in Snapshots, ValidSnapshot(snapshot), Hashed(snapshot), NEW ms, ms = snapshot.mappings
  PROVE  /\ DOMAIN ms = 1..Len(ms) /\ Len(ms) \in Nat /\ DOMAIN IdAt(ms) = DOMAIN ms
         /\ \A i, j \in 1..Len(ms) : IdAt(ms)[i] = IdAt(ms)[j] => i = j
         /\ SnapshotIds(snapshot) = ImageOf(IdAt(ms), 1..Len(ms))
<1>1. ms \in Seq(SnapshotMappings) /\ InOrder(ms)
  BY SnapshotCases, ValidIsInOrder
<1>2. DOMAIN ms = 1..Len(ms) /\ Len(ms) \in Nat /\ \A i \in 1..Len(ms) : ms[i] \in ToSet(ms)
  BY <1>1 DEF ToSet
<1>3. \A i, j \in 1..Len(ms) : ms[i] = ms[j] => i = j
  BY <1>1, InOrderSequence
<1>4. \A i, j \in 1..Len(ms) : IdAt(ms)[i] = IdAt(ms)[j] => i = j
  <2> TAKE i, j \in 1..Len(ms)
  <2> HAVE IdAt(ms)[i] = IdAt(ms)[j]
  <2>1. ms[i].mapping_id = ms[j].mapping_id /\ ms[i] \in ToSet(snapshot.mappings) /\ ms[j] \in ToSet(snapshot.mappings)
    BY <1>2 DEF IdAt
  <2>2. ms[i] = ms[j]
    BY <2>1, SnapshotIdsDiffer
  <2> QED
    BY <2>2, <1>3
<1>5. SnapshotIds(snapshot) = ImageOf(IdAt(ms), 1..Len(ms))
  <2>1. SnapshotIds(snapshot) = {ms[i].mapping_id : i \in 1..Len(ms)}
    BY <1>2 DEF SnapshotIds, ToSet
  <2>2. \A i \in 1..Len(ms) : IdAt(ms)[i] = ms[i].mapping_id
    BY <1>2 DEF IdAt
  <2> QED
    BY <2>1, <2>2 DEF ImageOf
<1> QED
  BY <1>2, <1>4, <1>5 DEF IdAt

CoverageRight(c, snapshot, events) ==
  /\ c.present = snapshot.present /\ c.total = Len(snapshot.mappings)
  /\ c.observed \in Nat /\ c.unobserved \in Nat
  /\ c.observed + c.unobserved = Len(snapshot.mappings)
  /\ c = [present |-> snapshot.present, total |-> Cardinality(SnapshotIds(snapshot)),
          observed |-> Cardinality(SnapshotIds(snapshot) \cap UsedIds(events)),
          unobserved |-> Cardinality(SnapshotIds(snapshot) \ UsedIds(events))]

(* The coverage counts the mappings of the snapshot that are used, and the
   others. *)
LEMMA CoverageExact ==
  ASSUME NEW snapshot \in Snapshots, ValidSnapshot(snapshot), Hashed(snapshot),
         NEW events \in Logs, NEW acc, UseCounts(acc, events)
  PROVE  CoverageRight(Coverage(snapshot, acc.mappings), snapshot, events)
<1> DEFINE counts == acc.mappings
           ms == snapshot.mappings
           seen == {i \in 1..Len(ms) : CountOf(counts, ms[i].mapping_id) > 0}
           rest == {i \in 1..Len(ms) : IdAt(ms)[i] \notin UsedIds(events)}
           f == [i \in rest |-> IdAt(ms)[i]]
<1>1. /\ DOMAIN ms = 1..Len(ms) /\ Len(ms) \in Nat
      /\ \A i, j \in 1..Len(ms) : IdAt(ms)[i] = IdAt(ms)[j] => i = j
      /\ SnapshotIds(snapshot) = ImageOf(IdAt(ms), 1..Len(ms))
  BY IdsAtDiffer
<1>2. seen = {i \in 1..Len(ms) : IdAt(ms)[i] \in UsedIds(events)}
  BY <1>1, UsedCounted DEF IdAt, UseCounts
<1>3. seen \cup rest = 1..Len(ms) /\ seen \cap rest = {}
  BY <1>2
<1>4. IsFiniteSet(1..Len(ms)) /\ Cardinality(1..Len(ms)) = Len(ms)
  BY <1>1, UpTo
<1>5. IsFiniteSet(seen) /\ IsFiniteSet(rest)
  BY <1>3, <1>4, FS_Subset
<1>6. OneToOne(f, rest)
  BY <1>1 DEF OneToOne
<1>7. SnapshotIds(snapshot) \ UsedIds(events) = ImageOf(f, rest)
  <2>1. \A id \in SnapshotIds(snapshot) : \E i \in 1..Len(ms) : IdAt(ms)[i] = id
    BY <1>1 DEF ImageOf
  <2>2. \A i \in 1..Len(ms) : IdAt(ms)[i] \in SnapshotIds(snapshot)
    BY <1>1 DEF ImageOf
  <2>3. \A i \in rest : f[i] = IdAt(ms)[i]
    OBVIOUS
  <2>4. \A i \in 1..Len(ms) : i \in rest <=> IdAt(ms)[i] \notin UsedIds(events)
    OBVIOUS
  <2> HIDE DEF f, rest, ms
  <2>5. ASSUME NEW id \in SnapshotIds(snapshot), id \notin UsedIds(events) PROVE id \in ImageOf(f, rest)
    <3>1. PICK i \in 1..Len(ms) : IdAt(ms)[i] = id
      BY <2>1, <2>5
    <3> QED BY <2>3, <2>4, <2>5, <3>1 DEF ImageOf
  <2>6. ASSUME NEW id \in ImageOf(f, rest) PROVE id \in SnapshotIds(snapshot) /\ id \notin UsedIds(events)
    <3>1. PICK i \in rest : f[i] = id
      BY <2>6 DEF ImageOf
    <3>2. i \in 1..Len(ms)
      BY DEF rest
    <3> QED BY <2>2, <2>3, <2>4, <3>1, <3>2
  <2> QED BY <2>5, <2>6
<1>8. /\ Coverage(snapshot, counts).present = snapshot.present
      /\ Coverage(snapshot, counts).total = Len(ms)
      /\ Coverage(snapshot, counts).observed = Cardinality(seen)
      /\ Coverage(snapshot, counts).unobserved = Len(ms) - Cardinality(seen)
  BY DEF Coverage
<1> HIDE DEF seen, rest, f, ms, counts
<1>9. Cardinality(SnapshotIds(snapshot) \ UsedIds(events)) = Cardinality(rest)
  BY <1>5, <1>6, <1>7, ImageSize
<1>10. /\ Cardinality(seen \cup rest) = Cardinality(seen) + Cardinality(rest)
       /\ Cardinality(seen) \in Nat /\ Cardinality(rest) \in Nat
  BY <1>3, <1>5, ApartSize
<1>11. Len(ms) = Cardinality(seen) + Cardinality(rest)
  BY <1>3, <1>4, <1>10
<1>12. Len(ms) - Cardinality(seen) = Cardinality(rest) /\ Cardinality(seen) + Cardinality(rest) = Len(ms)
  BY <1>10, <1>11
<1>13. IsFiniteSet(SnapshotIds(snapshot)) /\ Cardinality(SnapshotIds(snapshot)) = Len(ms)
  <2>1. OneToOne(IdAt(ms), 1..Len(ms))
    BY <1>1, IdsAtDiffer DEF OneToOne, ms
  <2> QED
    BY <1>1, <1>4, <2>1, ImageSize
<1>14. Cardinality(SnapshotIds(snapshot) \cap UsedIds(events)) = Cardinality(seen)
  <2> DEFINE I == SnapshotIds(snapshot) \cap UsedIds(events)
             O == SnapshotIds(snapshot) \ UsedIds(events)
  <2>1. SnapshotIds(snapshot) = I \cup O /\ I \cap O = {} /\ IsFiniteSet(I) /\ IsFiniteSet(O)
    BY <1>13, FS_Subset
  <2> HIDE DEF I, O
  <2>2. /\ Cardinality(SnapshotIds(snapshot)) = Cardinality(I) + Cardinality(O)
        /\ Cardinality(I) \in Nat /\ Cardinality(O) \in Nat
    BY <2>1, ApartSize
  <2>3. Cardinality(O) = Cardinality(rest)
    BY <1>9 DEF O
  <2>4. Cardinality(I) = Cardinality(seen)
    BY <1>10, <1>11, <1>13, <2>2, <2>3
  <2> QED BY <2>4 DEF I
<1>15. Coverage(snapshot, counts)
         = [present |-> snapshot.present, total |-> Len(ms), observed |-> Cardinality(seen),
            unobserved |-> Len(ms) - Cardinality(seen)]
  BY DEF Coverage, seen, ms, counts
<1> QED
  BY <1>8, <1>9, <1>10, <1>12, <1>13, <1>14, <1>15 DEF ms, counts, CoverageRight

-----------------------------------------------------------------------------
(* A summary, list by list.                                                  *)
CountAt(events, k) == Cardinality({p \in Keyed(events) : TokenAt(events, p) = k})

(* A count of the accumulator is a count of positions. *)
LEMMA CountAtIs ==
  ASSUME NEW events \in Logs, NEW acc, KeyCounts(acc, events), NEW k
  PROVE  CountOf(acc.keys, k) = CountAt(events, k)
<1>1. CountOf(acc.keys, k) = Cardinality(At(Keyed(events), PosKey(events), k))
  BY DEF KeyCounts, Counts, CountedFor
<1>2. At(Keyed(events), PosKey(events), k) = {p \in Keyed(events) : TokenAt(events, p) = k}
  BY DEF At, PosKey
<1> QED
  BY <1>1, <1>2 DEF CountAt

(* What a ranked list shows, and what it leaves out. *)
ShownIn(list) == {k.key : k \in list}

(* A ranked list shows the counts of its entries. *)
LEMMA RankedShows ==
  ASSUME NEW f \in Maps(Token, Nat)
  PROVE  /\ ShownIn(Ranked(f)) = Top(CountAhead(f), MaxRankedItems)
         /\ \A k \in Ranked(f) : k.key \in DOMAIN f /\ k.count = f[k.key] /\ k = [key |-> k.key, count |-> f[k.key]]
<1>1. Ranked(f) = {[key |-> k, count |-> f[k]] : k \in Top(CountAhead(f), MaxRankedItems)}
  BY RankedIs
<1>2. Top(CountAhead(f), MaxRankedItems) \subseteq DOMAIN f
  BY CountOrdered, TopMember, Limits
<1>3. \A k : [key |-> k, count |-> f[k]].key = k /\ [key |-> k, count |-> f[k]].count = f[k]
  OBVIOUS
<1>4. ShownIn(Ranked(f)) = Top(CountAhead(f), MaxRankedItems)
  <2>1. \A k \in Ranked(f) : k.key \in Top(CountAhead(f), MaxRankedItems)
    BY <1>1
  <2>2. ASSUME NEW k \in Top(CountAhead(f), MaxRankedItems)
        PROVE  k \in ShownIn(Ranked(f))
    <3>1. [key |-> k, count |-> f[k]] \in Ranked(f)
      BY <1>1
    <3>2. [key |-> k, count |-> f[k]].key \in ShownIn(Ranked(f))
      BY <3>1 DEF ShownIn
    <3> QED
      BY <3>2
  <2>3. ShownIn(Ranked(f)) \subseteq Top(CountAhead(f), MaxRankedItems)
    BY <2>1 DEF ShownIn
  <2> QED
    BY <2>2, <2>3
<1>5. \A k \in Ranked(f) : k.key \in DOMAIN f /\ k.count = f[k.key] /\ k = [key |-> k.key, count |-> f[k.key]]
  BY <1>1, <1>2, <1>3
<1> QED
  BY <1>4, <1>5

(* Repeated keys and motions are counted by their runs. *)
LEMMA RunsOfKeyIs ==
  ASSUME NEW events \in Logs, NEW least, NEW k
  PROVE  RunsOfKey(events, k, least) = OfKey(Runs(events, least), KeyAt(events), k)
<1>1. \A r \in Runs(events, least) : r \in Spans
  BY RunsType
<1>2. \A r \in Runs(events, least) : KeyAt(events)[r] = events[r[1]].keys[r[2]]
  BY <1>1 DEF KeyAt
<1> QED
  BY <1>2 DEF RunsOfKey, OfKey

TallyExact(f, events, least, k) ==
  f[k] = <<Cardinality(RunsOfKey(events, k, least)), PressesIn(RunsOfKey(events, k, least))>>

(* An entry of a right tally counts runs and presses. *)
LEMMA TallyIsExact ==
  ASSUME NEW events \in Logs, NEW least, NEW f, NEW k \in DOMAIN f,
         TalliedFor(f, Runs(events, least), KeyAt(events), k)
  PROVE  TallyExact(f, events, least, k)
<1>1. PairOf(f, k) = f[k]
  BY DEF PairOf
<1> QED
  BY <1>1, RunsOfKeyIs DEF TalliedFor, TallyExact

ShowsTally(m, f) == m.runs = f[m.key][1] /\ m.presses = f[m.key][2]

RepeatShown(f, limit, byPresses) == Top(RepeatAhead(f, byPresses), limit)

(* A ranked list of repetitions shows their tally. *)
LEMMA RepeatsShow ==
  ASSUME NEW f \in Maps(Token, Numbers), NEW limit \in Nat, NEW byPresses \in BOOLEAN
  PROVE  /\ RepeatShown(f, limit, byPresses) \subseteq DOMAIN f
         /\ ShownIn(RankedRepeats(f, limit, byPresses)) = RepeatShown(f, limit, byPresses)
         /\ \A k \in RankedRepeats(f, limit, byPresses) :
              k.key \in RepeatShown(f, limit, byPresses) /\ ShowsTally(k, f)
         /\ \A k \in RepeatShown(f, limit, byPresses) :
              [key |-> k, runs |-> f[k][1], presses |-> f[k][2]] \in RankedRepeats(f, limit, byPresses)
<1>1. RankedRepeats(f, limit, byPresses)
        = {[key |-> k, runs |-> f[k][1], presses |-> f[k][2]] : k \in RepeatShown(f, limit, byPresses)}
  BY RankedRepeatsIs DEF RepeatShown
<1>2. RepeatShown(f, limit, byPresses) \subseteq DOMAIN f
  BY RepeatOrdered, TopMember DEF RepeatShown
<1>3. \A k : LET r == [key |-> k, runs |-> f[k][1], presses |-> f[k][2]]
             IN  r.key = k /\ r.runs = f[k][1] /\ r.presses = f[k][2]
  OBVIOUS
<1>4. ShownIn(RankedRepeats(f, limit, byPresses)) = RepeatShown(f, limit, byPresses)
  <2>1. \A k \in RankedRepeats(f, limit, byPresses) : k.key \in RepeatShown(f, limit, byPresses)
    BY <1>1
  <2>2. ASSUME NEW k \in RepeatShown(f, limit, byPresses)
        PROVE  k \in ShownIn(RankedRepeats(f, limit, byPresses))
    <3>1. [key |-> k, runs |-> f[k][1], presses |-> f[k][2]] \in RankedRepeats(f, limit, byPresses)
      BY <1>1
    <3>2. [key |-> k, runs |-> f[k][1], presses |-> f[k][2]].key \in ShownIn(RankedRepeats(f, limit, byPresses))
      BY <3>1 DEF ShownIn
    <3> QED
      BY <3>2
  <2>3. ShownIn(RankedRepeats(f, limit, byPresses)) \subseteq RepeatShown(f, limit, byPresses)
    BY <2>1 DEF ShownIn
  <2> QED
    BY <2>2, <2>3
<1>5. \A k \in RankedRepeats(f, limit, byPresses) :
        k.key \in RepeatShown(f, limit, byPresses) /\ ShowsTally(k, f)
  BY <1>1, <1>3 DEF ShowsTally
<1> QED
  BY <1>1, <1>2, <1>4, <1>5

-----------------------------------------------------------------------------
(* What an accumulator without an error knows. *)
FullyKnown(acc, events) ==
  /\ acc \in Accumulators /\ Charted(acc, events) /\ acc.error = NoError /\ Totals(acc, events) /\ RepeatsExact(acc, events) /\ DigitsCounted(acc, events)
  /\ MotionsExact(acc, events) /\ KeyCounts(acc, events) /\ UseCounts(acc, events)
  /\ acc.total_session_duration_ms = Duration(events)
  /\ DOMAIN acc.keys = Tokens(events) /\ DOMAIN acc.mappings = UsedIds(events)
  /\ DOMAIN acc.control_keys = ControlKeys(events)
  /\ DOMAIN acc.repeated_keys = KeysOf(Runs(events, 2), KeyAt(events))
  /\ Cardinality(DOMAIN acc.keys) <= MaxDistinctItems /\ Cardinality(DOMAIN acc.mappings) <= MaxDistinctItems

(* An exact accumulator without an error knows everything. *)
LEMMA ExactKnown ==
  ASSUME NEW acc, NEW events, NEW snapshot, Exact(acc, events, snapshot), acc.error = NoError
  PROVE  FullyKnown(acc, events)
<1>1. /\ acc \in Accumulators /\ Totals(acc, events) /\ RepeatsExact(acc, events) /\ DigitsCounted(acc, events)
      /\ MotionsExact(acc, events) /\ Unfailed(acc, events, snapshot) /\ Charted(acc, events)
      /\ Stocked(acc, StockOf(events), BadIn(events, snapshot))
  BY DEF Exact, Accounted
<1>2. /\ DOMAIN acc.keys = StockOf(events).keys /\ DOMAIN acc.repeated_keys = StockOf(events).repeated_keys
      /\ DOMAIN acc.mappings = StockOf(events).mappings /\ DOMAIN acc.control_keys = StockOf(events).control_keys
      /\ Fits(StockOf(events))
  BY <1>1 DEF Stocked
<1>3. /\ StockOf(events).keys = Tokens(events)
      /\ StockOf(events).repeated_keys = KeysOf(Runs(events, 2), KeyAt(events))
      /\ StockOf(events).mappings = UsedIds(events) /\ StockOf(events).control_keys = ControlKeys(events)
  BY DEF StockOf
<1>4. /\ KeyCounts(acc, events) /\ UseCounts(acc, events)
      /\ acc.total_session_duration_ms = Duration(events)
  BY <1>1 DEF Unfailed
<1>5. Cardinality(Tokens(events)) <= MaxDistinctItems /\ Cardinality(UsedIds(events)) <= MaxDistinctItems
  BY <1>2, <1>3 DEF Fits
<1> QED
  BY <1>1, <1>2, <1>3, <1>4, <1>5 DEF FullyKnown

(* The types of what it knows. *)
LEMMA KnownTypes ==
  ASSUME NEW acc, NEW events, FullyKnown(acc, events)
  PROVE  /\ acc.keys \in Maps(Token, Nat) /\ acc.mappings \in Maps(Token, Nat)
         /\ acc.control_keys \in Maps(TextModes \X Token, Nat)
         /\ acc.repeated_keys \in Maps(Token, Numbers) /\ acc.repeated_motions \in Maps(Token, Numbers)
         /\ acc.modes \in Maps(SequenceModes, Numbers) /\ acc.transitions \in Maps(Modes \X Modes, Nat)
         /\ DOMAIN acc.repeated_motions \subseteq Motions
         /\ acc.sequence_keys = Cardinality(Keyed(events))
<1>1. acc \in Accumulators
  BY DEF FullyKnown
<1>2. DOMAIN acc.repeated_motions \subseteq Motions
  BY DEF FullyKnown, MotionsExact, MotionsTallied
<1>3. acc.sequence_keys = Cardinality(Keyed(events))
  BY DEF FullyKnown, Totals
<1> QED
  BY <1>1, <1>2, <1>3 DEF Accumulators

(* When an analysis has succeeded its accumulator knows everything. *)
LEMMA FinishedKnown ==
  ASSUME Finished
  PROVE  FullyKnown(state.acc, All) /\ All \in Logs
<1>1. Exact(state.acc, All, keymap.snapshot) /\ state.acc.error = NoError /\ All \in Logs
  BY DEF Finished, Between
<1> QED
  BY <1>1, ExactKnown

(* The counts of keys are those of the logs. *)
LEMMA KeysAreCounted ==
  ASSUME NEW events \in Logs, NEW acc, FullyKnown(acc, events)
  PROVE  acc.keys = KeyUse(events)
<1> DEFINE f == acc.keys
           at == [p \in Keyed(events) |-> TokenAt(events, p)]
<1>1. f \in [DOMAIN f -> Nat] /\ DOMAIN f = Tokens(events) /\ KeyCounts(acc, events)
  BY KnownTypes, MapType DEF FullyKnown
<1>2. \A k \in DOMAIN f : f[k] = Cardinality({p \in Keyed(events) : TokenAt(events, p) = k})
  BY <1>1, CountAtIs DEF CountOf, CountAt
<1>3. Range(at) = Tokens(events)
  BY DEF Range, Tokens
<1>4. \A k : {p \in DOMAIN at : at[p] = k} = {p \in Keyed(events) : TokenAt(events, p) = k}
  OBVIOUS
<1>5. KeyUse(events) = Histogram(at)
  BY DEF KeyUse
<1> HIDE DEF at
<1>6. KeyUse(events) = [k \in Tokens(events) |-> Cardinality({p \in Keyed(events) : TokenAt(events, p) = k})]
  BY <1>3, <1>4, <1>5 DEF Histogram
<1> QED
  BY <1>1, <1>2, <1>6

(* The counts of mappings are those of the logs. *)
LEMMA MappingsAreCounted ==
  ASSUME NEW events \in Logs, NEW acc, FullyKnown(acc, events)
  PROVE  acc.mappings = MappingUse(events)
<1> DEFINE f == acc.mappings
           at == [i \in Of(events, "mapping_use") |-> events[i].mapping_id]
<1>1. f \in [DOMAIN f -> Nat] /\ DOMAIN f = UsedIds(events) /\ UseCounts(acc, events)
  BY KnownTypes, MapType DEF FullyKnown
<1>2. \A k \in DOMAIN f : f[k] = Cardinality({i \in Of(events, "mapping_use") : events[i].mapping_id = k})
  BY <1>1 DEF CountOf, UseCounts, UsesOf
<1>3. Range(at) = UsedIds(events)
  BY DEF Range, UsedIds
<1>4. \A k : {i \in DOMAIN at : at[i] = k} = {i \in Of(events, "mapping_use") : events[i].mapping_id = k}
  OBVIOUS
<1>5. MappingUse(events) = Histogram(at)
  BY DEF MappingUse
<1> HIDE DEF at
<1>6. MappingUse(events)
        = [k \in UsedIds(events) |-> Cardinality({i \in Of(events, "mapping_use") : events[i].mapping_id = k})]
  BY <1>3, <1>4, <1>5 DEF Histogram
<1> QED
  BY <1>1, <1>2, <1>6

(* A tally that is right for each of its keys is the tally of the runs. *)
LEMMA RunTallyIs ==
  ASSUME NEW events \in Logs, NEW least, NEW f \in Maps(Token, Numbers),
         \A k \in DOMAIN f : TalliedFor(f, Runs(events, least), KeyAt(events), k)
  PROVE  f = RunTally(events, DOMAIN f, least)
<1>1. f \in [DOMAIN f -> Numbers]
  BY MapType
<1>2. \A k \in DOMAIN f : TallyExact(f, events, least, k)
  BY TallyIsExact
<1> QED
  BY <1>1, <1>2 DEF RunTally, TallyExact

(* The keys of the runs, named as the model does. *)
LEMMA KeysOfRuns ==
  ASSUME NEW events \in Logs, NEW least
  PROVE  KeysOf(Runs(events, least), KeyAt(events)) = {events[r[1]].keys[r[2]] : r \in Runs(events, least)}
<1>1. Runs(events, least) \in SUBSET Spans
  BY RunsType
<1>2. \A r \in Runs(events, least) : KeyAt(events)[r] = events[r[1]].keys[r[2]]
  BY <1>1 DEF KeyAt
<1> QED
  BY <1>2 DEF KeysOf

(* The tallies of repeated keys and motions are those of the logs. *)
LEMMA RepeatsAreTallied ==
  ASSUME NEW events \in Logs, NEW acc, FullyKnown(acc, events)
  PROVE  acc.repeated_keys = RepeatUse(events) /\ acc.repeated_motions = MotionUse(events)
<1>1. acc.repeated_keys \in Maps(Token, Numbers) /\ acc.repeated_motions \in Maps(Token, Numbers)
  BY KnownTypes
<1>2. /\ \A k : TalliedFor(acc.repeated_keys, Runs(events, 2), KeyAt(events), k)
      /\ DOMAIN acc.repeated_keys = KeysOf(Runs(events, 2), KeyAt(events))
  BY DEF FullyKnown, RepeatsExact, Repeats
<1>3. /\ \A k \in Motions : TalliedFor(acc.repeated_motions, Runs(events, 3), KeyAt(events), k)
      /\ DOMAIN acc.repeated_motions = KeysOf(Runs(events, 3), KeyAt(events)) \cap Motions
  BY DEF FullyKnown, MotionsExact, MotionsTallied
<1>4. acc.repeated_keys = RunTally(events, DOMAIN acc.repeated_keys, 2)
  BY <1>1, <1>2, RunTallyIs
<1>5. acc.repeated_motions = RunTally(events, DOMAIN acc.repeated_motions, 3)
  BY <1>1, <1>3, RunTallyIs
<1> QED
  BY <1>2, <1>3, <1>4, <1>5, KeysOfRuns DEF RepeatUse, MotionUse

(* What the accumulator counts, tallies and sums up by keys, mappings and
   control keys is what is in the logs. *)
LEMMA KnownUses ==
  ASSUME NEW events \in Logs, NEW acc, FullyKnown(acc, events)
  PROVE  /\ acc.keys = KeyUse(events) /\ acc.mappings = MappingUse(events)
         /\ acc.control_keys = ControlUse(events)
         /\ acc.repeated_keys = RepeatUse(events) /\ acc.repeated_motions = MotionUse(events)
BY KeysAreCounted, MappingsAreCounted, RepeatsAreTallied DEF FullyKnown, Charted

(* The entries of an attribution, with their counts. *)
LEMMA EntryPairs ==
  ASSUME NEW snapshot, NEW events, NEW acc, UseCounts(acc, events), DOMAIN acc.mappings = UsedIds(events)
  PROVE  {<<m.mapping_id, m.count>> : m \in Entries(snapshot, acc.mappings)}
           = {<<id, UsesOf(events, id)>>
              : id \in SnapshotIds(snapshot) \cup (IF snapshot.present THEN UsedIds(events) ELSE {})}
<1> DEFINE counts == acc.mappings
           ids == SnapshotIds(snapshot) \cup (IF snapshot.present THEN UsedIds(events) ELSE {})
<1>1. \A id : CountOf(counts, id) = UsesOf(events, id)
  BY DEF UseCounts
<1>2. \A id \in DOMAIN counts : counts[id] = UsesOf(events, id)
  BY <1>1 DEF CountOf
<1>3. ids = SnapshotIds(snapshot) \cup UnknownIds(snapshot, counts) /\ UnknownIds(snapshot, counts) \subseteq DOMAIN counts
  BY DEF UnknownIds
<1> HIDE DEF counts, ids
<1>4. ASSUME NEW m \in Entries(snapshot, counts)
      PROVE  m.mapping_id \in ids /\ m.count = UsesOf(events, m.mapping_id)
  <2>1. CASE IsAttributed(m, snapshot, counts)
    <3>1. PICK n \in ToSet(snapshot.mappings) : m = AttributedOf(snapshot, counts, n)
      BY <2>1 DEF IsAttributed
    <3>2. m.mapping_id = n.mapping_id /\ m.count = CountOf(counts, n.mapping_id)
      BY <3>1, AttributedFields
    <3> QED
      BY <1>1, <1>3, <3>2 DEF SnapshotIds
  <2>2. CASE IsUnknown(m, snapshot, counts)
    <3>1. PICK id \in UnknownIds(snapshot, counts) : m = UnknownOf(counts, id)
      BY <2>2 DEF IsUnknown
    <3>2. m.mapping_id = id /\ m.count = counts[id]
      BY <3>1, UnknownFields
    <3> QED
      BY <1>2, <1>3, <3>2
  <2> QED
    BY <2>1, <2>2, EntryCases
<1>5. ASSUME NEW id \in ids
      PROVE  \E m \in Entries(snapshot, counts) : m.mapping_id = id
  <2>1. CASE id \in SnapshotIds(snapshot)
    <3>1. PICK n \in ToSet(snapshot.mappings) : id = n.mapping_id
      BY <2>1 DEF SnapshotIds
    <3>2. PICK m : m = AttributedOf(snapshot, counts, n)
      OBVIOUS
    <3>3. m \in Entries(snapshot, counts) /\ m.mapping_id = id
      BY <3>1, <3>2, EntryCases, AttributedFields
    <3> QED
      BY <3>3
  <2>2. CASE id \in UnknownIds(snapshot, counts)
    <3>1. PICK m : m = UnknownOf(counts, id)
      OBVIOUS
    <3>2. m \in Entries(snapshot, counts) /\ m.mapping_id = id
      BY <2>2, <3>1, EntryCases, UnknownFields
    <3> QED
      BY <3>2
  <2> QED
    BY <1>3, <2>1, <2>2
<1>6. {<<m.mapping_id, m.count>> : m \in Entries(snapshot, counts)} = {<<id, UsesOf(events, id)>> : id \in ids}
  BY <1>4, <1>5
<1> QED
  BY <1>6 DEF counts, ids

-----------------------------------------------------------------------------
(* The ranked lists, one by one. *)
RankedExact(list, f) ==
  /\ Leading(ShownIn(list), CountAhead(f), MaxRankedItems)
  /\ list = {[key |-> k, count |-> f[k]] : k \in ShownIn(list)}
ControlsShown(list) == {<<e.mode, e.key>> : e \in list}
ControlsExact(list, f) ==
  /\ Leading(ControlsShown(list), ControlAhead(f), MaxRankedItems)
  /\ list = {[mode |-> k[1], key |-> k[2], count |-> f[k]] : k \in ControlsShown(list)}
RepeatsRanked(list, f, limit, byPresses) ==
  /\ Leading(ShownIn(list), RepeatAhead(f, byPresses), limit)
  /\ list = {[key |-> k, runs |-> f[k][1], presses |-> f[k][2]] : k \in ShownIn(list)}

(* A ranked list of counts. *)
LEMMA RankedHolds ==
  ASSUME NEW f \in Maps(Token, Nat), NEW list, list = Ranked(f)
  PROVE  RankedExact(list, f)
<1>1. ShownIn(list) = Top(CountAhead(f), MaxRankedItems)
  BY RankedShows
<1>2. Leading(Top(CountAhead(f), MaxRankedItems), CountAhead(f), MaxRankedItems)
  BY CountOrdered, TopLeads, Limits
<1> QED
  BY <1>1, <1>2, RankedIs DEF RankedExact

(* The ranked list of control keys. *)
LEMMA ControlsHold ==
  ASSUME NEW f \in Maps(TextModes \X Token, Nat), NEW list, list = RankedControlKeys(f)
  PROVE  ControlsExact(list, f)
<1> DEFINE T == Top(ControlAhead(f), MaxRankedItems)
           entry(k) == [mode |-> k[1], key |-> k[2], count |-> f[k]]
<1>1. T \subseteq DOMAIN f /\ DOMAIN f \subseteq TextModes \X Token
  BY ControlOrdered, TopMember, Limits, MapType
<1>2. Leading(T, ControlAhead(f), MaxRankedItems)
  BY ControlOrdered, TopLeads, Limits
<1>3. list = {entry(k) : k \in T}
  BY RankedControlIs
<1> HIDE DEF T
<1>4. \A k \in T : <<entry(k).mode, entry(k).key>> = k
  BY <1>1
<1> HIDE DEF entry
<1>5. ControlsShown(list) = T
  BY <1>3, <1>4 DEF ControlsShown
<1> QED
  BY <1>2, <1>3, <1>5 DEF ControlsExact, entry

(* A ranked list of repetitions. *)
LEMMA RepeatsHold ==
  ASSUME NEW f \in Maps(Token, Numbers), NEW limit \in Nat, NEW byPresses \in BOOLEAN,
         NEW list, list = RankedRepeats(f, limit, byPresses)
  PROVE  RepeatsRanked(list, f, limit, byPresses)
<1>1. ShownIn(list) = Top(RepeatAhead(f, byPresses), limit)
  BY RepeatsShow DEF RepeatShown
<1>2. Leading(Top(RepeatAhead(f, byPresses), limit), RepeatAhead(f, byPresses), limit)
  BY RepeatOrdered, TopLeads
<1> QED
  BY <1>1, <1>2, RankedRepeatsIs DEF RepeatsRanked

-----------------------------------------------------------------------------
(* The summary, all of it.                                                   *)
(* Of what was typed: sessions, keys, repetitions and counts. *)
TypingExact(s, events) ==
  /\ s.sessions = Cardinality(Of(events, "session_start"))
  /\ s.events = Len(events)
  /\ s.total_session_duration_ms = Duration(events)
  /\ s.key_sequences = Cardinality(Of(events, "key_sequence"))
  /\ s.sequence_keys = Cardinality(Keyed(events))
  /\ s.unique_keys = Cardinality(Tokens(events))
  /\ s.repeated_key_runs = Cardinality(Runs(events, 2))
  /\ s.repeated_key_presses = PressesIn(Runs(events, 2))
  /\ s.unique_repeated_keys = Cardinality(DOMAIN RepeatUse(events))
  /\ s.count_prefix_occurrences = Cardinality({d[1] : d \in CountDigits(events)})
  /\ s.count_prefix_digit_presses = Cardinality(CountDigits(events))
(* Of text, control keys, modes and mappings. *)
OtherExact(s, events) ==
  /\ s.text_runs = Cardinality(Of(events, "text_run"))
  /\ s.text_keys = MapThenSumSet(LAMBDA i : events[i].count, Of(events, "text_run"))
  /\ s.control_key_uses = MapThenSumSet(LAMBDA i : events[i].count, Of(events, "control_key_use"))
  /\ s.unique_control_keys = Cardinality(ControlKeys(events))
  /\ s.mode_transitions = Cardinality(Of(events, "mode_transition"))
  /\ s.mapping_uses = Cardinality(Of(events, "mapping_use"))
  /\ s.unique_mappings = Cardinality(UsedIds(events))
(* The histograms. *)
ChartsExact(s, events) ==
  /\ s.session_duration = Durations(events) /\ s.modes = ModeUse(events)
  /\ s.sequence_length = Lengths(events) /\ s.latency = Paces(events)
  /\ s.operations = Operations(events) /\ s.transitions = Transitions(events)
(* The mappings of the snapshot, used and unused. *)
MappingsExact(s, snapshot, events) ==
  /\ s.mapping_coverage =
       [present |-> snapshot.present, total |-> Cardinality(SnapshotIds(snapshot)),
        observed |-> Cardinality(SnapshotIds(snapshot) \cap UsedIds(events)),
        unobserved |-> Cardinality(SnapshotIds(snapshot) \ UsedIds(events))]
  /\ {<<m.mapping_id, m.count>> : m \in s.mapping_attribution.mappings} =
       {<<id, UsesOf(events, id)>>
        : id \in SnapshotIds(snapshot) \cup (IF snapshot.present THEN UsedIds(events) ELSE {})}

(* The validator has seen as many sessions as were started. *)
LEMMA SessionsExact ==
  ASSUME Finished, text \in [Inodes -> Logs], read \in Seq(Inodes)
  PROVE  Cardinality(state.reader.log.seen) = Cardinality(Of(All, "session_start"))
<1>1. state.reader.log.seen = Ids(All) /\ \A k \in 1..Len(read) : Correct(text, read, k)
  BY DEF Finished, Between
<1>2. All = Past(text, read, Len(read))
  BY DEF All, Events, Past
<1>3. SessionsApart(Past(text, read, Len(read)))
  BY <1>1, SessionsCounted
<1> QED
  BY <1>1, <1>2, <1>3 DEF SessionsApart, Starts

(* What was typed, in a published summary. *)
LEMMA TypingIsExact ==
  ASSUME Finished, Cardinality(state.reader.log.seen) = Cardinality(Of(All, "session_start"))
  PROVE  TypingExact(summary, All)
<1>1. FullyKnown(state.acc, All) /\ All \in Logs
  BY FinishedKnown
<1>2. Counted(summary, state.acc, state.reader)
  BY SummaryFields
<1>3. state.reader.events = Len(All)
  BY DEF Finished, Between
<1>4. /\ state.acc.total_session_duration_ms = Duration(All) /\ DOMAIN state.acc.keys = Tokens(All)
      /\ state.acc.sequence_keys = Cardinality(Keyed(All))
      /\ state.acc.repeated_key_runs = Cardinality(Runs(All, 2))
      /\ state.acc.repeated_key_presses = PressesIn(Runs(All, 2))
      /\ state.acc.key_sequences = Cardinality(Of(All, "key_sequence"))
  BY <1>1 DEF FullyKnown, Totals, RepeatsExact, Repeats, Charted
<1>5. /\ state.acc.count_occurrences = Cardinality({d[1] : d \in CountDigits(All)})
      /\ state.acc.count_digit_presses = Cardinality(CountDigits(All))
  BY <1>1 DEF FullyKnown, DigitsCounted, Firsts
<1>6. DOMAIN state.acc.repeated_keys = DOMAIN RepeatUse(All)
  BY <1>1, KnownUses
<1> QED
  BY <1>2, <1>3, <1>4, <1>5, <1>6 DEF Counted, TypingExact

(* Text, control keys, modes and mappings, in a published summary. *)
LEMMA OtherIsExact ==
  ASSUME Finished
  PROVE  OtherExact(summary, All)
<1>1. FullyKnown(state.acc, All)
  BY FinishedKnown
<1>2. Counted(summary, state.acc, state.reader)
  BY SummaryFields
<1>3. /\ state.acc.text_runs = Cardinality(Of(All, "text_run")) /\ state.acc.text_keys = TextKeys(All)
      /\ state.acc.control_key_uses = ControlUses(All) /\ DOMAIN state.acc.control_keys = ControlKeys(All)
      /\ state.acc.mode_transitions = Cardinality(Of(All, "mode_transition"))
      /\ state.acc.mapping_uses = Cardinality(Of(All, "mapping_use"))
      /\ DOMAIN state.acc.mappings = UsedIds(All)
  BY <1>1 DEF FullyKnown, Totals, Charted
<1>4. /\ summary.text_runs = state.acc.text_runs /\ summary.text_keys = state.acc.text_keys
      /\ summary.control_key_uses = state.acc.control_key_uses
      /\ summary.unique_control_keys = Cardinality(DOMAIN state.acc.control_keys)
      /\ summary.mode_transitions = state.acc.mode_transitions
      /\ summary.mapping_uses = state.acc.mapping_uses
      /\ summary.unique_mappings = Cardinality(DOMAIN state.acc.mappings)
  BY <1>2 DEF Counted
<1>5. TextKeys(All) = MapThenSumSet(LAMBDA i : All[i].count, Of(All, "text_run"))
  BY DEF TextKeys, SumOfCounts
<1>6. ControlUses(All) = MapThenSumSet(LAMBDA i : All[i].count, Of(All, "control_key_use"))
  BY DEF ControlUses
<1>7. summary.text_keys = MapThenSumSet(LAMBDA i : All[i].count, Of(All, "text_run"))
  BY <1>3, <1>4, <1>5
<1>8. summary.control_key_uses = MapThenSumSet(LAMBDA i : All[i].count, Of(All, "control_key_use"))
  BY <1>3, <1>4, <1>6
<1> QED
  BY <1>3, <1>4, <1>7, <1>8 DEF OtherExact

(* The histograms of a published summary. *)
LEMMA ChartsAreExact ==
  ASSUME Finished
  PROVE  ChartsExact(summary, All)
<1>1. Charted(state.acc, All)
  BY FinishedKnown DEF FullyKnown
<1>2. Listed(summary, state.acc, state.reader, keymap.snapshot)
  BY SummaryFields
<1> QED
  BY <1>1, <1>2 DEF Charted, Listed, ChartsExact

(* The coverage and the attribution of a published summary. *)
LEMMA MappingsAreExact ==
  ASSUME Finished
  PROVE  MappingsExact(summary, keymap.snapshot, All)
<1> DEFINE snapshot == keymap.snapshot
<1>1. FullyKnown(state.acc, All) /\ All \in Logs
  BY FinishedKnown
<1>2. UseCounts(state.acc, All) /\ DOMAIN state.acc.mappings = UsedIds(All)
  BY <1>1 DEF FullyKnown
<1>3. snapshot \in Snapshots /\ ValidSnapshot(snapshot) /\ Hashed(snapshot)
  BY DEF Finished
<1>4. /\ summary.mapping_coverage = Coverage(snapshot, state.acc.mappings)
      /\ summary.mapping_attribution = Attribution(snapshot, state.acc.mappings)
  BY SummaryFields DEF Listed
<1>5. CoverageRight(summary.mapping_coverage, snapshot, All)
  BY <1>1, <1>2, <1>3, <1>4, CoverageExact
<1>6. summary.mapping_attribution.mappings = Entries(snapshot, state.acc.mappings)
  BY <1>4 DEF Entries
<1> HIDE DEF snapshot
<1>7. {<<m.mapping_id, m.count>> : m \in summary.mapping_attribution.mappings}
        = {<<id, UsesOf(All, id)>>
           : id \in SnapshotIds(snapshot) \cup (IF snapshot.present THEN UsedIds(All) ELSE {})}
  BY <1>2, <1>6, EntryPairs
<1>8. MappingsExact(summary, snapshot, All)
  BY <1>5, <1>7 DEF MappingsExact, CoverageRight
<1> QED
  BY <1>8 DEF snapshot

(* By the invariant the tallies of a published summary are exact. *)
LEMMA TalliesHold ==
  ASSUME CInv
  PROVE  TalliesAreExact
<1> SUFFICES ASSUME outcome = "ok"
             PROVE  /\ TypingExact(summary, All) /\ OtherExact(summary, All) /\ ChartsExact(summary, All)
                    /\ MappingsExact(summary, keymap.snapshot, All)
  BY DEF TalliesAreExact, TypingExact, OtherExact, ChartsExact, MappingsExact
<1>1. Finished
  BY WhenFinished
<1>2. text \in [Inodes -> Logs] /\ read \in Seq(Inodes)
  BY DEF CInv, IInv, TypeOK, Analysis, GivenTypes
<1> QED
  BY <1>1, <1>2, SessionsExact, TypingIsExact, OtherIsExact, ChartsAreExact, MappingsAreExact

(* Motions, by runs, presses and names. *)
MotionAhead(f) ==
  [k \in DOMAIN f |->
     {j \in DOMAIN f :
        \/ f[j][1] > f[k][1]
        \/ f[j][1] = f[k][1] /\ f[j][2] > f[k][2]
        \/ f[j] = f[k] /\ Less(j, k)}]
RepeatedAhead(f) ==
  [k \in DOMAIN f |->
     {j \in DOMAIN f : f[j][1] > f[k][1] \/ (f[j][1] = f[k][1] /\ Less(j, k))}]

(* Those are the orders of the lists of repetitions. *)
LEMMA RepeatOrders ==
  ASSUME NEW f \in Maps(Token, Numbers)
  PROVE  RepeatAhead(f, TRUE) = MotionAhead(f) /\ RepeatAhead(f, FALSE) = RepeatedAhead(f)
<1>1. ASSUME NEW j \in DOMAIN f, NEW k \in DOMAIN f
      PROVE  f[j] = f[k] <=> f[j][1] = f[k][1] /\ f[j][2] = f[k][2]
  <2>1. f[j] \in Numbers /\ f[k] \in Numbers
    BY MapType
  <2> QED
    BY <2>1 DEF Numbers
<1>2. ASSUME NEW j \in DOMAIN f, NEW k \in DOMAIN f
      PROVE  /\ RepeatLess(f, TRUE, j, k) <=> \/ f[j][1] > f[k][1]
                                              \/ f[j][1] = f[k][1] /\ f[j][2] > f[k][2]
                                              \/ f[j] = f[k] /\ Less(j, k)
             /\ RepeatLess(f, FALSE, j, k) <=> f[j][1] > f[k][1] \/ (f[j][1] = f[k][1] /\ Less(j, k))
  BY <1>1 DEF RepeatLess
<1> QED
  BY <1>2 DEF RepeatAhead, MotionAhead, RepeatedAhead

(* By the invariant the ranked lists of a published summary are exact. *)
LEMMA RankingHolds ==
  ASSUME CInv
  PROVE  RankedListsAreExact
<1> SUFFICES ASSUME outcome = "ok"
             PROVE  /\ RankedExact(summary.keys, KeyUse(All)) /\ RankedExact(summary.mappings, MappingUse(All))
                    /\ ControlsExact(summary.control_keys, ControlUse(All))
                    /\ Leading(ShownIn(summary.repeated_keys), RepeatedAhead(RepeatUse(All)), MaxRankedItems)
                    /\ summary.repeated_keys =
                         {[key |-> k, runs |-> RepeatUse(All)[k][1], presses |-> RepeatUse(All)[k][2]]
                          : k \in ShownIn(summary.repeated_keys)}
                    /\ Leading(ShownIn(summary.repeated_motions), MotionAhead(MotionUse(All)), MaxCandidates)
                    /\ summary.repeated_motions =
                         {[key |-> k, runs |-> MotionUse(All)[k][1], presses |-> MotionUse(All)[k][2]]
                          : k \in ShownIn(summary.repeated_motions)}
  BY DEF RankedListsAreExact, RankedExact, ControlsExact, ShownIn, ControlsShown, CountAhead, ControlAhead,
         PairLess, RepeatedAhead, MotionAhead
<1>1. FullyKnown(state.acc, All) /\ All \in Logs
  BY WhenFinished, FinishedKnown
<1>2. /\ state.acc.keys = KeyUse(All) /\ state.acc.mappings = MappingUse(All)
      /\ state.acc.control_keys = ControlUse(All)
      /\ state.acc.repeated_keys = RepeatUse(All) /\ state.acc.repeated_motions = MotionUse(All)
  BY <1>1, KnownUses
<1>3. /\ KeyUse(All) \in Maps(Token, Nat) /\ MappingUse(All) \in Maps(Token, Nat)
      /\ ControlUse(All) \in Maps(TextModes \X Token, Nat)
      /\ RepeatUse(All) \in Maps(Token, Numbers) /\ MotionUse(All) \in Maps(Token, Numbers)
  BY <1>1, <1>2, KnownTypes
<1>4. /\ summary.keys = Ranked(KeyUse(All)) /\ summary.mappings = Ranked(MappingUse(All))
      /\ summary.control_keys = RankedControlKeys(ControlUse(All))
      /\ summary.repeated_keys = RankedRepeats(RepeatUse(All), MaxRankedItems, FALSE)
      /\ summary.repeated_motions = RankedRepeats(MotionUse(All), MaxCandidates, TRUE)
  BY <1>2, WhenFinished, SummaryFields DEF Listed
<1>5. /\ RankedExact(summary.keys, KeyUse(All)) /\ RankedExact(summary.mappings, MappingUse(All))
      /\ ControlsExact(summary.control_keys, ControlUse(All))
  BY <1>3, <1>4, RankedHolds, ControlsHold
<1>6. RepeatsRanked(summary.repeated_keys, RepeatUse(All), MaxRankedItems, FALSE)
  BY <1>3, <1>4, RepeatsHold, Limits
<1>7. RepeatsRanked(summary.repeated_motions, MotionUse(All), MaxCandidates, TRUE)
  BY <1>3, <1>4, RepeatsHold, Limits
<1> QED
  BY <1>3, <1>5, <1>6, <1>7, RepeatOrders DEF RepeatsRanked

(* Whatever the logs, the snapshot and the limits are, every total,          *)
(* histogram and tally of a published summary counts the positions in the    *)
(* logs it stands for, and each of its ranked lists leads, with true counts  *)
(* (SummaryIsExact).                                                         *)
THEOREM PublishedSummaryIsExact == Spec => []SummaryIsExact
<1>1. CInv => SummaryIsExact
  BY TalliesHold, RankingHolds DEF SummaryIsExact
<1> QED
  BY <1>1, CommandInvariant, PTL

-----------------------------------------------------------------------------
(* What may be suggested: the motions that are shown often enough, and the   *)
(* mappings that were not seen.                                              *)
CandidateKinds == {"repeated_motion", "current_mapping_unobserved_in_sample"}
CandidateRecords == [kind : CandidateKinds, subject : Token, observations : Nat]
RepeatedMotion(k, n) == [kind |-> "repeated_motion", subject |-> k, observations |-> n]
UnseenMapping(id, n) ==
  [kind |-> "current_mapping_unobserved_in_sample", subject |-> id, observations |-> n]
OftenIn(f, S) == {k \in S : f[k][1] >= MinObservations}
FromMotions(f, S) == {RepeatedMotion(k, f[k][1]) : k \in OftenIn(f, S)}
FromSnapshot(used, snapshot, n) == {UnseenMapping(id, n) : id \in SnapshotIds(snapshot) \ used}
EnoughFor(acc, n) == n >= MinSessions /\ acc.sequence_keys >= MinSequenceKeys
CandidateSet(acc, n, S, snapshot) ==
  (IF EnoughFor(acc, n) THEN FromMotions(acc.repeated_motions, S) ELSE {})
    \cup (IF EnoughFor(acc, n) /\ n >= MinObservations THEN FromSnapshot(DOMAIN acc.mappings, snapshot, n) ELSE {})

(* Their order. *)
CandidateLess(a, c) ==
  \/ Priority(a.kind) < Priority(c.kind)
  \/ a.kind = c.kind /\ a.observations > c.observations
  \/ a.kind = c.kind /\ a.observations = c.observations /\ Less(a.subject, c.subject)
CandidateAhead(S) == [c \in S |-> {a \in S : CandidateLess(a, c)}]

(* Repeated motions come before unseen mappings. *)
LEMMA PriorityIs ==
  /\ \A k \in CandidateKinds : Priority(k) \in Nat
  /\ \A j, k \in CandidateKinds : Priority(j) = Priority(k) => j = k
  /\ \A k : ~(Priority(k) < Priority("repeated_motion"))
  /\ Priority("repeated_motion") < Priority("current_mapping_unobserved_in_sample")
BY DEF Priority, CandidateKinds

(* Candidates are ordered, strictly and totally. *)
LEMMA CandidateLessOrder ==
  /\ \A x, y \in CandidateRecords : CandidateLess(x, y) \/ CandidateLess(y, x) \/ x = y
  /\ \A x \in CandidateRecords : ~CandidateLess(x, x)
  /\ \A x, y, z \in CandidateRecords : CandidateLess(x, y) /\ CandidateLess(y, z) => CandidateLess(x, z)
<1>1. \A x \in CandidateRecords :
        /\ x.kind \in CandidateKinds /\ x.subject \in Token /\ x.observations \in Nat
        /\ x = [kind |-> x.kind, subject |-> x.subject, observations |-> x.observations]
        /\ Priority(x.kind) \in Nat
  BY PriorityIs DEF CandidateRecords
<1>2. ASSUME NEW x \in CandidateRecords, NEW y \in CandidateRecords
      PROVE  CandidateLess(x, y) \/ CandidateLess(y, x) \/ x = y
  <2>1. CASE x.kind # y.kind
    <3>1. Priority(x.kind) # Priority(y.kind)
      BY <1>1, <2>1, PriorityIs
    <3>2. Priority(x.kind) < Priority(y.kind) \/ Priority(y.kind) < Priority(x.kind)
      BY <1>1, <3>1
    <3> QED
      BY <3>2 DEF CandidateLess
  <2>2. CASE x.kind = y.kind /\ x.observations # y.observations
    <3>1. x.observations > y.observations \/ y.observations > x.observations
      BY <1>1, <2>2
    <3> QED
      BY <3>1, <2>2 DEF CandidateLess
  <2>3. CASE x.kind = y.kind /\ x.observations = y.observations
    <3>1. Less(x.subject, y.subject) \/ Less(y.subject, x.subject) \/ x.subject = y.subject
      BY <1>1, LessOrder
    <3>2. x.subject = y.subject => x = y
      BY <1>1, <2>3
    <3> QED
      BY <3>1, <3>2, <2>3 DEF CandidateLess
  <2> QED
    BY <2>1, <2>2, <2>3
<1>3. ASSUME NEW x \in CandidateRecords
      PROVE  ~CandidateLess(x, x)
  <2>1. ~Less(x.subject, x.subject)
    BY <1>1, LessOrder
  <2>2. ~(Priority(x.kind) < Priority(x.kind)) /\ ~(x.observations > x.observations)
    BY <1>1
  <2> QED
    BY <2>1, <2>2 DEF CandidateLess
<1>4. ASSUME NEW x \in CandidateRecords, NEW y \in CandidateRecords, NEW z \in CandidateRecords,
             CandidateLess(x, y), CandidateLess(y, z)
      PROVE  CandidateLess(x, z)
  <2>1. /\ Priority(x.kind) \in Nat /\ Priority(y.kind) \in Nat /\ Priority(z.kind) \in Nat
        /\ x.observations \in Nat /\ y.observations \in Nat /\ z.observations \in Nat
    BY <1>1
  <2>2. Less(x.subject, y.subject) /\ Less(y.subject, z.subject) => Less(x.subject, z.subject)
    BY <1>1, LessOrder
  <2>3. CASE Priority(x.kind) < Priority(y.kind) \/ Priority(y.kind) < Priority(z.kind)
    <3>1. Priority(x.kind) <= Priority(y.kind) /\ Priority(y.kind) <= Priority(z.kind)
      BY <1>4, <2>1 DEF CandidateLess
    <3>2. Priority(x.kind) < Priority(z.kind)
      BY <3>1, <2>1, <2>3
    <3> QED
      BY <3>2 DEF CandidateLess
  <2>4. CASE ~(Priority(x.kind) < Priority(y.kind) \/ Priority(y.kind) < Priority(z.kind))
    <3>1. x.kind = y.kind /\ y.kind = z.kind
      BY <1>4, <2>4 DEF CandidateLess
    <3>2. /\ x.observations > y.observations \/ (x.observations = y.observations /\ Less(x.subject, y.subject))
          /\ y.observations > z.observations \/ (y.observations = z.observations /\ Less(y.subject, z.subject))
      BY <1>4, <2>4 DEF CandidateLess
    <3>3. x.observations > z.observations \/ (x.observations = z.observations /\ Less(x.subject, z.subject))
      BY <3>2, <2>1, <2>2
    <3> QED
      BY <3>1, <3>3 DEF CandidateLess
  <2> QED
    BY <2>3, <2>4
<1> QED
  BY <1>2, <1>3, <1>4

(* So is any finite set of them. *)
LEMMA CandidateOrdered ==
  ASSUME NEW S \in SUBSET CandidateRecords, IsFiniteSet(S)
  PROVE  Ordered(CandidateAhead(S), S)
<1>1. \A k, j \in S : j \in CandidateAhead(S)[k] <=> CandidateLess(j, k)
  BY DEF CandidateAhead
<1>2. DOMAIN CandidateAhead(S) = S /\ \A k \in S : CandidateAhead(S)[k] \subseteq S
  BY DEF CandidateAhead
<1>3. \A k \in S : k \notin CandidateAhead(S)[k]
  BY <1>1, CandidateLessOrder
<1>4. \A j, k \in S : j # k => j \in CandidateAhead(S)[k] \/ k \in CandidateAhead(S)[j]
  BY <1>1, CandidateLessOrder
<1>5. \A i, j, k \in S : i \in CandidateAhead(S)[j] /\ j \in CandidateAhead(S)[k] => i \in CandidateAhead(S)[k]
  BY <1>1, CandidateLessOrder
<1> QED
  BY <1>2, <1>3, <1>4, <1>5 DEF Ordered

(* What the model collects. *)
LEMMA CandidatesCollected ==
  ASSUME NEW acc, NEW n, NEW snapshot, acc.repeated_motions \in Maps(Token, Numbers)
  PROVE  Candidates(acc, n, RankedRepeats(acc.repeated_motions, MaxCandidates, TRUE), snapshot)
           = Top(CandidateAhead(CandidateSet(acc, n, RepeatShown(acc.repeated_motions, MaxCandidates, TRUE), snapshot)),
                 MaxCandidates)
<1> DEFINE f == acc.repeated_motions
           motions == RankedRepeats(f, MaxCandidates, TRUE)
           S == RepeatShown(f, MaxCandidates, TRUE)
           repeated == {[kind |-> "repeated_motion", subject |-> m.key, observations |-> m.runs]
                        : m \in {r \in motions : r.runs >= MinObservations}}
           unobserved == {[kind |-> "current_mapping_unobserved_in_sample", subject |-> m.mapping_id,
                           observations |-> n]
                          : m \in {s \in ToSet(snapshot.mappings) : s.mapping_id \notin DOMAIN acc.mappings}}
           all == (IF EnoughFor(acc, n) THEN repeated ELSE {})
                    \cup (IF EnoughFor(acc, n) /\ n >= MinObservations THEN unobserved ELSE {})
<1>1. Candidates(acc, n, motions, snapshot) = Top(CandidateAhead(all), MaxCandidates)
  BY DEF Candidates, CandidateAhead, CandidateLess, EnoughFor
<1>2. motions = {[key |-> k, runs |-> f[k][1], presses |-> f[k][2]] : k \in S}
  BY RankedRepeatsIs DEF RepeatShown
<1>3. repeated = FromMotions(f, S)
  <2>1. ASSUME NEW c \in repeated
        PROVE  c \in FromMotions(f, S)
    <3>1. PICK m \in motions : m.runs >= MinObservations /\ c = RepeatedMotion(m.key, m.runs)
      BY DEF RepeatedMotion
    <3>2. PICK k \in S : m = [key |-> k, runs |-> f[k][1], presses |-> f[k][2]]
      BY <1>2
    <3>3. m.key = k /\ m.runs = f[k][1]
      BY <3>2
    <3>4. k \in OftenIn(f, S) /\ c = RepeatedMotion(k, f[k][1])
      BY <3>1, <3>3 DEF OftenIn
    <3> QED
      BY <3>4 DEF FromMotions
  <2>2. ASSUME NEW c \in FromMotions(f, S)
        PROVE  c \in repeated
    <3>1. PICK k \in OftenIn(f, S) : c = RepeatedMotion(k, f[k][1])
      BY DEF FromMotions
    <3>2. k \in S /\ f[k][1] >= MinObservations
      BY DEF OftenIn
    <3>3. PICK m : m = [key |-> k, runs |-> f[k][1], presses |-> f[k][2]]
      OBVIOUS
    <3>4. m \in motions /\ m.key = k /\ m.runs = f[k][1]
      BY <1>2, <3>2, <3>3
    <3>5. m \in {r \in motions : r.runs >= MinObservations}
      BY <3>2, <3>4
    <3>6. c = [kind |-> "repeated_motion", subject |-> m.key, observations |-> m.runs]
      BY <3>1, <3>4 DEF RepeatedMotion
    <3> QED
      BY <3>5, <3>6
  <2> QED
    BY <2>1, <2>2
<1>4. unobserved = FromSnapshot(DOMAIN acc.mappings, snapshot, n)
  BY DEF FromSnapshot, UnseenMapping, SnapshotIds
<1>5. all = CandidateSet(acc, n, S, snapshot)
  BY <1>3, <1>4 DEF CandidateSet
<1> QED
  BY <1>1, <1>5

-----------------------------------------------------------------------------
(* The candidates of a summary.                                              *)
LEMMA FromMotionsType ==
  ASSUME NEW f \in Maps(Token, Numbers), NEW S \in SUBSET DOMAIN f
  PROVE  /\ FromMotions(f, S) \in SUBSET CandidateRecords /\ IsFiniteSet(FromMotions(f, S))
         /\ IsFiniteSet(OftenIn(f, S)) /\ Cardinality(FromMotions(f, S)) = Cardinality(OftenIn(f, S))
         /\ \A c \in FromMotions(f, S) : c.kind = "repeated_motion" /\ c.subject \in OftenIn(f, S)
         /\ \A k \in OftenIn(f, S) : \E c \in FromMotions(f, S) : c.subject = k
<1>1. DOMAIN f \subseteq Token /\ \A k \in DOMAIN f : f[k][1] \in Nat
  BY MapType DEF Numbers
<1>2. OftenIn(f, S) \subseteq Token /\ OftenIn(f, S) \subseteq DOMAIN f /\ IsFiniteSet(OftenIn(f, S))
  <2>1. OftenIn(f, S) \subseteq DOMAIN f
    BY DEF OftenIn
  <2> QED
    BY <2>1, <1>1, TokensFinite
<1> DEFINE g == [k \in OftenIn(f, S) |-> RepeatedMotion(k, f[k][1])]
<1>3. OneToOne(g, OftenIn(f, S)) /\ FromMotions(f, S) = ImageOf(g, OftenIn(f, S))
  <2>1. \A k, n : RepeatedMotion(k, n).subject = k
    BY DEF RepeatedMotion
  <2>2. \A j, k \in OftenIn(f, S) : g[j] = g[k] => j = k
    BY <2>1
  <2>3. FromMotions(f, S) = ImageOf(g, OftenIn(f, S))
    BY DEF FromMotions, ImageOf
  <2> QED
    BY <2>2, <2>3 DEF OneToOne
<1> HIDE DEF g
<1>4. IsFiniteSet(FromMotions(f, S)) /\ Cardinality(FromMotions(f, S)) = Cardinality(OftenIn(f, S))
  BY <1>2, <1>3, ImageSize
<1>5. \A k \in OftenIn(f, S) : RepeatedMotion(k, f[k][1]) \in CandidateRecords
  BY <1>1, <1>2 DEF RepeatedMotion, CandidateRecords, CandidateKinds
<1>6. FromMotions(f, S) \subseteq CandidateRecords
  BY <1>5 DEF FromMotions
<1>7. \A k, n : RepeatedMotion(k, n).kind = "repeated_motion" /\ RepeatedMotion(k, n).subject = k
  BY DEF RepeatedMotion
<1>8. \A c \in FromMotions(f, S) : c.kind = "repeated_motion" /\ c.subject \in OftenIn(f, S)
  BY <1>7 DEF FromMotions
<1>9. ASSUME NEW k \in OftenIn(f, S)
      PROVE  \E c \in FromMotions(f, S) : c.subject = k
  <2>1. RepeatedMotion(k, f[k][1]) \in FromMotions(f, S)
    BY DEF FromMotions
  <2> QED
    BY <2>1, <1>7
<1> QED
  BY <1>2, <1>4, <1>6, <1>8, <1>9

(* The candidates that a snapshot gives. *)
LEMMA FromSnapshotType ==
  ASSUME NEW snapshot \in Snapshots, NEW used, NEW n \in Nat
  PROVE  /\ FromSnapshot(used, snapshot, n) \in SUBSET CandidateRecords
         /\ IsFiniteSet(FromSnapshot(used, snapshot, n))
         /\ \A c \in FromSnapshot(used, snapshot, n) :
              /\ c.kind = "current_mapping_unobserved_in_sample"
              /\ c.subject \in SnapshotIds(snapshot) \ used
         /\ SnapshotIds(snapshot) \subseteq Token
<1>1. SnapshotIds(snapshot) \subseteq Token
  BY SnapshotCases, MappingFields DEF SnapshotIds
<1>2. SnapshotIds(snapshot) \ used \in SUBSET Token /\ IsFiniteSet(SnapshotIds(snapshot) \ used)
  BY <1>1, TokensFinite
<1> DEFINE ids == SnapshotIds(snapshot) \ used
           g == [id \in ids |-> UnseenMapping(id, n)]
<1>3. \A id, m : /\ UnseenMapping(id, m).kind = "current_mapping_unobserved_in_sample"
                 /\ UnseenMapping(id, m).subject = id
  BY DEF UnseenMapping
<1>4. OneToOne(g, ids) /\ FromSnapshot(used, snapshot, n) = ImageOf(g, ids)
  <2>1. \A i, j \in ids : g[i] = g[j] => i = j
    BY <1>3
  <2>2. FromSnapshot(used, snapshot, n) = ImageOf(g, ids)
    BY DEF FromSnapshot, ImageOf
  <2> QED
    BY <2>1, <2>2 DEF OneToOne
<1>5. \A id \in ids : UnseenMapping(id, n) \in CandidateRecords
  BY <1>2 DEF UnseenMapping, CandidateRecords, CandidateKinds
<1>6. FromSnapshot(used, snapshot, n) \subseteq CandidateRecords
  BY <1>5 DEF FromSnapshot
<1>7. \A c \in FromSnapshot(used, snapshot, n) :
        c.kind = "current_mapping_unobserved_in_sample" /\ c.subject \in SnapshotIds(snapshot) \ used
  BY <1>3 DEF FromSnapshot
<1> HIDE DEF g
<1>8. IsFiniteSet(FromSnapshot(used, snapshot, n))
  BY <1>2, <1>4, ImageSize
<1> QED
  BY <1>1, <1>6, <1>7, <1>8

(* The motions come first: all that are shown often enough are candidates,   *)
(* and when they fill the list nothing else is.                              *)
MotionsOf(f) == RepeatShown(f, MaxCandidates, TRUE)

(* The candidates of which the list is the top. *)
LEMMA CandidateSetType ==
  ASSUME NEW acc, acc.repeated_motions \in Maps(Token, Numbers), NEW n \in Nat, NEW snapshot \in Snapshots,
         NEW S, S = CandidateSet(acc, n, MotionsOf(acc.repeated_motions), snapshot)
  PROVE  /\ S \in SUBSET CandidateRecords /\ IsFiniteSet(S) /\ Ordered(CandidateAhead(S), S)
         /\ \A c \in S : EnoughFor(acc, n)
         /\ \A c \in S : c.kind = "repeated_motion" => c \in FromMotions(acc.repeated_motions, MotionsOf(acc.repeated_motions))
         /\ \A c \in S : c.kind # "repeated_motion" =>
              /\ c.kind = "current_mapping_unobserved_in_sample"
              /\ c.subject \in SnapshotIds(snapshot) \ DOMAIN acc.mappings
         /\ EnoughFor(acc, n) => FromMotions(acc.repeated_motions, MotionsOf(acc.repeated_motions)) \subseteq S
<1> DEFINE f == acc.repeated_motions
           M == FromMotions(f, MotionsOf(f))
           U == FromSnapshot(DOMAIN acc.mappings, snapshot, n)
<1>1. MotionsOf(f) \in SUBSET DOMAIN f
  BY RepeatsShow, Limits DEF MotionsOf
<1>2. M \in SUBSET CandidateRecords /\ IsFiniteSet(M) /\ \A c \in M : c.kind = "repeated_motion"
  BY <1>1, FromMotionsType
<1>3. /\ U \in SUBSET CandidateRecords /\ IsFiniteSet(U)
      /\ \A c \in U : c.kind = "current_mapping_unobserved_in_sample"
                      /\ c.subject \in SnapshotIds(snapshot) \ DOMAIN acc.mappings
  BY FromSnapshotType
<1>4. S = (IF EnoughFor(acc, n) THEN M ELSE {}) \cup (IF EnoughFor(acc, n) /\ n >= MinObservations THEN U ELSE {})
  BY DEF CandidateSet
<1> HIDE DEF M, U
<1>5. S \subseteq M \cup U
  BY <1>4
<1>6. S \in SUBSET CandidateRecords
  BY <1>2, <1>3, <1>5
<1>7. IsFiniteSet(S)
  <2>1. IsFiniteSet(M \cup U)
    BY <1>2, <1>3, FS_Union
  <2> QED
    BY <2>1, <1>5, FS_Subset
<1>8. Ordered(CandidateAhead(S), S)
  BY <1>6, <1>7, CandidateOrdered
<1>9. \A c \in S : EnoughFor(acc, n)
  BY <1>4
<1>10. \A c \in S : c.kind = "repeated_motion" => c \in M
  BY <1>3, <1>5
<1>11. \A c \in S : c.kind # "repeated_motion" =>
         c.kind = "current_mapping_unobserved_in_sample" /\ c.subject \in SnapshotIds(snapshot) \ DOMAIN acc.mappings
  BY <1>2, <1>3, <1>5
<1>12. EnoughFor(acc, n) => M \subseteq S
  BY <1>4
<1> QED
  BY <1>6, <1>7, <1>8, <1>9, <1>10, <1>11, <1>12 DEF M

(* Repeated motions come first, and leave room for others only when the
   list is not full. *)
LEMMA MotionsFirst ==
  ASSUME NEW acc, acc.repeated_motions \in Maps(Token, Numbers), NEW n \in Nat, NEW snapshot \in Snapshots,
         NEW f, f = acc.repeated_motions, NEW S, S = CandidateSet(acc, n, MotionsOf(f), snapshot),
         EnoughFor(acc, n)
  PROVE  /\ FromMotions(f, MotionsOf(f)) \subseteq Top(CandidateAhead(S), MaxCandidates)
         /\ Cardinality(OftenIn(f, MotionsOf(f))) = MaxCandidates =>
              \A c \in Top(CandidateAhead(S), MaxCandidates) : c.kind = "repeated_motion"
<1> DEFINE M == FromMotions(f, MotionsOf(f))
           ahead == CandidateAhead(S)
<1>1. /\ S \in SUBSET CandidateRecords /\ IsFiniteSet(S) /\ Ordered(ahead, S) /\ M \subseteq S
      /\ \A c \in S : c.kind = "repeated_motion" => c \in M
      /\ \A c \in S : c.kind # "repeated_motion" => c.kind = "current_mapping_unobserved_in_sample"
  BY CandidateSetType
<1>2. MotionsOf(f) \in SUBSET DOMAIN f /\ IsFiniteSet(MotionsOf(f)) /\ Cardinality(MotionsOf(f)) <= MaxCandidates
  <2>1. MotionsOf(f) \in SUBSET DOMAIN f
    BY RepeatsShow, Limits DEF MotionsOf
  <2>2. Ordered(RepeatAhead(f, TRUE), DOMAIN f)
    BY RepeatOrdered
  <2>3. IsFiniteSet(Top(RepeatAhead(f, TRUE), MaxCandidates))
        /\ Cardinality(Top(RepeatAhead(f, TRUE), MaxCandidates)) <= MaxCandidates
    BY <2>2, TopSize, Limits
  <2> QED
    BY <2>1, <2>3 DEF MotionsOf, RepeatShown
<1>3. /\ IsFiniteSet(M) /\ Cardinality(M) = Cardinality(OftenIn(f, MotionsOf(f)))
      /\ \A c \in M : c.kind = "repeated_motion"
  BY <1>2, FromMotionsType
<1>4. Cardinality(OftenIn(f, MotionsOf(f))) <= Cardinality(MotionsOf(f)) /\ Cardinality(M) \in Nat
      /\ Cardinality(MotionsOf(f)) \in Nat
  <2>1. OftenIn(f, MotionsOf(f)) \subseteq MotionsOf(f)
    BY DEF OftenIn
  <2> QED
    BY <2>1, <1>2, <1>3, FS_Subset, FS_CardinalityType
<1>5. \A a, c \in S : a \in ahead[c] <=> CandidateLess(a, c)
  BY DEF CandidateAhead
<1> HIDE DEF M, ahead
<1>6. ASSUME NEW c \in M
      PROVE  c \in Top(ahead, MaxCandidates)
  <2>1. c \in S /\ c.kind = "repeated_motion" /\ ahead[c] \subseteq S /\ c \notin ahead[c]
    BY <1>1, <1>3 DEF Ordered
  <2>2. ahead[c] \subseteq M \ {c}
    <3> SUFFICES ASSUME NEW a \in ahead[c]
                 PROVE  a \in M /\ a # c
      OBVIOUS
    <3>1. a \in S /\ a # c /\ CandidateLess(a, c)
      BY <2>1, <1>5
    <3>2. a.kind = "repeated_motion"
      BY <3>1, <2>1, PriorityIs DEF CandidateLess
    <3> QED
      BY <3>1, <3>2, <1>1
  <2>3. IsFiniteSet(M \ {c}) /\ Cardinality(M \ {c}) = Cardinality(M) - 1
    BY <1>3, FS_RemoveElement
  <2>4. Cardinality(ahead[c]) <= Cardinality(M \ {c}) /\ Cardinality(ahead[c]) \in Nat
    BY <2>2, <2>3, FS_Subset, FS_CardinalityType
  <2>5. Cardinality(M) <= MaxCandidates
    BY <1>2, <1>3, <1>4, Limits
  <2>6. RankIn(ahead, c) < MaxCandidates
    BY <2>3, <2>4, <2>5, <1>4, Limits DEF RankIn
  <2> QED
    BY <2>1, <2>6, <1>1, TopMember, Limits
<1>7. ASSUME Cardinality(OftenIn(f, MotionsOf(f))) = MaxCandidates, NEW c \in Top(ahead, MaxCandidates),
             c.kind # "repeated_motion"
      PROVE  FALSE
  <2>1. c \in S /\ RankIn(ahead, c) < MaxCandidates
    BY <1>1, TopMember, Limits
  <2>2. c.kind = "current_mapping_unobserved_in_sample" /\ ahead[c] \subseteq S
    BY <1>1, <1>7, <2>1 DEF Ordered
  <2>3. M \subseteq ahead[c]
    <3> SUFFICES ASSUME NEW a \in M
                 PROVE  a \in ahead[c]
      OBVIOUS
    <3>1. a \in S /\ a.kind = "repeated_motion"
      BY <1>1, <1>3
    <3>2. CandidateLess(a, c)
      BY <3>1, <2>2, PriorityIs DEF CandidateLess
    <3> QED
      BY <3>1, <3>2, <2>1, <1>5
  <2>4. IsFiniteSet(ahead[c])
    BY <2>2, <1>1, FS_Subset
  <2>5. Cardinality(M) <= Cardinality(ahead[c]) /\ Cardinality(ahead[c]) \in Nat
    BY <2>3, <2>4, FS_Subset, FS_CardinalityType
  <2> QED
    BY <2>1, <2>5, <1>3, <1>4, <1>7, Limits DEF RankIn
<1> QED
  BY <1>6, <1>7 DEF M, ahead

-----------------------------------------------------------------------------
(* What was observed stays visible.                                          *)
OftenMoved(events) == {k \in Motions : Cardinality(RunsOfKey(events, k, 3)) >= MinObservations}

(* What is repeated often in the logs is what the tally counts often. *)
LEMMA OftenIs ==
  ASSUME NEW events \in Logs, NEW acc, FullyKnown(acc, events), NEW f, f = acc.repeated_motions
  PROVE  OftenMoved(events) = OftenIn(f, DOMAIN f)
<1>1. /\ DOMAIN f \subseteq Motions
      /\ \A k \in Motions : TalliedFor(f, Runs(events, 3), KeyAt(events), k)
  BY DEF FullyKnown, MotionsExact, MotionsTallied
<1>2. \A k \in Motions : PairOf(f, k) = <<Cardinality(RunsOfKey(events, k, 3)), PressesIn(RunsOfKey(events, k, 3))>>
  BY <1>1, RunsOfKeyIs DEF TalliedFor
<1>3. ASSUME NEW k \in Motions
      PROVE  k \in OftenMoved(events) <=> k \in OftenIn(f, DOMAIN f)
  <2> DEFINE c == Cardinality(RunsOfKey(events, k, 3))
             p == PressesIn(RunsOfKey(events, k, 3))
  <2>1. PairOf(f, k) = <<c, p>>
    BY <1>2
  <2>2. k \in OftenMoved(events) <=> c >= MinObservations
    BY DEF OftenMoved
  <2> HIDE DEF c, p
  <2>3. CASE k \in DOMAIN f
    <3>1. f[k] = <<c, p>>
      BY <2>1, <2>3 DEF PairOf
    <3>2. f[k][1] = c
      BY <3>1
    <3> QED
      BY <2>2, <2>3, <3>2 DEF OftenIn
  <2>4. CASE k \notin DOMAIN f
    <3>1. <<0, 0>> = <<c, p>>
      BY <2>1, <2>4 DEF PairOf
    <3>2. c = 0
      BY <3>1
    <3>3. ~(c >= MinObservations)
      BY <3>2, Limits
    <3> QED
      BY <2>2, <2>4, <3>3 DEF OftenIn
  <2> QED
    BY <2>3, <2>4
<1>4. OftenMoved(events) \subseteq Motions /\ OftenIn(f, DOMAIN f) \subseteq Motions
  BY <1>1 DEF OftenMoved, OftenIn
<1> QED
  BY <1>3, <1>4

(* A motion is only cut from the list by as many that are repeated as often. *)
LEMMA MotionCut ==
  ASSUME NEW f \in Maps(Token, Numbers), NEW k \in OftenIn(f, DOMAIN f), k \notin MotionsOf(f)
  PROVE  /\ OftenIn(f, MotionsOf(f)) = MotionsOf(f)
         /\ Cardinality(OftenIn(f, MotionsOf(f))) = MaxCandidates
<1>1. k \in DOMAIN f /\ f[k][1] >= MinObservations
  BY DEF OftenIn
<1>2. Ordered(RepeatAhead(f, TRUE), DOMAIN f)
  BY RepeatOrdered
<1>3. /\ Cardinality(MotionsOf(f)) = MaxCandidates /\ MotionsOf(f) \subseteq RepeatAhead(f, TRUE)[k]
  BY <1>1, <1>2, TopFull, Limits DEF MotionsOf, RepeatShown
<1>4. \A j \in DOMAIN f : f[j][1] \in Nat
  BY MapType DEF Numbers
<1>5. \A j \in RepeatAhead(f, TRUE)[k] : j \in DOMAIN f /\ (f[j][1] > f[k][1] \/ f[j][1] = f[k][1])
  BY <1>1 DEF RepeatAhead, RepeatLess
<1>6. \A j \in MotionsOf(f) : f[j][1] >= MinObservations
  <2> SUFFICES ASSUME NEW j \in MotionsOf(f) PROVE f[j][1] >= MinObservations
    OBVIOUS
  <2>1. j \in DOMAIN f /\ (f[j][1] > f[k][1] \/ f[j][1] = f[k][1])
    BY <1>3, <1>5
  <2>2. f[j][1] \in Nat /\ f[k][1] \in Nat /\ MinObservations \in Nat
    BY <2>1, <1>1, <1>4, Limits
  <2>3. PICK x \in Nat : x = f[j][1]
    BY <2>2
  <2>4. PICK y \in Nat : y = f[k][1]
    BY <2>2
  <2>5. (x > y \/ x = y) /\ y >= MinObservations
    BY <2>1, <2>3, <2>4, <1>1
  <2>6. x >= MinObservations
    BY <2>5, <2>2
  <2> QED
    BY <2>6, <2>3
<1>7. OftenIn(f, MotionsOf(f)) = MotionsOf(f)
  BY <1>6 DEF OftenIn
<1> QED
  BY <1>3, <1>7

NamedIn(list, kind) == {c.subject : c \in {d \in list : d.kind = kind}}

(* The candidates name the motions that are shown often enough. *)
LEMMA NamedMotions ==
  ASSUME NEW acc, acc.repeated_motions \in Maps(Token, Numbers), NEW n \in Nat, NEW snapshot \in Snapshots,
         NEW f, f = acc.repeated_motions, EnoughFor(acc, n), NEW list,
         list = Top(CandidateAhead(CandidateSet(acc, n, MotionsOf(f), snapshot)), MaxCandidates)
  PROVE  NamedIn(list, "repeated_motion") = OftenIn(f, MotionsOf(f))
<1> DEFINE S == CandidateSet(acc, n, MotionsOf(f), snapshot)
           M == FromMotions(f, MotionsOf(f))
<1>1. /\ Ordered(CandidateAhead(S), S)
      /\ \A c \in S : c.kind = "repeated_motion" => c \in M
  BY CandidateSetType
<1>2. M \subseteq list
  BY MotionsFirst
<1>3. list \subseteq S
  BY <1>1, TopMember, Limits
<1>4. MotionsOf(f) \in SUBSET DOMAIN f
  BY RepeatsShow, Limits DEF MotionsOf
<1>5. /\ \A c \in M : c.kind = "repeated_motion" /\ c.subject \in OftenIn(f, MotionsOf(f))
      /\ \A k \in OftenIn(f, MotionsOf(f)) : \E c \in M : c.subject = k
  BY <1>4, FromMotionsType
<1> HIDE DEF S, M
<1>6. ASSUME NEW k \in NamedIn(list, "repeated_motion")
      PROVE  k \in OftenIn(f, MotionsOf(f))
  <2>1. PICK c \in list : c.kind = "repeated_motion" /\ k = c.subject
    BY DEF NamedIn
  <2> QED
    BY <2>1, <1>1, <1>3, <1>5
<1>7. ASSUME NEW k \in OftenIn(f, MotionsOf(f))
      PROVE  k \in NamedIn(list, "repeated_motion")
  <2>1. PICK c \in M : c.subject = k
    BY <1>5
  <2>2. c \in list /\ c.kind = "repeated_motion"
    BY <1>2, <1>5
  <2> QED
    BY <2>1, <2>2 DEF NamedIn
<1> QED
  BY <1>6, <1>7

Unseen == "current_mapping_unobserved_in_sample"

(* The candidates call only mappings unseen that were not used. *)
LEMMA NamedUnseen ==
  ASSUME NEW acc, acc.repeated_motions \in Maps(Token, Numbers), NEW n \in Nat, NEW snapshot \in Snapshots,
         NEW f, f = acc.repeated_motions, NEW list,
         list = Top(CandidateAhead(CandidateSet(acc, n, MotionsOf(f), snapshot)), MaxCandidates)
  PROVE  /\ NamedIn(list, Unseen) \subseteq SnapshotIds(snapshot) \ DOMAIN acc.mappings
         /\ list # {} => EnoughFor(acc, n)
         /\ EnoughFor(acc, n) /\ Cardinality(OftenIn(f, MotionsOf(f))) = MaxCandidates =>
              NamedIn(list, Unseen) = {}
<1> DEFINE S == CandidateSet(acc, n, MotionsOf(f), snapshot)
<1>1. /\ Ordered(CandidateAhead(S), S) /\ \A c \in S : EnoughFor(acc, n)
      /\ \A c \in S : c.kind # "repeated_motion" =>
           c.kind = "current_mapping_unobserved_in_sample" /\ c.subject \in SnapshotIds(snapshot) \ DOMAIN acc.mappings
  BY CandidateSetType
<1>2. list \subseteq S
  BY <1>1, TopMember, Limits
<1>3. Unseen # "repeated_motion"
  BY DEF Unseen
<1> HIDE DEF S
<1>4. NamedIn(list, Unseen) \subseteq SnapshotIds(snapshot) \ DOMAIN acc.mappings
  BY <1>1, <1>2, <1>3 DEF NamedIn
<1>5. list # {} => EnoughFor(acc, n)
  BY <1>1, <1>2
<1>6. ASSUME EnoughFor(acc, n), Cardinality(OftenIn(f, MotionsOf(f))) = MaxCandidates
      PROVE  NamedIn(list, Unseen) = {}
  <2>1. \A c \in list : c.kind = "repeated_motion"
    BY <1>6, MotionsFirst
  <2> QED
    BY <2>1, <1>3 DEF NamedIn
<1> QED
  BY <1>4, <1>5, <1>6

(* By the invariant what was observed comes first. *)
LEMMA ObservedHolds ==
  ASSUME CInv
  PROVE  ObservedFirst
<1> DEFINE enough == /\ Cardinality(Of(All, "session_start")) >= MinSessions
                     /\ Cardinality(Keyed(All)) >= MinSequenceKeys
           often == OftenMoved(All)
           list == summary.candidates
           f == state.acc.repeated_motions
<1> SUFFICES ASSUME outcome = "ok"
             PROVE  /\ enough /\ ~(often \subseteq NamedIn(list, "repeated_motion")) => NamedIn(list, Unseen) = {}
                    /\ enough /\ Cardinality(often) <= MaxCandidates => often = NamedIn(list, "repeated_motion")
                    /\ NamedIn(list, Unseen) \subseteq SnapshotIds(keymap.snapshot) \ UsedIds(All)
                    /\ list # {} => enough
  BY DEF ObservedFirst, OftenMoved, NamedIn, Unseen
<1>1. Finished
  BY WhenFinished
<1>2. FullyKnown(state.acc, All) /\ All \in Logs
  BY <1>1, FinishedKnown
<1>3. text \in [Inodes -> Logs] /\ read \in Seq(Inodes)
  BY DEF CInv, IInv, TypeOK, Analysis, GivenTypes
<1>4. summary.sessions = Cardinality(Of(All, "session_start"))
  BY <1>1, <1>3, SessionsExact, TypingIsExact DEF TypingExact
<1>5. Cardinality(Of(All, "session_start")) \in Nat
  BY <1>2, OfFinite, FS_CardinalityType
<1>6. /\ f \in Maps(Token, Numbers) /\ state.acc.sequence_keys = Cardinality(Keyed(All))
      /\ DOMAIN state.acc.mappings = UsedIds(All)
  BY <1>2, KnownTypes DEF FullyKnown
<1>7. keymap.snapshot \in Snapshots
  BY <1>1 DEF Finished
<1>8. list = Candidates(state.acc, summary.sessions, RankedRepeats(f, MaxCandidates, TRUE), keymap.snapshot)
  <2>1. /\ summary.candidates = Candidates(state.acc, summary.sessions, summary.repeated_motions, keymap.snapshot)
        /\ summary.repeated_motions = RankedRepeats(f, MaxCandidates, TRUE)
    BY <1>1, SummaryFields DEF Listed
  <2> QED
    BY <2>1
<1>9. list = Top(CandidateAhead(CandidateSet(state.acc, summary.sessions, MotionsOf(f), keymap.snapshot)), MaxCandidates)
  BY <1>6, <1>8, CandidatesCollected DEF MotionsOf
<1>10. enough <=> EnoughFor(state.acc, summary.sessions)
  BY <1>4, <1>6 DEF EnoughFor
<1>11. often = OftenIn(f, DOMAIN f)
  BY <1>2, OftenIs
<1>12. summary.sessions \in Nat
  BY <1>4, <1>5
<1>13. enough => NamedIn(list, "repeated_motion") = OftenIn(f, MotionsOf(f))
  BY <1>6, <1>7, <1>9, <1>10, <1>12, NamedMotions
<1>14. /\ NamedIn(list, Unseen) \subseteq SnapshotIds(keymap.snapshot) \ DOMAIN state.acc.mappings
       /\ list # {} => EnoughFor(state.acc, summary.sessions)
       /\ EnoughFor(state.acc, summary.sessions) /\ Cardinality(OftenIn(f, MotionsOf(f))) = MaxCandidates =>
            NamedIn(list, Unseen) = {}
  BY <1>6, <1>7, <1>9, <1>12, NamedUnseen
<1>15. MotionsOf(f) \subseteq DOMAIN f
  BY <1>6, RepeatsShow, Limits DEF MotionsOf
<1> HIDE DEF enough, often, list, f
<1>16. OftenIn(f, MotionsOf(f)) \subseteq often /\ \A k \in often : k \in MotionsOf(f) => k \in OftenIn(f, MotionsOf(f))
  BY <1>11, <1>15 DEF OftenIn
<1>17. ASSUME NEW k \in often, k \notin OftenIn(f, MotionsOf(f))
       PROVE  /\ Cardinality(OftenIn(f, MotionsOf(f))) = MaxCandidates
              /\ ~(Cardinality(often) <= MaxCandidates)
  <2>1. k \in OftenIn(f, DOMAIN f) /\ k \notin MotionsOf(f)
    BY <1>11, <1>16, <1>17
  <2>2. Cardinality(OftenIn(f, MotionsOf(f))) = MaxCandidates
    BY <2>1, <1>6, MotionCut
  <2>3. IsFiniteSet(OftenIn(f, MotionsOf(f))) /\ IsFiniteSet(often)
    <3>1. IsFiniteSet(often)
      BY <1>6, <1>11, FromMotionsType
    <3> QED
      BY <3>1, <1>16, FS_Subset
  <2>4. Cardinality(OftenIn(f, MotionsOf(f)) \cup {k}) = MaxCandidates + 1
        /\ OftenIn(f, MotionsOf(f)) \cup {k} \subseteq often
    BY <2>2, <2>3, <1>16, <1>17, FS_AddElement
  <2>5. Cardinality(OftenIn(f, MotionsOf(f)) \cup {k}) <= Cardinality(often) /\ Cardinality(often) \in Nat
    BY <2>3, <2>4, FS_Subset, FS_CardinalityType
  <2> QED
    BY <2>2, <2>4, <2>5, Limits
<1>18. ASSUME enough, ~(often \subseteq NamedIn(list, "repeated_motion"))
       PROVE  NamedIn(list, Unseen) = {}
  <2>1. PICK k \in often : k \notin OftenIn(f, MotionsOf(f))
    BY <1>13, <1>18
  <2> QED
    BY <2>1, <1>10, <1>14, <1>17, <1>18
<1>19. ASSUME enough, Cardinality(often) <= MaxCandidates
       PROVE  often = NamedIn(list, "repeated_motion")
  <2>1. often \subseteq OftenIn(f, MotionsOf(f))
    BY <1>17, <1>19
  <2> QED
    BY <2>1, <1>13, <1>16, <1>19
<1> QED
  BY <1>6, <1>10, <1>14, <1>18, <1>19

(* What the sample shows stays visible, whatever the logs, the snapshot and  *)
(* the limits are (ObservedFirst).                                           *)
THEOREM ObservedComesFirst == Spec => []ObservedFirst
<1>1. CInv => ObservedFirst
  BY ObservedHolds
<1> QED
  BY <1>1, CommandInvariant, PTL

-----------------------------------------------------------------------------
(* The lists of a published summary are within their limits.                 *)
Short(list, limit) == IsFiniteSet(list) /\ Cardinality(list) \in Nat /\ Cardinality(list) <= limit

(* An image has no more elements than what it is an image of. *)
LEMMA ImageShort ==
  ASSUME NEW S, NEW n \in Nat, Short(S, n), NEW f, DOMAIN f = S, NEW T, T = ImageOf(f, S)
  PROVE  Short(T, n)
<1> DEFINE g == [x \in S |-> f[x]]
<1>1. g \in [S -> T] /\ \A x \in S : g[x] = f[x]
  BY DEF ImageOf
<1>2. \A t \in T : \E x \in S : g[x] = t
  BY DEF ImageOf
<1> HIDE DEF g
<1>3. g \in Surjection(S, T)
  BY <1>1, <1>2 DEF Surjection
<1>4. IsFiniteSet(S) /\ Cardinality(S) \in Nat /\ Cardinality(S) <= n
  BY DEF Short
<1>5. IsFiniteSet(T) /\ Cardinality(T) <= Cardinality(S)
  BY <1>3, <1>4, FS_Surjection
<1>6. Cardinality(T) \in Nat
  BY <1>5, FS_CardinalityType
<1>7. Cardinality(T) <= n
  BY <1>4, <1>5, <1>6
<1> QED
  BY <1>5, <1>6, <1>7 DEF Short

(* A list is no longer than its limit. *)
LEMMA TopShort ==
  ASSUME NEW D, NEW ahead, Ordered(ahead, D), NEW limit \in Nat
  PROVE  Short(Top(ahead, limit), limit) /\ Top(ahead, limit) \subseteq D
BY TopSize, TopMember DEF Short

(* A ranked list is within its limit. *)
LEMMA RankedShort ==
  ASSUME NEW f \in Maps(Token, Nat)
  PROVE  Short(Ranked(f), MaxRankedItems) /\ \A k \in Ranked(f) : k.key \in DOMAIN f
<1> DEFINE S == Top(CountAhead(f), MaxRankedItems)
           g == [k \in S |-> [key |-> k, count |-> f[k]]]
<1>1. Short(S, MaxRankedItems) /\ MaxRankedItems \in Nat
  BY CountOrdered, TopShort, Limits
<1>2. Ranked(f) = {[key |-> k, count |-> f[k]] : k \in S}
  BY RankedIs
<1>3. Ranked(f) = ImageOf(g, S) /\ DOMAIN g = S
  BY <1>2 DEF ImageOf
<1> HIDE DEF S, g
<1>4. Short(Ranked(f), MaxRankedItems)
  BY <1>1, <1>3, ImageShort
<1> QED
  BY <1>4, RankedShows

(* The list of control keys is within its limit. *)
LEMMA RankedControlShort ==
  ASSUME NEW f \in Maps(TextModes \X Token, Nat)
  PROVE  Short(RankedControlKeys(f), MaxRankedItems) /\ \A k \in RankedControlKeys(f) : k.mode \in TextModes
<1> DEFINE S == Top(ControlAhead(f), MaxRankedItems)
           g == [k \in S |-> [mode |-> k[1], key |-> k[2], count |-> f[k]]]
<1>1. Short(S, MaxRankedItems) /\ S \subseteq DOMAIN f /\ MaxRankedItems \in Nat
  BY ControlOrdered, TopShort, Limits
<1>2. RankedControlKeys(f) = {[mode |-> k[1], key |-> k[2], count |-> f[k]] : k \in S}
  BY RankedControlIs
<1>3. RankedControlKeys(f) = ImageOf(g, S) /\ DOMAIN g = S
  BY <1>2 DEF ImageOf
<1>4. S \subseteq TextModes \X Token
  BY <1>1, MapType
<1>5. \A k \in RankedControlKeys(f) : k.mode \in TextModes
  BY <1>2, <1>4
<1> HIDE DEF S, g
<1>6. Short(RankedControlKeys(f), MaxRankedItems)
  BY <1>1, <1>3, ImageShort
<1> QED
  BY <1>5, <1>6

(* A list of repetitions is within its limit. *)
LEMMA RankedRepeatsShort ==
  ASSUME NEW f \in Maps(Token, Numbers), NEW limit \in Nat, NEW byPresses \in BOOLEAN
  PROVE  /\ Short(RankedRepeats(f, limit, byPresses), limit)
         /\ \A k \in RankedRepeats(f, limit, byPresses) : k.key \in DOMAIN f
<1> DEFINE S == Top(RepeatAhead(f, byPresses), limit)
           g == [k \in S |-> [key |-> k, runs |-> f[k][1], presses |-> f[k][2]]]
<1>1. Short(S, limit) /\ S \subseteq DOMAIN f
  BY RepeatOrdered, TopShort
<1>2. RankedRepeats(f, limit, byPresses) = {[key |-> k, runs |-> f[k][1], presses |-> f[k][2]] : k \in S}
  BY RankedRepeatsIs
<1>3. RankedRepeats(f, limit, byPresses) = ImageOf(g, S) /\ DOMAIN g = S
  BY <1>2 DEF ImageOf
<1>4. \A k \in RankedRepeats(f, limit, byPresses) : k.key \in DOMAIN f
  BY <1>1, <1>2
<1> HIDE DEF S, g
<1>5. Short(RankedRepeats(f, limit, byPresses), limit)
  BY <1>1, <1>3, ImageShort
<1> QED
  BY <1>4, <1>5

(* The candidates of a summary, and what they name. *)
CandidateRight(c, snapshot) ==
  /\ c.kind \in CandidateKinds
  /\ c.kind = "repeated_motion" => c.subject \in Motions
  /\ c.kind = "current_mapping_unobserved_in_sample" => c.subject \in SnapshotIds(snapshot)

(* The candidates are within their limit, and name motions or mappings of
   the snapshot. *)
LEMMA CandidatesRight ==
  ASSUME NEW acc, acc.repeated_motions \in Maps(Token, Numbers), DOMAIN acc.repeated_motions \subseteq Motions,
         NEW n \in Nat, NEW snapshot \in Snapshots, NEW motions,
         motions = RankedRepeats(acc.repeated_motions, MaxCandidates, TRUE),
         NEW list, list = Candidates(acc, n, motions, snapshot)
  PROVE  Short(list, MaxCandidates) /\ \A c \in list : CandidateRight(c, snapshot)
<1> DEFINE f == acc.repeated_motions
           S == CandidateSet(acc, n, MotionsOf(f), snapshot)
<1>1. list = Top(CandidateAhead(S), MaxCandidates)
  BY CandidatesCollected DEF MotionsOf
<1>2. /\ S \in SUBSET CandidateRecords /\ Ordered(CandidateAhead(S), S)
      /\ \A c \in S : c.kind = "repeated_motion" => c \in FromMotions(f, MotionsOf(f))
      /\ \A c \in S : c.kind # "repeated_motion" => c.subject \in SnapshotIds(snapshot) \ DOMAIN acc.mappings
  BY CandidateSetType
<1> HIDE DEF S
<1>3. Short(list, MaxCandidates) /\ list \subseteq S
  <2>1. Ordered(CandidateAhead(S), S) /\ MaxCandidates \in Nat
    BY <1>2, Limits
  <2>2. Short(Top(CandidateAhead(S), MaxCandidates), MaxCandidates) /\ Top(CandidateAhead(S), MaxCandidates) \subseteq S
    BY <2>1, TopShort
  <2> QED
    BY <1>1, <2>2
<1>4. MotionsOf(f) \in SUBSET DOMAIN f
  BY RepeatsShow, Limits DEF MotionsOf
<1>5. \A c \in FromMotions(f, MotionsOf(f)) : c.subject \in OftenIn(f, MotionsOf(f))
  BY <1>4, FromMotionsType
<1>6. OftenIn(f, MotionsOf(f)) \subseteq Motions
  BY <1>4 DEF OftenIn
<1>7. ASSUME NEW c \in list
      PROVE  CandidateRight(c, snapshot)
  <2>1. c \in S /\ c.kind \in CandidateKinds
    BY <1>2, <1>3 DEF CandidateRecords
  <2>2. c.kind = "repeated_motion" => c.subject \in Motions
    BY <2>1, <1>2, <1>5, <1>6
  <2>3. c.kind # "repeated_motion" => c.subject \in SnapshotIds(snapshot)
    BY <2>1, <1>2
  <2> QED
    BY <2>1, <2>2, <2>3 DEF CandidateRight
<1> QED
  BY <1>3, <1>7

-----------------------------------------------------------------------------
(* The attribution of a published summary is what a payload asks for.        *)
Positive(counts) == \A id \in DOMAIN counts : counts[id] \in Nat /\ counts[id] > 0
EntryIds(snapshot, counts) == {e.mapping_id : e \in Entries(snapshot, counts)}

(* The IDs of the entries. *)
LEMMA EntryIdsAre ==
  ASSUME NEW snapshot, NEW counts
  PROVE  EntryIds(snapshot, counts) = SnapshotIds(snapshot) \cup UnknownIds(snapshot, counts)
<1>1. ASSUME NEW e \in Entries(snapshot, counts)
      PROVE  e.mapping_id \in SnapshotIds(snapshot) \cup UnknownIds(snapshot, counts)
  <2>1. CASE IsAttributed(e, snapshot, counts)
    <3>1. PICK m \in ToSet(snapshot.mappings) : e = AttributedOf(snapshot, counts, m)
      BY <2>1 DEF IsAttributed
    <3>2. e.mapping_id = m.mapping_id
      BY <3>1, AttributedFields
    <3> QED
      BY <3>2 DEF SnapshotIds
  <2>2. CASE IsUnknown(e, snapshot, counts)
    <3>1. PICK id \in UnknownIds(snapshot, counts) : e = UnknownOf(counts, id)
      BY <2>2 DEF IsUnknown
    <3>2. e.mapping_id = id
      BY <3>1, UnknownFields
    <3> QED
      BY <3>2
  <2> QED
    BY <2>1, <2>2, EntryCases
<1>2. ASSUME NEW id \in SnapshotIds(snapshot)
      PROVE  id \in EntryIds(snapshot, counts)
  <2>1. PICK m \in ToSet(snapshot.mappings) : id = m.mapping_id
    BY DEF SnapshotIds
  <2>2. PICK e : e = AttributedOf(snapshot, counts, m)
    OBVIOUS
  <2>3. e \in Entries(snapshot, counts) /\ e.mapping_id = id
    BY <2>1, <2>2, EntryCases, AttributedFields
  <2> QED
    BY <2>3 DEF EntryIds
<1>3. ASSUME NEW id \in UnknownIds(snapshot, counts)
      PROVE  id \in EntryIds(snapshot, counts)
  <2>1. PICK e : e = UnknownOf(counts, id)
    OBVIOUS
  <2>2. e \in Entries(snapshot, counts) /\ e.mapping_id = id
    BY <2>1, EntryCases, UnknownFields
  <2> QED
    BY <2>2 DEF EntryIds
<1>4. EntryIds(snapshot, counts) \subseteq SnapshotIds(snapshot) \cup UnknownIds(snapshot, counts)
  BY <1>1 DEF EntryIds
<1> QED
  BY <1>2, <1>3, <1>4

(* Each entry has its own ID. *)
LEMMA EntriesDiffer ==
  ASSUME NEW snapshot \in Snapshots, ValidSnapshot(snapshot), Hashed(snapshot), NEW counts,
         NEW d \in Entries(snapshot, counts), NEW e \in Entries(snapshot, counts), d.mapping_id = e.mapping_id
  PROVE  d = e
<1>1. ASSUME NEW x \in Entries(snapshot, counts), IsAttributed(x, snapshot, counts)
      PROVE  x.mapping_id \in SnapshotIds(snapshot) /\
             \E m \in ToSet(snapshot.mappings) : x = AttributedOf(snapshot, counts, m) /\ m.mapping_id = x.mapping_id
  <2>1. PICK m \in ToSet(snapshot.mappings) : x = AttributedOf(snapshot, counts, m)
    BY <1>1 DEF IsAttributed
  <2>2. x.mapping_id = m.mapping_id
    BY <2>1, AttributedFields
  <2> QED
    BY <2>1, <2>2 DEF SnapshotIds
<1>2. ASSUME NEW x \in Entries(snapshot, counts), IsUnknown(x, snapshot, counts)
      PROVE  x.mapping_id \notin SnapshotIds(snapshot) /\ x = UnknownOf(counts, x.mapping_id)
  <2>1. PICK id \in UnknownIds(snapshot, counts) : x = UnknownOf(counts, id)
    BY <1>2 DEF IsUnknown
  <2>2. x.mapping_id = id
    BY <2>1, UnknownFields
  <2>3. id \notin SnapshotIds(snapshot)
    BY DEF UnknownIds
  <2> QED
    BY <2>1, <2>2, <2>3
<1>3. CASE IsAttributed(d, snapshot, counts) /\ IsAttributed(e, snapshot, counts)
  <2>1. PICK m \in ToSet(snapshot.mappings) : d = AttributedOf(snapshot, counts, m) /\ m.mapping_id = d.mapping_id
    BY <1>1, <1>3
  <2>2. PICK n \in ToSet(snapshot.mappings) : e = AttributedOf(snapshot, counts, n) /\ n.mapping_id = e.mapping_id
    BY <1>1, <1>3
  <2>3. m = n
    BY <2>1, <2>2, SnapshotIdsDiffer
  <2> QED
    BY <2>1, <2>2, <2>3
<1>4. CASE IsUnknown(d, snapshot, counts) /\ IsUnknown(e, snapshot, counts)
  BY <1>2, <1>4
<1> QED
  BY <1>1, <1>2, <1>3, <1>4, EntryCases

(* As many entries as mappings of the snapshot and used IDs that it lacks.   *)
LEMMA EntriesCounted ==
  ASSUME NEW snapshot \in Snapshots, ValidSnapshot(snapshot), Hashed(snapshot),
         NEW counts \in Maps(Token, Nat), Cardinality(DOMAIN counts) <= MaxDistinctItems
  PROVE  /\ IsFiniteSet(Entries(snapshot, counts))
         /\ Cardinality(EntryIds(snapshot, counts)) = Cardinality(Entries(snapshot, counts))
         /\ Cardinality(Entries(snapshot, counts)) \in Nat
         /\ Cardinality(Entries(snapshot, counts)) >= Len(snapshot.mappings)
         /\ Cardinality(Entries(snapshot, counts)) <= MaxSnapshotMappings + MaxDistinctItems
<1> DEFINE ids == EntryIds(snapshot, counts)
           es == Entries(snapshot, counts)
           g == [id \in ids |-> CHOOSE e \in es : e.mapping_id = id]
           ms == snapshot.mappings
<1>1. \A id \in ids : g[id] \in es /\ g[id].mapping_id = id
  BY DEF EntryIds
<1>2. OneToOne(g, ids)
  <2>1. DOMAIN g = ids
    OBVIOUS
  <2> HIDE DEF g
  <2> QED
    BY <1>1, <2>1 DEF OneToOne
<1>3. es = ImageOf(g, ids)
  <2>1. \A e \in es : e.mapping_id \in ids
    BY DEF EntryIds
  <2> HIDE DEF g
  <2>2. ASSUME NEW e \in es
        PROVE  e \in ImageOf(g, ids)
    <3>1. e.mapping_id \in ids
      BY <2>1
    <3>2. g[e.mapping_id] \in es /\ g[e.mapping_id].mapping_id = e.mapping_id
      BY <3>1, <1>1
    <3>3. g[e.mapping_id] = e
      BY <3>2, EntriesDiffer
    <3> QED
      BY <3>1, <3>3 DEF ImageOf
  <2>3. ImageOf(g, ids) \subseteq es
    BY <1>1 DEF ImageOf
  <2> QED
    BY <2>2, <2>3
<1>4. /\ Len(ms) \in Nat /\ IsFiniteSet(SnapshotIds(snapshot)) /\ Cardinality(SnapshotIds(snapshot)) = Len(ms)
  <2>1. /\ DOMAIN ms = 1..Len(ms) /\ Len(ms) \in Nat /\ DOMAIN IdAt(ms) = DOMAIN ms
        /\ \A i, j \in 1..Len(ms) : IdAt(ms)[i] = IdAt(ms)[j] => i = j
        /\ SnapshotIds(snapshot) = ImageOf(IdAt(ms), 1..Len(ms))
    BY IdsAtDiffer
  <2>2. OneToOne(IdAt(ms), 1..Len(ms))
    BY <2>1 DEF OneToOne
  <2>3. IsFiniteSet(1..Len(ms)) /\ Cardinality(1..Len(ms)) = Len(ms)
    BY <2>1, UpTo
  <2> QED
    BY <2>1, <2>2, <2>3, ImageSize
<1>5. IsFiniteSet(DOMAIN counts) /\ Cardinality(DOMAIN counts) \in Nat
  <2>1. Ordered(CountAhead(counts), DOMAIN counts)
    BY CountOrdered
  <2>2. IsFiniteSet(DOMAIN counts)
    BY <2>1 DEF Ordered
  <2> QED
    BY <2>2, FS_CardinalityType
<1>6. UnknownIds(snapshot, counts) \in SUBSET DOMAIN counts
  BY DEF UnknownIds
<1>7. /\ IsFiniteSet(UnknownIds(snapshot, counts))
      /\ Cardinality(UnknownIds(snapshot, counts)) <= Cardinality(DOMAIN counts)
  BY <1>5, <1>6, FS_Subset
<1>8. Cardinality(UnknownIds(snapshot, counts)) \in Nat
  BY <1>7, FS_CardinalityType
<1>9. SnapshotIds(snapshot) \cap UnknownIds(snapshot, counts) = {}
  BY DEF UnknownIds
<1>10. ids = SnapshotIds(snapshot) \cup UnknownIds(snapshot, counts)
  BY EntryIdsAre
<1> HIDE DEF ids, g, es
<1>11. /\ IsFiniteSet(ids)
       /\ Cardinality(ids) = Cardinality(SnapshotIds(snapshot)) + Cardinality(UnknownIds(snapshot, counts))
                               - Cardinality(SnapshotIds(snapshot) \cap UnknownIds(snapshot, counts))
  BY <1>4, <1>7, <1>10, FS_Union
<1>12. Cardinality(SnapshotIds(snapshot) \cap UnknownIds(snapshot, counts)) = 0
  BY <1>9, FS_EmptySet
<1>13. Cardinality(ids) = Len(ms) + Cardinality(UnknownIds(snapshot, counts))
  BY <1>4, <1>8, <1>11, <1>12
<1>14. IsFiniteSet(es) /\ Cardinality(es) = Cardinality(ids)
  BY <1>2, <1>3, <1>11, ImageSize
<1>15. Len(ms) <= MaxSnapshotMappings /\ MaxSnapshotMappings \in Nat /\ MaxDistinctItems \in Nat
  BY ContractConstants, Limits DEF ValidSnapshot
<1>16. /\ Cardinality(es) \in Nat /\ Cardinality(es) >= Len(ms)
       /\ Cardinality(es) <= MaxSnapshotMappings + MaxDistinctItems
  BY <1>4, <1>5, <1>7, <1>8, <1>13, <1>14, <1>15
<1> QED
  BY <1>14, <1>16 DEF ids, es

-----------------------------------------------------------------------------
(* A buffer mapping shadows one global mapping at most. *)
LEMMA ShadowingShort ==
  ASSUME NEW snapshot \in Snapshots, ValidSnapshot(snapshot), Hashed(snapshot)
  PROVE  Cardinality(Shadowing(snapshot)) <= MaxSnapshotMappings
<1> DEFINE ms == snapshot.mappings
           S == Shadowing(snapshot)
           h == [p \in S |-> p[1]]
<1>1. ASSUME NEW p \in S, NEW q \in S, p[1] = q[1]
      PROVE  p = q
  <2>1. /\ p \in ToSet(ms) \X ToSet(ms) /\ q \in ToSet(ms) \X ToSet(ms)
        /\ p[2].scope = "buffer" /\ q[2].scope = "buffer"
        /\ p[2].mode = p[1].mode /\ q[2].mode = q[1].mode
        /\ p[2].lhs = p[1].lhs /\ q[2].lhs = q[1].lhs
    BY DEF Shadowing
  <2>2. PICK m \in ToSet(ms) : m = p[2]
    BY <2>1
  <2>3. PICK n \in ToSet(ms) : n = q[2]
    BY <2>1
  <2>4. m.mode = n.mode /\ m.scope = n.scope /\ m.lhs = n.lhs
    BY <1>1, <2>1, <2>2, <2>3
  <2>5. ValidMapping(m) /\ ValidMapping(n)
    <3>1. \A i \in DOMAIN ms : ValidMapping(ms[i])
      BY DEF ValidSnapshot
    <3>2. \A x \in ToSet(ms) : \E i \in DOMAIN ms : ms[i] = x
      BY DEF ToSet
    <3> QED
      BY <3>1, <3>2
  <2>6. m.mapping_id = n.mapping_id
    BY <2>4, <2>5 DEF ValidMapping
  <2>7. m = n
    BY <2>6, SnapshotIdsDiffer
  <2>8. p = <<p[1], p[2]>> /\ q = <<q[1], q[2]>>
    BY <2>1
  <2>9. p[2] = q[2]
    BY <2>2, <2>3, <2>7
  <2> QED
    BY <1>1, <2>8, <2>9
<1>2. S \subseteq ToSet(ms) \X ToSet(ms)
  BY DEF Shadowing
<1>3. h \in [S -> ToSet(ms)] /\ \A p \in S : h[p] = p[1]
  BY <1>2
<1> HIDE DEF h, S
<1>4. h \in Injection(S, ToSet(ms))
  BY <1>1, <1>3 DEF Injection, IsInjective
<1>5. /\ IsFiniteSet(ToSet(ms)) /\ Cardinality(ToSet(ms)) = Len(ms) /\ Len(ms) \in Nat
  BY SnapshotCases, ValidIsInOrder, InOrderSequence
<1>6. IsFiniteSet(S) /\ Cardinality(S) <= Len(ms)
  BY <1>4, <1>5, FS_Injection
<1>7. Cardinality(S) \in Nat
  BY <1>6, FS_CardinalityType
<1>8. Len(ms) <= MaxSnapshotMappings /\ MaxSnapshotMappings \in Nat
  BY ContractConstants DEF ValidSnapshot
<1>9. Cardinality(S) <= MaxSnapshotMappings
  BY <1>5, <1>6, <1>7, <1>8
<1> QED
  BY <1>9 DEF S

(* What may leave: the tokens of the snapshot, and the IDs in use. *)
LhsMayLeave(snapshot) == \A m \in ToSet(snapshot.mappings) : \A token \in ToSet(m.lhs) : ValidToken(token)

(* Colliding IDs are in the snapshot. *)
LEMMA CollidingKnown ==
  ASSUME NEW snapshot, NEW m
  PROVE  CollidingIds(snapshot, m) \subseteq SnapshotIds(snapshot)
<1>1. \A p \in Shadowing(snapshot) : p[1] \in ToSet(snapshot.mappings) /\ p[2] \in ToSet(snapshot.mappings)
  BY DEF Shadowing
<1> QED
  BY <1>1 DEF CollidingIds, SnapshotIds

(* The IDs of a valid snapshot are valid. *)
LEMMA SnapshotIdsValid ==
  ASSUME NEW snapshot \in Snapshots, ValidSnapshot(snapshot), Hashed(snapshot)
  PROVE  SnapshotIds(snapshot) \subseteq MappingIds
<1>1. \A i \in DOMAIN snapshot.mappings : ValidMapping(snapshot.mappings[i])
  BY DEF ValidSnapshot
<1>2. \A x \in ToSet(snapshot.mappings) : \E i \in DOMAIN snapshot.mappings : snapshot.mappings[i] = x
  BY DEF ToSet
<1>3. ASSUME NEW m \in ToSet(snapshot.mappings)
      PROVE  m.mapping_id \in MappingIds
  <2>1. ValidMapping(m)
    BY <1>1, <1>2
  <2>2. m.mapping_id = IdOf(m.mode, m.scope, m.lhs)
    BY <2>1 DEF ValidMapping
  <2>3. IdOf(m.mode, m.scope, m.lhs) \in MappingIds
    BY DEF Hashed
  <2> QED
    BY <2>2, <2>3
<1> QED
  BY <1>3 DEF SnapshotIds

(* The entry of a mapping is valid when its tokens may leave. *)
LEMMA AttributedValid ==
  ASSUME NEW snapshot \in Snapshots, ValidSnapshot(snapshot), Hashed(snapshot), LhsMayLeave(snapshot),
         NEW counts \in Maps(Token, Nat), NEW m \in ToSet(snapshot.mappings),
         NEW e, e = AttributedOf(snapshot, counts, m)
  PROVE  ValidEntry(e, snapshot)
<1> DEFINE same == {s \in ToSet(snapshot.mappings) : s.mapping_id = e.mapping_id}
           agrees == \A s \in same : <<s.mode, s.scope, s.lhs>> = <<e.mode, e.scope, e.lhs>>
<1>1. /\ e.mapping_id = m.mapping_id /\ e.count = CountOf(counts, m.mapping_id)
      /\ e.status = IF CountOf(counts, m.mapping_id) > 0 THEN "observed" ELSE "unobserved_in_sample"
      /\ e.mode = m.mode /\ e.scope = m.scope /\ e.lhs = m.lhs
      /\ e.collisions = CollidingIds(snapshot, m)
  BY AttributedFields
<1>2. m \in same
  BY <1>1
<1>3. \A s \in same : s = m
  BY <1>1, SnapshotIdsDiffer
<1>4. agrees
  BY <1>1, <1>3
<1>5. e.mapping_id \in SnapshotIds(snapshot)
  BY <1>1 DEF SnapshotIds
<1>6. ValidMappingId(e.mapping_id)
  BY <1>5, SnapshotIdsValid DEF ValidMappingId
<1>7. \A token \in ToSet(e.lhs) : ValidToken(token)
  BY <1>1 DEF LhsMayLeave
<1>8. e.collisions \subseteq SnapshotIds(snapshot)
  BY <1>1, CollidingKnown
<1>9. CountOf(counts, m.mapping_id) \in Nat
  BY MapType DEF CountOf
<1>10. \/ e.status = "observed" /\ e.count > 0
       \/ e.status = "unobserved_in_sample" /\ e.count = 0
  BY <1>1, <1>9
<1>11. same # {}
  BY <1>2
<1> QED
  BY <1>4, <1>6, <1>7, <1>8, <1>10, <1>11 DEF ValidEntry

(* The entry of another ID is valid when the ID is. *)
LEMMA UnknownValid ==
  ASSUME NEW snapshot \in Snapshots, NEW counts, Positive(counts), DOMAIN counts \subseteq MappingIds,
         NEW id \in UnknownIds(snapshot, counts), NEW e, e = UnknownOf(counts, id)
  PROVE  ValidEntry(e, snapshot)
<1>1. /\ e.mapping_id = id /\ e.count = counts[id] /\ e.status = "observed_not_in_snapshot"
      /\ e.lhs = <<>> /\ e.collisions = {}
  BY UnknownFields
<1>2. id \in DOMAIN counts /\ id \notin SnapshotIds(snapshot)
  BY DEF UnknownIds
<1>3. {s \in ToSet(snapshot.mappings) : s.mapping_id = e.mapping_id} = {}
  BY <1>1, <1>2 DEF SnapshotIds
<1>4. e.count > 0
  BY <1>1, <1>2 DEF Positive
<1>5. ToSet(e.lhs) = {}
  BY <1>1 DEF ToSet
<1>6. ValidMappingId(e.mapping_id)
  BY <1>1, <1>2 DEF ValidMappingId
<1> QED
  BY <1>1, <1>3, <1>4, <1>5, <1>6 DEF ValidEntry

(* The attribution is accepted when nothing in it must stay.                 *)
LEMMA AttributionValid ==
  ASSUME NEW snapshot \in Snapshots, ValidSnapshot(snapshot), Hashed(snapshot), LhsMayLeave(snapshot),
         NEW counts \in Maps(Token, Nat), Cardinality(DOMAIN counts) <= MaxDistinctItems,
         Positive(counts), DOMAIN counts \subseteq MappingIds
  PROVE  ValidAttribution(Attribution(snapshot, counts), snapshot)
<1> DEFINE a == Attribution(snapshot, counts)
<1>1. a.mappings = Entries(snapshot, counts) /\ a.collisions = Shadowing(snapshot)
  BY AttributionIs DEF Entries
<1>2. {e.mapping_id : e \in a.mappings} = EntryIds(snapshot, counts)
  BY DEF Entries, EntryIds
<1>3. ASSUME NEW e \in Entries(snapshot, counts)
      PROVE  ValidEntry(e, snapshot)
  <2>1. CASE IsAttributed(e, snapshot, counts)
    <3>1. PICK m \in ToSet(snapshot.mappings) : e = AttributedOf(snapshot, counts, m)
      BY <2>1 DEF IsAttributed
    <3> QED
      BY <3>1, AttributedValid
  <2>2. CASE IsUnknown(e, snapshot, counts)
    <3>1. PICK id \in UnknownIds(snapshot, counts) : e = UnknownOf(counts, id)
      BY <2>2 DEF IsUnknown
    <3> QED
      BY <3>1, UnknownValid
  <2> QED
    BY <2>1, <2>2, EntryCases
<1>4. \A p \in Shadowing(snapshot) :
       /\ {p[1], p[2]} \subseteq ToSet(snapshot.mappings)
       /\ p[1].mode = p[2].mode /\ p[1].lhs = p[2].lhs
       /\ p[1].scope = "global" /\ p[2].scope = "buffer"
  BY DEF Shadowing
<1>5. /\ Cardinality(EntryIds(snapshot, counts)) = Cardinality(Entries(snapshot, counts))
      /\ Cardinality(Entries(snapshot, counts)) >= Len(snapshot.mappings)
      /\ Cardinality(Entries(snapshot, counts)) <= MaxSnapshotMappings + MaxDistinctItems
  BY EntriesCounted
<1>6. Cardinality(Shadowing(snapshot)) <= MaxSnapshotMappings
  BY ShadowingShort
<1> HIDE DEF a
<1>7. ValidAttribution(a, snapshot)
  BY <1>1, <1>2, <1>3, <1>4, <1>5, <1>6 DEF ValidAttribution
<1> QED
  BY <1>7 DEF a

(* And when it is accepted nothing in it must stay. *)
LEMMA AttributionLeaves ==
  ASSUME NEW snapshot, NEW counts, ValidAttribution(Attribution(snapshot, counts), snapshot), snapshot.present
  PROVE  LhsMayLeave(snapshot) /\ DOMAIN counts \subseteq MappingIds
<1>1. \A e \in Entries(snapshot, counts) : ValidEntry(e, snapshot)
  BY DEF ValidAttribution, Entries
<1>2. ASSUME NEW m \in ToSet(snapshot.mappings)
      PROVE  (\A token \in ToSet(m.lhs) : ValidToken(token)) /\ m.mapping_id \in MappingIds
  <2>1. PICK e : e = AttributedOf(snapshot, counts, m)
    OBVIOUS
  <2>2. ValidEntry(e, snapshot)
    BY <1>1, <2>1, EntryCases
  <2>3. e.lhs = m.lhs /\ e.mapping_id = m.mapping_id
    BY <2>1, AttributedFields
  <2> QED
    BY <2>2, <2>3 DEF ValidEntry, ValidMappingId
<1>3. ASSUME NEW id \in DOMAIN counts
      PROVE  id \in MappingIds
  <2>1. CASE id \in SnapshotIds(snapshot)
    BY <2>1, <1>2 DEF SnapshotIds
  <2>2. CASE id \notin SnapshotIds(snapshot)
    <3>1. id \in UnknownIds(snapshot, counts)
      BY <2>2 DEF UnknownIds
    <3>2. PICK e : e = UnknownOf(counts, id)
      OBVIOUS
    <3>3. ValidEntry(e, snapshot)
      BY <1>1, <3>1, <3>2, EntryCases
    <3>4. e.mapping_id = id
      BY <3>2, UnknownFields
    <3> QED
      BY <3>3, <3>4 DEF ValidEntry, ValidMappingId
  <2> QED
    BY <2>1, <2>2
<1> QED
  BY <1>2, <1>3 DEF LhsMayLeave

-----------------------------------------------------------------------------
(* What a preview refuses. *)
TokensOf(s, snapshot) ==
  {k.key : k \in s.keys \cup s.repeated_keys \cup s.control_keys}
    \cup UNION {ToSet(m.lhs) : m \in ToSet(snapshot.mappings)}
IdsOf(s, snapshot, events) ==
  {m.key : m \in s.mappings} \cup (IF snapshot.present THEN UsedIds(events) ELSE {})
MayLeave(s, snapshot, events) ==
  TokensOf(s, snapshot) \cap RefusedTokens = {} /\ IdsOf(s, snapshot, events) \subseteq MappingIds
ListsLeave(s) ==
  /\ \A k \in s.keys \cup s.repeated_keys \cup s.control_keys : ValidToken(k.key)
  /\ \A m \in s.mappings : m.key \in MappingIds

(* What may leave, list by list. *)
LEMMA MayLeaveIs ==
  ASSUME NEW s, NEW snapshot, NEW events
  PROVE  MayLeave(s, snapshot, events)
           <=> ListsLeave(s) /\ LhsMayLeave(snapshot) /\ (snapshot.present => UsedIds(events) \subseteq MappingIds)
<1> DEFINE shown == s.keys \cup s.repeated_keys \cup s.control_keys
<1>1. TokensOf(s, snapshot) \cap RefusedTokens = {}
        <=> (\A k \in shown : k.key \notin RefusedTokens) /\ LhsMayLeave(snapshot)
  <2>1. ASSUME TokensOf(s, snapshot) \cap RefusedTokens = {}
        PROVE  (\A k \in shown : k.key \notin RefusedTokens) /\ LhsMayLeave(snapshot)
    <3>1. \A k \in shown : k.key \in TokensOf(s, snapshot)
      BY DEF TokensOf
    <3>2. \A m \in ToSet(snapshot.mappings) : \A token \in ToSet(m.lhs) : token \in TokensOf(s, snapshot)
      BY DEF TokensOf
    <3> QED
      BY <2>1, <3>1, <3>2 DEF LhsMayLeave, ValidToken
  <2>2. ASSUME \A k \in shown : k.key \notin RefusedTokens, LhsMayLeave(snapshot)
        PROVE  TokensOf(s, snapshot) \cap RefusedTokens = {}
    <3> SUFFICES ASSUME NEW t \in TokensOf(s, snapshot) PROVE t \notin RefusedTokens
      OBVIOUS
    <3>1. (\E k \in shown : t = k.key) \/ (\E m \in ToSet(snapshot.mappings) : t \in ToSet(m.lhs))
      BY DEF TokensOf
    <3> QED
      BY <2>2, <3>1 DEF LhsMayLeave, ValidToken
  <2> QED
    BY <2>1, <2>2
<1>2. IdsOf(s, snapshot, events) \subseteq MappingIds
        <=> (\A m \in s.mappings : m.key \in MappingIds) /\ (snapshot.present => UsedIds(events) \subseteq MappingIds)
  BY DEF IdsOf
<1> QED
  BY <1>1, <1>2 DEF MayLeave, ListsLeave, ValidToken

(* The parts of a published summary that a payload limits. *)
Fitting(s, snapshot) ==
  /\ \A list \in {s.keys, s.mappings, s.control_keys, s.repeated_keys} : Short(list, MaxRankedItems)
  /\ Short(s.candidates, MaxCandidates)
  /\ \A k \in s.control_keys : k.mode \in TextModes
  /\ \A m \in s.repeated_motions : m.key \in Motions
  /\ \A c \in s.candidates : CandidateRight(c, snapshot)
  /\ DOMAIN s.modes \subseteq Modes /\ DOMAIN s.transitions \subseteq Modes \X Modes

(* What a finished analysis lists is within the limits. *)
LEMMA ListedFits ==
  ASSUME NEW events, NEW acc, FullyKnown(acc, events), NEW reader, NEW snapshot \in Snapshots,
         NEW s, Listed(s, acc, reader, snapshot), s.sessions \in Nat
  PROVE  Fitting(s, snapshot)
<1>1. /\ acc.keys \in Maps(Token, Nat) /\ acc.mappings \in Maps(Token, Nat)
      /\ acc.control_keys \in Maps(TextModes \X Token, Nat)
      /\ acc.repeated_keys \in Maps(Token, Numbers) /\ acc.repeated_motions \in Maps(Token, Numbers)
      /\ acc.modes \in Maps(SequenceModes, Numbers) /\ acc.transitions \in Maps(Modes \X Modes, Nat)
      /\ DOMAIN acc.repeated_motions \subseteq Motions
  BY KnownTypes
<1>2. /\ s.modes = acc.modes /\ s.transitions = acc.transitions
      /\ s.keys = Ranked(acc.keys) /\ s.mappings = Ranked(acc.mappings)
      /\ s.control_keys = RankedControlKeys(acc.control_keys)
      /\ s.repeated_keys = RankedRepeats(acc.repeated_keys, MaxRankedItems, FALSE)
      /\ s.repeated_motions = RankedRepeats(acc.repeated_motions, MaxCandidates, TRUE)
      /\ s.candidates = Candidates(acc, s.sessions, s.repeated_motions, snapshot)
  BY DEF Listed
<1>3. MaxRankedItems \in Nat /\ MaxCandidates \in Nat
  BY Limits
<1>4. Short(s.keys, MaxRankedItems) /\ Short(s.mappings, MaxRankedItems)
  BY <1>1, <1>2, RankedShort
<1>5. Short(s.control_keys, MaxRankedItems) /\ \A k \in s.control_keys : k.mode \in TextModes
  BY <1>1, <1>2, RankedControlShort
<1>6. Short(s.repeated_keys, MaxRankedItems)
  BY <1>1, <1>2, <1>3, RankedRepeatsShort
<1>7. \A m \in s.repeated_motions : m.key \in Motions
  <2>1. \A m \in s.repeated_motions : m.key \in DOMAIN acc.repeated_motions
    BY <1>1, <1>2, <1>3, RankedRepeatsShort
  <2> QED
    BY <1>1, <2>1
<1>8. Short(s.candidates, MaxCandidates) /\ \A c \in s.candidates : CandidateRight(c, snapshot)
  BY <1>1, <1>2, CandidatesRight
<1>9. DOMAIN acc.modes \subseteq SequenceModes /\ DOMAIN acc.transitions \subseteq Modes \X Modes
  BY <1>1, MapType
<1>10. DOMAIN s.modes \subseteq Modes /\ DOMAIN s.transitions \subseteq Modes \X Modes
  BY <1>2, <1>9 DEF Modes
<1> QED
  BY <1>4, <1>5, <1>6, <1>7, <1>8, <1>10 DEF Fitting

(* A published summary is valid when all of it may leave. *)
LEMMA FittingValid ==
  ASSUME NEW s, NEW snapshot \in Snapshots, ValidSnapshot(snapshot), Hashed(snapshot),
         NEW counts, s.mapping_attribution = Attribution(snapshot, counts),
         s.mapping_coverage = Coverage(snapshot, counts), NEW events,
         CoverageRight(Coverage(snapshot, counts), snapshot, events),
         Fitting(s, snapshot), ListsLeave(s),
         snapshot.present => ValidAttribution(Attribution(snapshot, counts), snapshot)
  PROVE  ValidSummary(s, snapshot)
<1>1. WithinLimits(s)
  BY DEF Fitting, Short, WithinLimits
<1>2. ValidCoverage(s, snapshot)
  <2>1. s.mapping_attribution.present = snapshot.present
    BY AttributionIs
  <2> QED
    BY <2>1 DEF ValidCoverage, CoverageRight
<1>3. ValidLists(s)
  BY DEF ValidLists, ListsLeave, Fitting, ValidMappingId
<1>4. ASSUME NEW c \in s.candidates
      PROVE  ValidCandidate(c, snapshot)
  <2>1. CandidateRight(c, snapshot)
    BY DEF Fitting
  <2>2. SnapshotIds(snapshot) \subseteq MappingIds
    BY SnapshotIdsValid
  <2>3. CASE c.kind = "repeated_motion"
    BY <2>1, <2>3 DEF CandidateRight, ValidCandidate
  <2>4. CASE c.kind = "current_mapping_unobserved_in_sample"
    BY <2>1, <2>2, <2>4 DEF CandidateRight, ValidCandidate, ValidMappingId
  <2> QED
    BY <2>1, <2>3, <2>4 DEF CandidateRight, CandidateKinds
<1>5. DOMAIN s.modes \subseteq Modes /\ DOMAIN s.transitions \subseteq Modes \X Modes
  BY DEF Fitting
<1> QED
  BY <1>1, <1>2, <1>3, <1>4, <1>5 DEF ValidSummary

(* What is used, is used at least once. *)
LEMMA UsesPositive ==
  ASSUME NEW events \in Logs, NEW acc, FullyKnown(acc, events)
  PROVE  Positive(acc.mappings) /\ DOMAIN acc.mappings = UsedIds(events)
<1>1. UseCounts(acc, events) /\ DOMAIN acc.mappings = UsedIds(events)
  BY DEF FullyKnown
<1>2. ASSUME NEW id \in DOMAIN acc.mappings
      PROVE  acc.mappings[id] \in Nat /\ acc.mappings[id] > 0
  <2>1. acc.mappings[id] = UsesOf(events, id)
    BY <1>1 DEF UseCounts, CountOf
  <2>2. id \in UsedIds(events)
    BY <1>1
  <2> QED
    BY <2>1, <2>2, UsedCounted
<1> QED
  BY <1>1, <1>2 DEF Positive

(* The size of a payload is a number. *)
LEMMA PayloadSizeType ==
  ASSUME NEW s, NEW snapshot \in Snapshots, Fitting(s, snapshot),
         Cardinality(s.mapping_attribution.mappings) \in Nat
  PROVE  PayloadSize(s, snapshot) \in Nat
<1>1. /\ Cardinality(s.keys) \in Nat /\ Cardinality(s.control_keys) \in Nat /\ Cardinality(s.repeated_keys) \in Nat
      /\ Cardinality(s.mappings) \in Nat /\ Cardinality(s.candidates) \in Nat
  BY DEF Fitting, Short
<1>2. Len(snapshot.mappings) \in Nat
  BY SnapshotCases
<1>3. PICK a \in Nat : a = Cardinality(s.keys)
  BY <1>1
<1>4. PICK b \in Nat : b = Cardinality(s.control_keys)
  BY <1>1
<1>5. PICK c \in Nat : c = Cardinality(s.repeated_keys)
  BY <1>1
<1>6. PICK d \in Nat : d = Cardinality(s.mappings)
  BY <1>1
<1>7. PICK e \in Nat : e = Cardinality(s.candidates)
  BY <1>1
<1>8. PICK f \in Nat : f = Cardinality(s.mapping_attribution.mappings)
  OBVIOUS
<1>9. PICK g \in Nat : g = Len(snapshot.mappings)
  BY <1>2
<1>10. PayloadSize(s, snapshot) = a + b + c + d + e + f + g
  BY Zenon, <1>3, <1>4, <1>5, <1>6, <1>7, <1>8, <1>9 DEF PayloadSize
<1>11. a + b + c + d + e + f + g \in Nat
  OBVIOUS
<1> QED
  BY <1>10, <1>11

-----------------------------------------------------------------------------
(* A preview accepts what analyze publishes. *)
LEMMA RenderIs ==
  ASSUME NEW s, NEW snapshot, NEW p, p = Render(s, snapshot), ValidSnapshot(snapshot)
  PROVE  /\ ~p.refused => p.summary = s /\ p.keymap_snapshot = snapshot /\ ValidSummary(s, snapshot)
         /\ p.refused => ~(ValidSummary(s, snapshot) /\ PayloadSize(s, snapshot) <= MaxPayload)
<1> DEFINE good == ValidSummary(s, snapshot) /\ PayloadSize(s, snapshot) <= MaxPayload
<1>1. CASE good
  <2>1. p = [refused |-> FALSE, summary |-> s, keymap_snapshot |-> snapshot]
    BY <1>1 DEF Render
  <2> QED
    BY <1>1, <2>1
<1>2. CASE ~good
  <2>1. p = [refused |-> TRUE]
    BY <1>2 DEF Render, Refused
  <2>2. p.refused
    BY <2>1
  <2> QED
    BY <1>2, <2>2
<1> QED
  BY <1>1, <1>2

(* A valid summary holds nothing that must stay. *)
LEMMA ValidLeaves ==
  ASSUME NEW s, NEW snapshot \in Snapshots, NEW counts, s.mapping_attribution = Attribution(snapshot, counts),
         ValidSummary(s, snapshot), NEW events, DOMAIN counts = UsedIds(events)
  PROVE  MayLeave(s, snapshot, events)
<1>1. ValidLists(s) /\ (snapshot.present => ValidAttribution(Attribution(snapshot, counts), snapshot))
  BY DEF ValidSummary
<1>2. ListsLeave(s)
  BY <1>1 DEF ValidLists, ListsLeave, ValidMappingId
<1>3. snapshot.present => LhsMayLeave(snapshot) /\ UsedIds(events) \subseteq MappingIds
  BY <1>1, AttributionLeaves
<1>4. ~snapshot.present => LhsMayLeave(snapshot)
  <2>1. ~snapshot.present => snapshot.mappings = <<>>
    BY SnapshotCases DEF NoSnapshot
  <2>2. ToSet(<<>>) = {}
    BY DEF ToSet
  <2> QED
    BY <2>1, <2>2 DEF LhsMayLeave
<1>5. snapshot.present \in BOOLEAN
  BY SnapshotCases
<1> QED
  BY <1>2, <1>3, <1>4, <1>5, MayLeaveIs

(* By the invariant a preview accepts what analyze published. *)
LEMMA PreviewHolds ==
  ASSUME CInv
  PROVE  PreviewAcceptsAnalysis
<1> DEFINE snapshot == keymap.snapshot
           counts == state.acc.mappings
<1> SUFFICES ASSUME payload # None
             PROVE  /\ ~payload.refused =>
                         /\ payload.summary = summary /\ payload.keymap_snapshot = snapshot
                         /\ MayLeave(summary, snapshot, All)
                    /\ payload.refused =>
                         ~MayLeave(summary, snapshot, All) \/ PayloadSize(summary, snapshot) > MaxPayload
  BY DEF PreviewAcceptsAnalysis, MayLeave, TokensOf, IdsOf
<1>1. summary # None /\ payload = Preview(summary) /\ outcome = "ok"
  BY DEF CInv, Analysis, Results
<1>2. Finished
  BY <1>1, WhenFinished
<1>3. FullyKnown(state.acc, All) /\ All \in Logs
  BY <1>2, FinishedKnown
<1>4. snapshot \in Snapshots /\ ValidSnapshot(snapshot) /\ Hashed(snapshot)
  BY <1>2 DEF Finished
<1>5. payload = Render(summary, snapshot)
  BY <1>1, <1>2, SnapshotRebuilt DEF Preview
<1>6. /\ ~payload.refused =>
           payload.summary = summary /\ payload.keymap_snapshot = snapshot /\ ValidSummary(summary, snapshot)
      /\ payload.refused => ~(ValidSummary(summary, snapshot) /\ PayloadSize(summary, snapshot) <= MaxPayload)
  BY <1>4, <1>5, RenderIs
<1>7. Listed(summary, state.acc, state.reader, snapshot)
  BY <1>2, SummaryFields
<1>8. summary.mapping_attribution = Attribution(snapshot, counts) /\ summary.mapping_coverage = Coverage(snapshot, counts)
  BY <1>7 DEF Listed
<1>9. /\ counts \in Maps(Token, Nat) /\ Cardinality(DOMAIN counts) <= MaxDistinctItems
      /\ Positive(counts) /\ DOMAIN counts = UsedIds(All) /\ UseCounts(state.acc, All)
  BY <1>3, KnownTypes, UsesPositive DEF FullyKnown
<1>10. summary.sessions \in Nat
  <2>1. text \in [Inodes -> Logs] /\ read \in Seq(Inodes)
    BY DEF CInv, IInv, TypeOK, Analysis, GivenTypes
  <2>2. summary.sessions = Cardinality(Of(All, "session_start"))
    BY <1>2, <2>1, SessionsExact, TypingIsExact DEF TypingExact
  <2>3. Cardinality(Of(All, "session_start")) \in Nat
    BY <1>3, OfFinite, FS_CardinalityType
  <2> QED
    BY <2>2, <2>3
<1>11. Fitting(summary, snapshot)
  BY <1>3, <1>4, <1>7, <1>10, ListedFits
<1>12. CoverageRight(Coverage(snapshot, counts), snapshot, All)
  BY <1>3, <1>4, <1>9, CoverageExact
<1>13. ValidSummary(summary, snapshot) => MayLeave(summary, snapshot, All)
  BY <1>4, <1>8, <1>9, ValidLeaves
<1>14. ASSUME MayLeave(summary, snapshot, All)
       PROVE  ValidSummary(summary, snapshot)
  <2>1. ListsLeave(summary) /\ LhsMayLeave(snapshot) /\ (snapshot.present => UsedIds(All) \subseteq MappingIds)
    BY <1>14, MayLeaveIs
  <2>2. snapshot.present => ValidAttribution(Attribution(snapshot, counts), snapshot)
    BY <1>4, <1>9, <2>1, AttributionValid
  <2> QED
    BY <1>4, <1>8, <1>11, <1>12, <2>1, <2>2, FittingValid
<1>15. PayloadSize(summary, snapshot) \in Nat /\ MaxPayload \in Nat
  <2>1. Cardinality(Entries(snapshot, counts)) \in Nat
    BY <1>4, <1>9, EntriesCounted
  <2>2. Cardinality(summary.mapping_attribution.mappings) \in Nat
    BY <1>8, <2>1 DEF Entries
  <2> QED
    BY <1>4, <1>11, <2>2, PayloadSizeType, ContractConstants
<1>16. ~(PayloadSize(summary, snapshot) <= MaxPayload) => PayloadSize(summary, snapshot) > MaxPayload
  <2>1. \A x, y \in Nat : ~(x <= y) => x > y
    OBVIOUS
  <2> QED
    BY <1>15, <2>1
<1> HIDE DEF snapshot, counts
<1> QED
  BY <1>6, <1>13, <1>14, <1>16

(* A preview gives Codex the published summary and the snapshot of the       *)
(* report, and refuses nothing that may leave and fits, for all logs,        *)
(* snapshots and limits (PreviewAcceptsAnalysis).                            *)
THEOREM PreviewAcceptsPublished == Spec => []PreviewAcceptsAnalysis
<1>1. CInv => PreviewAcceptsAnalysis
  BY PreviewHolds
<1> QED
  BY <1>1, CommandInvariant, PTL
=============================================================================
