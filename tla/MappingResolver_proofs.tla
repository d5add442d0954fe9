----------------------- MODULE MappingResolver_proofs -----------------------
(***************************************************************************)
(* Whatever is mapped, in however many buffers and modes, and whatever     *)
(* fails: a recorded mapping use is of the mapping in effect.              *)
(***************************************************************************)
EXTENDS MappingResolver, TLAPS

(* The baseline is the listing of one buffer at one time. *)
BaselineIsTaken == baseline # None => owner \in Buffers /\ baseline = Listing(taken, owner)

IInv == TypeOK /\ BaselineIsTaken

-----------------------------------------------------------------------------
LEMMA ListingType ==
  ASSUME NEW ms \in SUBSET Mapping, NEW b \in Buffers
  PROVE  Listing(ms, b) \subseteq Entry /\ Listing(ms, b) # None
<1>1. ASSUME NEW m \in Effective(ms, b)
      PROVE  [mode |-> m.mode, lhs |-> m.lhs, scope |-> Scope(m), ambiguous |-> Ambiguous(ms, b, m)] \in Entry
  <2>1. m \in Mapping
    BY <1>1 DEF Effective, Visible
  <2>2. m.mode \in Modes /\ m.lhs \in Lhs
    BY <2>1 DEF Mapping
  <2>3. Scope(m) \in {"buffer", "global"}
    BY DEF Scope
  <2>4. Ambiguous(ms, b, m) \in BOOLEAN
    BY DEF Ambiguous
  <2> QED BY <2>2, <2>3, <2>4 DEF Entry
<1>2. Listing(ms, b) \subseteq Entry
  BY <1>1 DEF Listing
<1> QED BY <1>2, ResolverAssumption

(* Keys that both listings of a buffer show are ambiguous in both. *)
LEMMA UnambiguousThen ==
  ASSUME NEW ms \in SUBSET Mapping, NEW b \in Buffers,
         NEW e \in Listing(ms, b), ~e.ambiguous,
         NEW n \in Visible(ms, b), n.mode = e.mode
  PROVE  ~Comparable(n.lhs, e.lhs)
<1>1. PICK m \in Effective(ms, b) :
        e = [mode |-> m.mode, lhs |-> m.lhs, scope |-> Scope(m), ambiguous |-> Ambiguous(ms, b, m)]
  BY DEF Listing
<1>2. e.mode = m.mode /\ e.lhs = m.lhs /\ ~Ambiguous(ms, b, m)
  BY <1>1
<1>3. PICK k \in Effective(ms, b) : k.mode = n.mode /\ k.lhs = n.lhs
  <2>1. CASE n \in Effective(ms, b)
    BY <2>1
  <2>2. CASE n \notin Effective(ms, b)
    <3>1. PICK k \in Visible(ms, b) : k.buffer = b /\ k.mode = n.mode /\ k.lhs = n.lhs
      BY <2>2 DEF Effective
    <3>2. k \in Effective(ms, b)
      BY <3>1, ResolverAssumption DEF Effective
    <3> QED BY <3>1, <3>2
  <2> QED BY <2>1, <2>2
<1> QED BY <1>2, <1>3 DEF Ambiguous

-----------------------------------------------------------------------------
LEMMA InitIInv == Init => IInv
<1> SUFFICES ASSUME Init PROVE IInv
  OBVIOUS
<1>1. live \subseteq Mapping /\ left \in [changes : Nat, faults : Nat]
  BY ResolverAssumption DEF Init
<1>2. BaselineIsTaken
  BY DEF Init, BaselineIsTaken
<1> QED BY <1>1, <1>2 DEF Init, IInv, TypeOK

LEMMA ResetType ==
  ASSUME TypeOK, ResetSession
  PROVE  epoch' \in Nat /\ state' = "stopped" /\ scheduled' = FALSE /\ UNCHANGED deferred /\ ResetAttribution
BY ResolverAssumption DEF TypeOK, ResetSession

LEMMA FaultType ==
  ASSUME TypeOK, Fault
  PROVE  left' \in [changes : Nat, faults : Nat]
BY DEF TypeOK, Fault

(* What every step does to the resolver and to attribution. *)
Kept == UNCHANGED resolver /\ UNCHANGED <<ready, needed>>
Off  == ready' = FALSE /\ needed' \in BOOLEAN
Step == \/ Kept
        \/ Off /\ (UNCHANGED resolver \/ ResetResolver)
        \/ Primed
        \/ Off /\ UNCHANGED <<baseline, owner, taken>> /\ dirty' = TRUE

LEMMA PrimeSteps ==
  ASSUME TypeOK, PrimeResolver(ResetResolver)
  PROVE  Step /\ left' \in [changes : Nat, faults : Nat]
<1>1. left' \in [changes : Nat, faults : Nat]
  BY DEF PrimeResolver, IfOrFault, Fault, TypeOK
<1>2. Step
  BY DEF PrimeResolver, Step, Off, TypeOK
<1> QED BY <1>1, <1>2

LEMMA RefreshSteps ==
  ASSUME TypeOK, PrimeResolver(UNCHANGED resolver)
  PROVE  Step /\ left' \in [changes : Nat, faults : Nat]
<1>1. left' \in [changes : Nat, faults : Nat]
  BY DEF PrimeResolver, IfOrFault, Fault, TypeOK
<1>2. Step
  BY DEF PrimeResolver, Step, Off, TypeOK
<1> QED BY <1>1, <1>2

(* The rest of the state keeps its types. *)
Rest == /\ live' \subseteq Mapping /\ buffer' \in Buffers
        /\ state' \in {"stopped", "recording", "paused", "stopping"} /\ error' \in BOOLEAN
        /\ scheduled' \in BOOLEAN /\ epoch' \in Nat /\ deferred' \subseteq Nat
        /\ left' \in [changes : Nat, faults : Nat]

LEMMA StepIInv ==
  ASSUME IInv, Step, Rest
  PROVE  IInv'
<1> USE DEF IInv, TypeOK, BaselineIsTaken, Rest
<1>1. CASE Kept
  BY <1>1 DEF Kept, resolver
<1>2. CASE Off /\ UNCHANGED resolver
  BY <1>2 DEF Off, resolver
<1>3. CASE Off /\ ResetResolver
  BY <1>3 DEF Off, ResetResolver
<1>4. CASE Primed
  BY <1>4, ListingType DEF Primed
<1>5. CASE Off /\ UNCHANGED <<baseline, owner, taken>> /\ dirty' = TRUE
  BY <1>5 DEF Off
<1> QED BY <1>1, <1>2, <1>3, <1>4, <1>5 DEF Step

LEMMA DeferredIInv ==
  ASSUME IInv, NEW e \in deferred, RunDeferred(e)
  PROVE  IInv'
<1> USE DEF IInv, TypeOK, RunDeferred, world, lifecycle
<1>1. CASE PrimeResolver(UNCHANGED resolver) /\ scheduled' = FALSE
  BY <1>1, RefreshSteps, StepIInv DEF Rest
<1>2. CASE UNCHANGED <<resolver, ready, needed, left>> /\ scheduled' \in {scheduled, FALSE}
  <2>1. Step
    BY <1>2 DEF Step, Kept, resolver
  <2> QED BY <1>2, <2>1, StepIInv DEF Rest
<1> QED BY <1>1, <1>2

LEMMA KeysIInv ==
  ASSUME IInv, Keys
  PROVE  IInv'
<1> USE DEF IInv, TypeOK, world, lifecycle, AskIf, Schedule
<1>1. CASE OtherKey
  BY <1>1, StepIInv DEF OtherKey, Step, Kept, Rest
<1>2. CASE RecordingFails
  <2>1. left' \in [changes : Nat, faults : Nat]
    BY <1>2, FaultType DEF RecordingFails
  <2>2. Rest
    BY <1>2, <2>1 DEF RecordingFails, Rest
  <2> QED BY <1>2, <2>2, StepIInv DEF RecordingFails, Step, Kept
<1>3. ASSUME NEW mode \in Modes, NEW typed \in Lhs, TypedKey(mode, typed)
      PROVE  IInv'
  <2>1. CASE Attributed(mode, typed) \/ Unattributed(mode, typed)
    <3>1. Step /\ Rest
      BY <1>3, <2>1 DEF TypedKey, Attributed, Unattributed, Step, Kept, resolver, Rest
    <3> QED BY <3>1, StepIInv
  <2>2. CASE FoundStale(mode, typed)
    <3>1. Step /\ Rest
      BY <1>3, <2>2 DEF TypedKey, FoundStale, IfOrFault, Fault, Step, Off, Rest
    <3> QED BY <3>1, StepIInv
  <2> QED BY <1>3, <2>1, <2>2 DEF TypedKey
<1> QED BY <1>1, <1>2, <1>3 DEF Keys

LEMMA CommandsIInv ==
  ASSUME IInv, Commands
  PROVE  IInv'
<1> USE DEF IInv, TypeOK, world, lifecycle
<1>0. ASSUME ResetAttribution PROVE Step
  BY <1>0 DEF ResetAttribution, Step, Off
<1>1. CASE Start
  <2>1. CASE PrimeResolver(ResetResolver) /\ state' = "recording" /\ error' = FALSE
             /\ UNCHANGED <<epoch, scheduled, deferred>>
    BY <1>1, <2>1, PrimeSteps, StepIInv DEF Start, Rest
  <2>2. CASE Fault /\ ResetSession /\ error' = TRUE
    <3>1. Rest
      BY <1>1, <2>2, FaultType, ResetType DEF Start, Rest
    <3> QED BY <2>2, <3>1, <1>0, StepIInv DEF ResetSession
  <2> QED BY <1>1, <2>1, <2>2 DEF Start
<1>2. CASE Resume
  <2>1. CASE PrimeResolver(ResetResolver) /\ state' = "recording" /\ error' = FALSE
    BY <1>2, <2>1, PrimeSteps, StepIInv DEF Resume, Rest
  <2>2. CASE Fault /\ error' = TRUE /\ UNCHANGED state
    <3>1. Rest
      BY <1>2, <2>2, FaultType DEF Resume, Rest
    <3>2. ResetResolver /\ ready' = FALSE /\ UNCHANGED needed => Step
      BY DEF Step, Off
    <3>3. UNCHANGED <<resolver, ready, needed>> => Step
      BY DEF Step, Kept
    <3> QED BY <1>2, <2>2, <3>1, <3>2, <3>3, StepIInv DEF Resume, Step, PrimeResolver
  <2> QED BY <1>2, <2>1, <2>2 DEF Resume
<1>3. CASE Pause
  <2>1. Rest
    BY <1>3, FaultType DEF Pause, Rest
  <2> QED BY <1>3, <2>1, <1>0, StepIInv DEF Pause
<1>4. CASE Stop
  <2>0. UNCHANGED world
    BY <1>4 DEF Stop
  <2>1. CASE ResetSession /\ error' = FALSE /\ UNCHANGED left
    <3>1. Rest
      BY <2>0, <2>1, ResetType DEF Rest
    <3> QED BY <2>1, <3>1, <1>0, StepIInv DEF ResetSession
  <2>2. CASE /\ Fault /\ state' = "stopping" /\ error' = TRUE
             /\ UNCHANGED <<needed, epoch, scheduled, deferred>>
             /\ \/ UNCHANGED <<resolver, ready>>
                \/ ResetResolver /\ ready' = FALSE
    <3>1. Rest
      BY <2>0, <2>2, FaultType DEF Rest
    <3>2. Step
      BY <2>2 DEF Step, Kept, Off
    <3> QED BY <3>1, <3>2, StepIInv
  <2> QED BY <1>4, <2>1, <2>2 DEF Stop
<1>5. CASE Flush
  <2>1. CASE PrimeResolver(ResetResolver)
    BY <1>5, <2>1, PrimeSteps, StepIInv DEF Flush, Rest
  <2>2. CASE /\ ResetResolver /\ ready' = FALSE /\ UNCHANGED needed
             /\ UNCHANGED left \/ Fault
    <3>1. Rest
      BY <1>5, <2>2, FaultType DEF Flush, Rest
    <3>2. Step
      BY <2>2 DEF Step, Off
    <3> QED BY <3>1, <3>2, StepIInv
  <2> QED BY <1>5, <2>1, <2>2 DEF Flush
<1> QED BY <1>1, <1>2, <1>3, <1>4, <1>5 DEF Commands

LEMMA NextIInv == IInv /\ [Next]_vars => IInv'
<1> SUFFICES ASSUME IInv, [Next]_vars PROVE IInv'
  OBVIOUS
<1> USE DEF IInv, TypeOK
<1>1. CASE Keys
  BY <1>1, KeysIInv
<1>2. CASE Deferred
  BY <1>2, DeferredIInv DEF Deferred
<1>3. CASE Commands
  BY <1>3, CommandsIInv
<1>4. CASE SwitchBuffer
  BY <1>4, StepIInv DEF SwitchBuffer, refresh, lifecycle, Step, Kept, Rest
<1>5. CASE Remap
  BY <1>5, StepIInv DEF Remap, refresh, lifecycle, Step, Kept, Rest
<1>6. CASE UNCHANGED vars
  BY <1>6, StepIInv DEF vars, world, refresh, lifecycle, Step, Kept, Rest
<1> QED BY <1>1, <1>2, <1>3, <1>4, <1>5, <1>6 DEF Next

-----------------------------------------------------------------------------
(* Only an attributed key records a use, and then the mapping is in effect. *)
LEMMA UseIsLive ==
  ASSUME IInv, [Next]_vars, AttributionIsLive
  PROVE  AttributionIsLive'
<1>1. CASE used' = NoUse
  BY <1>1 DEF AttributionIsLive, NoUse
<1>2. CASE UNCHANGED vars
  BY <1>2 DEF vars, world, resolver, AttributionIsLive, Effective, Visible, Scope, Comparable
<1>3. ASSUME NEW mode \in Modes, NEW typed \in Lhs, TypedKey(mode, typed), Attributed(mode, typed)
      PROVE  AttributionIsLive'
  <2>1. PICK e \in Candidates(mode, typed) :
          /\ owner = buffer /\ StillMapped(e)
          /\ used' = [mode |-> mode, lhs |-> typed, scope |-> e.scope]
    BY <1>3 DEF Attributed
  <2>2. e \in Listing(taken, buffer) /\ e.mode = mode /\ e.lhs = typed /\ ~e.ambiguous
    BY <1>3, <2>1 DEF Candidates, TypedKey, IInv, TypeOK, BaselineIsTaken
  <2>3. live' = live /\ buffer' = buffer /\ taken' = taken /\ buffer \notin Excluded
    BY <1>3 DEF TypedKey, world, Recorded
  <2>4. used'.mode = e.mode /\ used'.lhs = e.lhs /\ used'.scope = e.scope
    BY <2>1, <2>2
  <2>5. \E m \in Effective(live, buffer) :
          m.mode = used'.mode /\ m.lhs = used'.lhs /\ Scope(m) = used'.scope
    BY <2>1, <2>4 DEF StillMapped
  <2>6. ASSUME NEW n \in Visible(live, buffer) \cap taken, n.mode = used'.mode
        PROVE  ~Comparable(n.lhs, used'.lhs)
    <3>1. n \in Visible(taken, buffer)
      BY <2>6 DEF Visible
    <3> QED BY <2>2, <2>4, <2>6, <3>1, UnambiguousThen DEF IInv, TypeOK
  <2> QED BY <2>3, <2>5, <2>6 DEF AttributionIsLive
<1>4. Next => used' = NoUse \/ \E mode \in Modes, typed \in Lhs : TypedKey(mode, typed) /\ Attributed(mode, typed)
  BY DEF Next, Keys, OtherKey, RecordingFails, TypedKey, FoundStale, Unattributed, Deferred, RunDeferred,
         Commands, Start, Resume, Pause, Stop, Flush, SwitchBuffer, Remap
<1> QED BY <1>1, <1>2, <1>3, <1>4

-----------------------------------------------------------------------------
(* The types hold, and attribution is only on with a baseline that is not   *)
(* known to be stale (Collector:_prime_mapping_resolver).                   *)
THEOREM TypeCorrect == Spec => []TypeOK
<1>1. Init => IInv BY InitIInv
<1>2. IInv /\ [Next]_vars => IInv' BY NextIInv
<1>3. IInv => TypeOK BY DEF IInv
<1> QED BY <1>1, <1>2, <1>3, PTL DEF Spec

(* No stale baseline is ever used to guess: what is recorded as a use of a  *)
(* mapping was one, in the buffer and the scope it is in effect in          *)
(* (Resolver:resolve).                                                      *)
THEOREM UsesAreLive == Spec => []AttributionIsLive
<1>1. Init => IInv /\ AttributionIsLive BY InitIInv DEF Init, AttributionIsLive
<1>2. IInv /\ AttributionIsLive /\ [Next]_vars => IInv' /\ AttributionIsLive'
  BY NextIInv, UseIsLive
<1> QED BY <1>1, <1>2, PTL DEF Spec
=============================================================================
