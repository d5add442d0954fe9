--------------------------- MODULE MappingResolver ---------------------------
(***************************************************************************)
(* Which mapping a typed key sequence used (mapping_resolver.lua), and how *)
(* the collector keeps the resolver's baseline fresh (collector.lua).      *)
(*                                                                         *)
(* The resolver lists the mappings of a buffer once, outside the key       *)
(* callback; a key is then attributed to the listed mapping it spells if   *)
(* maparg still finds that one.  When it does not, the baseline is stale,  *)
(* and a deferred function lists the mappings again.  Meanwhile the user   *)
(* switches buffers, and plugins map and unmap.  Lua runs one callback at  *)
(* a time, so every action is atomic.  Collector has the events, the queue *)
(* and the writes; here they fail or not.                                  *)
(***************************************************************************)
EXTENDS Naturals, FiniteSets, SequencesExt

CONSTANTS Buffers, Excluded,  \* buffers, and those whose input is not recorded
          Modes,              \* MODES, the modes with attribution
          Lhs,                \* left-hand sides, as sequences of tokens
          Unsupported,        \* those that canonicalize_lhs refuses
          MaxApiEntries,      \* max_api_entries
          Initial,            \* what may be mapped at first
          MaxChanges, MaxFaults, MaxSessions,   \* bounds on what may happen
          None

Mapping == [mode : Modes, lhs : Lhs, buffer : Buffers \cup {None}]
Entry == [mode : Modes, lhs : Lhs, scope : {"buffer", "global"}, ambiguous : BOOLEAN]

ASSUME ResolverAssumption ==
  /\ Excluded \subseteq Buffers /\ Unsupported \subseteq Lhs
  /\ Initial \subseteq SUBSET Mapping
  /\ MaxApiEntries \in Nat /\ MaxChanges \in Nat /\ MaxFaults \in Nat /\ MaxSessions \in Nat
  /\ None \notin Buffers /\ \A listing \in SUBSET Entry : listing # None

VARIABLES live,      \* the mappings there are, global (buffer None) and local
          buffer,    \* the current buffer
          baseline,  \* the resolver's _baseline,
          owner,     \* its _buffer
          dirty,     \* and its _dirty
          taken,     \* history: the mappings there were when the baseline was made
          state, error,               \* the collector's lifecycle, _last_error # nil
          ready, needed, scheduled,   \* _mapping_ready, _mapping_reprime_needed, _.._scheduled
          epoch, deferred,            \* _flush_epoch, and those of deferred functions
          used,      \* the mapping use the last step recorded
          left       \* changes and failures that may still happen

world == <<live, buffer>>
resolver == <<baseline, owner, dirty, taken>>
refresh == <<ready, needed, scheduled, deferred>>
lifecycle == <<state, error, epoch>>
vars == <<world, resolver, refresh, lifecycle, used, left>>

NoUse == [mode |-> None, lhs |-> <<>>, scope |-> "none"]

(* Besides the types: attribution is only on with a baseline that was not   *)
(* found stale, and then no refresh is due.                                 *)
TypeOK ==
  /\ live \subseteq Mapping /\ taken \subseteq Mapping /\ buffer \in Buffers
  /\ baseline = None \/ baseline \subseteq Entry
  /\ owner \in Buffers \cup {None} /\ dirty \in BOOLEAN
  /\ state \in {"stopped", "recording", "paused", "stopping"} /\ error \in BOOLEAN
  /\ ready \in BOOLEAN /\ needed \in BOOLEAN /\ scheduled \in BOOLEAN
  /\ epoch \in Nat /\ deferred \subseteq Nat
  /\ left \in [changes : Nat, faults : Nat]
  /\ ready => baseline # None /\ ~dirty /\ ~needed

Fault == left.faults > 0 /\ left' = [left EXCEPT !.faults = @ - 1]
IfOrFault(condition) == (condition /\ UNCHANGED left) \/ Fault

-----------------------------------------------------------------------------
(* Mappings *)

Scope(m) == IF m.buffer = None THEN "global" ELSE "buffer"
Visible(ms, b) == {m \in ms : m.buffer \in {None, b}}

(* A local mapping takes the place of a global one with the same keys; *)
(* maparg finds the one that is in effect.                             *)
Effective(ms, b) ==
  {m \in Visible(ms, b) :
     m.buffer = None => ~ \E n \in Visible(ms, b) : n.buffer = b /\ n.mode = m.mode /\ n.lhs = m.lhs}

Comparable(s, t) == s # t /\ (IsPrefix(s, t) \/ IsPrefix(t, s))

(* mark_prefix_ambiguity: both sides of a prefix are ambiguous. *)
Ambiguous(ms, b, m) == \E n \in Effective(ms, b) : n.mode = m.mode /\ Comparable(n.lhs, m.lhs)

Listing(ms, b) ==
  {[mode |-> m.mode, lhs |-> m.lhs, scope |-> Scope(m), ambiguous |-> Ambiguous(ms, b, m)]
     : m \in Effective(ms, b)}

(* One mapping that cannot be made canonical spoils the whole listing. *)
Listable(ms, b) ==
  /\ Cardinality(Visible(ms, b)) <= MaxApiEntries
  /\ \A m \in Visible(ms, b) : m.lhs \notin Unsupported

-----------------------------------------------------------------------------
(* The baseline *)

ResetResolver == baseline' = None /\ owner' = None /\ dirty' = FALSE /\ taken' = {}

Primed ==
  /\ buffer \notin Excluded /\ Listable(live, buffer)
  /\ baseline' = Listing(live, buffer) /\ owner' = buffer /\ dirty' = FALSE /\ taken' = live
  /\ ready' = TRUE /\ needed' = FALSE

(* _prime_mapping_resolver.  For an excluded buffer, or when Neovim does not *)
(* tell the buffer, the resolver stays as Before left it.                    *)
PrimeResolver(Before) ==
  \/ Primed /\ UNCHANGED left
  \/ /\ ready' = FALSE /\ UNCHANGED needed
     /\ \/ Before /\ IfOrFault(buffer \in Excluded)
        \/ ResetResolver /\ buffer \notin Excluded /\ IfOrFault(~Listable(live, buffer))

Schedule ==
  /\ scheduled' = TRUE
  /\ deferred' = IF scheduled THEN deferred ELSE deferred \cup {epoch}

AskIf(stale) == IF stale THEN Schedule ELSE UNCHANGED <<scheduled, deferred>>

(* The deferred refresh, tagged with the epoch it was asked in. *)
RunDeferred(e) ==
  /\ e \in deferred /\ deferred' = deferred \ {e}
  /\ IF e # epoch
     THEN UNCHANGED <<resolver, ready, needed, scheduled, left>>
     ELSE /\ scheduled' = FALSE
          /\ IF state = "recording" /\ ~error /\ needed
             THEN PrimeResolver(UNCHANGED resolver)
             ELSE UNCHANGED <<resolver, ready, needed, left>>
  /\ used' = NoUse /\ UNCHANGED <<world, lifecycle>>

-----------------------------------------------------------------------------
(* The key callback *)

Recorded == state = "recording" /\ ~error /\ buffer \notin Excluded

Candidates(mode, typed) == {e \in baseline : e.mode = mode /\ e.lhs = typed /\ ~e.ambiguous}

(* What maparg says is still the candidate, in the same scope. *)
StillMapped(e) == \E m \in Effective(live, buffer) : m.mode = e.mode /\ m.lhs = e.lhs /\ Scope(m) = e.scope

(* A mutant: a baseline of another buffer serves too. *)
AttributedInAnyBuffer(mode, typed) ==
  \E e \in Candidates(mode, typed) :
    /\ StillMapped(e)
    /\ used' = [mode |-> mode, lhs |-> typed, scope |-> e.scope]
    /\ AskIf(needed) /\ UNCHANGED <<ready, needed, dirty, left>>

(* resolve, when it answers. *)
Attributed(mode, typed) ==
  \E e \in Candidates(mode, typed) :
    /\ owner = buffer /\ StillMapped(e)
    /\ used' = [mode |-> mode, lhs |-> typed, scope |-> e.scope]
    /\ AskIf(needed) /\ UNCHANGED <<ready, needed, dirty, left>>

(* resolve, when it finds the baseline stale or a call into Neovim fails. *)
FoundStale(mode, typed) ==
  /\ IfOrFault(owner # buffer \/ \E e \in Candidates(mode, typed) : ~StillMapped(e))
  /\ dirty' = TRUE /\ ready' = FALSE /\ needed' = TRUE
  /\ Schedule /\ used' = NoUse

(* Keys that spell no listed mapping alone say nothing about the baseline. *)
Unattributed(mode, typed) ==
  /\ owner = buffer /\ Candidates(mode, typed) = {}
  /\ AskIf(needed) /\ used' = NoUse /\ UNCHANGED <<ready, needed, dirty, left>>

(* Typed keys with an output, in a mode with attribution. *)
TypedKey(mode, typed) ==
  /\ Recorded /\ ready
  /\ Attributed(mode, typed) \/ FoundStale(mode, typed) \/ Unattributed(mode, typed)
  /\ UNCHANGED <<world, baseline, owner, taken, lifecycle>>

(* Any other input, and any while attribution is off. *)
OtherKey ==
  /\ Recorded
  /\ AskIf(needed) /\ used' = NoUse
  /\ UNCHANGED <<world, resolver, ready, needed, lifecycle, left>>

(* A callback that raises or fills the queue, or a deferred write that fails: *)
(* nothing is recorded from then on.                                          *)
RecordingFails ==
  /\ state = "recording" /\ ~error /\ Fault /\ error' = TRUE
  /\ \/ buffer \notin Excluded /\ AskIf(needed)
     \/ UNCHANGED <<scheduled, deferred>>
  /\ used' = NoUse /\ UNCHANGED <<world, resolver, ready, needed, state, epoch>>

-----------------------------------------------------------------------------
(* Commands *)

ResetAttribution == ready' = FALSE /\ needed' = FALSE /\ ResetResolver

(* A mutant: the refresh asked for in the old session counts for the next. *)
ResetButScheduled ==
  /\ ResetAttribution
  /\ epoch < MaxSessions /\ epoch' = epoch + 1
  /\ state' = "stopped" /\ UNCHANGED <<scheduled, deferred>>

ResetSession ==
  /\ ResetAttribution
  /\ epoch < MaxSessions /\ epoch' = epoch + 1
  /\ state' = "stopped" /\ scheduled' = FALSE /\ UNCHANGED deferred

Start ==
  /\ state = "stopped"
  /\ \/ /\ PrimeResolver(ResetResolver) /\ state' = "recording" /\ error' = FALSE
        /\ UNCHANGED <<epoch, scheduled, deferred>>
     \/ Fault /\ ResetSession /\ error' = TRUE
  /\ used' = NoUse /\ UNCHANGED world

(* The first write, the flush, or the registration may fail. *)
Resume ==
  /\ state = "paused"
  /\ \/ PrimeResolver(ResetResolver) /\ state' = "recording" /\ error' = FALSE
     \/ /\ Fault /\ error' = TRUE /\ UNCHANGED state
        /\ \/ UNCHANGED <<resolver, ready, needed>>
           \/ ResetResolver /\ ready' = FALSE /\ UNCHANGED needed
           \/ Primed
  /\ used' = NoUse /\ UNCHANGED <<world, epoch, scheduled, deferred>>

Pause ==
  /\ state = "recording" /\ state' = "paused"
  /\ ResetAttribution
  /\ \/ UNCHANGED <<error, left>>
     \/ error' = TRUE /\ Fault
  /\ used' = NoUse /\ UNCHANGED <<world, epoch, scheduled, deferred>>

Stop ==
  /\ state # "stopped"
  /\ \/ ResetSession /\ error' = FALSE /\ UNCHANGED left
     \/ /\ Fault /\ state' = "stopping" /\ error' = TRUE
        /\ UNCHANGED <<needed, epoch, scheduled, deferred>>
        /\ \/ UNCHANGED <<resolver, ready>>
           \/ ResetResolver /\ ready' = FALSE
  /\ used' = NoUse /\ UNCHANGED world

(* A mutant: flush discards the baseline and leaves attribution on. *)
FlushStayingReady ==
  /\ state # "stopped"
  /\ \/ state = "recording" /\ PrimeResolver(ResetResolver)
     \/ state # "recording" /\ ResetResolver /\ ready' = FALSE /\ UNCHANGED <<needed, left>>
     \/ Fault /\ ResetResolver /\ UNCHANGED <<ready, needed>>
  /\ used' = NoUse /\ UNCHANGED <<world, lifecycle, scheduled, deferred>>

(* The public flush: its error goes to the caller alone, after the baseline *)
(* was discarded.                                                           *)
Flush ==
  /\ state # "stopped"
  /\ \/ state = "recording" /\ PrimeResolver(ResetResolver)
     \/ state # "recording" /\ ResetResolver /\ ready' = FALSE /\ UNCHANGED <<needed, left>>
     \/ Fault /\ ResetResolver /\ ready' = FALSE /\ UNCHANGED needed
  /\ used' = NoUse /\ UNCHANGED <<world, lifecycle, scheduled, deferred>>

-----------------------------------------------------------------------------
(* The rest of Neovim *)

SwitchBuffer ==
  /\ buffer' \in Buffers \ {buffer}
  /\ used' = NoUse /\ UNCHANGED <<live, resolver, refresh, lifecycle, left>>

Remap ==
  /\ left.changes > 0 /\ left' = [left EXCEPT !.changes = @ - 1]
  /\ \E m \in Mapping : live' = IF m \in live THEN live \ {m} ELSE live \cup {m}
  /\ used' = NoUse /\ UNCHANGED <<buffer, resolver, refresh, lifecycle>>

Init ==
  /\ live \in Initial /\ buffer \in Buffers
  /\ baseline = None /\ owner = None /\ dirty = FALSE /\ taken = {}
  /\ state = "stopped" /\ error = FALSE /\ epoch = 0
  /\ ready = FALSE /\ needed = FALSE /\ scheduled = FALSE /\ deferred = {}
  /\ used = NoUse /\ left = [changes |-> MaxChanges, faults |-> MaxFaults]

Deferred == \E e \in deferred : RunDeferred(e)
Keys == OtherKey \/ RecordingFails \/ \E mode \in Modes, typed \in Lhs : TypedKey(mode, typed)
Commands == Start \/ Resume \/ Pause \/ Stop \/ Flush

Next == Keys \/ Deferred \/ Commands \/ SwitchBuffer \/ Remap
Spec == Init /\ [][Next]_vars

(* Neovim's event loop runs what vim.schedule was given. *)
FairSpec == Spec /\ WF_vars(Deferred)

-----------------------------------------------------------------------------
(* Properties *)

(* "Stale state is never used to guess an attribution": a recorded use is    *)
(* of the mapping that is in effect in the buffer the user is in, in that    *)
(* scope, and no mapping seen there when the baseline was made and still     *)
(* there makes the keys ambiguous (Resolver:resolve, mark_prefix_ambiguity). *)
AttributionIsLive ==
  used # NoUse =>
    /\ buffer \notin Excluded
    /\ \E m \in Effective(live, buffer) :
         m.mode = used.mode /\ m.lhs = used.lhs /\ Scope(m) = used.scope
    /\ \A n \in Visible(live, buffer) \cap taken :
         n.mode = used.mode => ~Comparable(n.lhs, used.lhs)

(* A refresh that was asked for is tried, whichever sessions ended or were   *)
(* paused in between and left deferred functions of their own behind         *)
(* (_schedule_mapping_reprime).                                              *)
Asked == state = "recording" /\ ~error /\ needed /\ scheduled
RefreshIsTried == Asked ~> ~Asked
=============================================================================
