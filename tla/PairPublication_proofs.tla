----------------------- MODULE PairPublication_proofs -----------------------
(***************************************************************************)
(* The state stays well typed and no transaction is ever marked both       *)
(* committed and rolled back, for any set of processes, outputs and pairs, *)
(* whatever crashes, I/O faults and edits happen.                          *)
(*                                                                         *)
(* The argument is about locks.  A process in recovery or publication      *)
(* holds the locks of both outputs of its pair (Exclusive), so nobody else *)
(* touches the markers of that pair.  The markers of another pair are      *)
(* touched only through an index, found at an output whose lock is held    *)
(* (IndexRead): whoever could commit that pair needs the same lock.        *)
(*                                                                         *)
(* The second part is about the journal: what the sidecar files of a pair  *)
(* record, and what a reader may rely on.                                  *)
(*                                                                         *)
(* IInv knows which markers a process may find.  JInv adds what the files  *)
(* say of each other: an index that recovery would roll back by has its    *)
(* backup (Backed), one whose transaction committed has none left to       *)
(* restore (Unbacked), an active marker stands for both indexes            *)
(* (ActiveNamed), all of one pair are of one transaction (Agree).  For     *)
(* each process it adds what its program counter says of its own pair's    *)
(* markers, indexes and backups (Choice, OwnIndexes, OwnBackups) and of    *)
(* those of the pair it read an index of (ReadMatch, IndexKnown).          *)
(*                                                                         *)
(* One step of a process changes the journal of few pairs: Only and Gentle *)
(* say so once, and each action has a lemma for the pairs it changes.      *)
(*                                                                         *)
(* The third part is about versions, while nobody edits the outputs.       *)
(* VInv adds to JInv which version each output, each backup and each       *)
(* process holds: those a process captured or put are in place (Holds), a  *)
(* staged version is found nowhere before it is put (Fresh), an unmarked   *)
(* transaction has replaced nothing (Whole) and one that is rolled back    *)
(* has taken nothing away (Shown).  Every step then either leaves what a   *)
(* reader may rely on as it is (Unnoticed), by one of a few kinds of       *)
(* change, or is the link that commits: PairIsAtomic, step by step.        *)
(*                                                                         *)
(* The last part is about one edit.  It ends VInv: nobody knows any more   *)
(* what the edited output holds.  Late keeps what does not depend on that, *)
(* that staged versions are fresh and that a run which gave up finds an    *)
(* output that is neither its own nor the one it captured, and holds to    *)
(* the path that takes sidecars away (Gave).  VInv until the edit and Late *)
(* from then on (AInv) give AbortKeepsEdit.                                *)
(***************************************************************************)
EXTENDS PairInvariants, TLAPS

(* A process that holds locks has a pair. *)
LEMMA LockedPair ==
  ASSUME TypeOK, NEW w \in Procs, proc[w].pc \in Locked
  PROVE  Pair(w) \in Pairs /\ proc[w] \in ProcState
BY DEF TypeOK, ProcState, Pair, Locked, Recovering, PairCleanup, Publishing, Unwinding, Deciding

(* The outputs of a pair, by either name. *)
LEMMA PairOutputs ==
  ASSUME NEW p \in Pairs
  PROVE  /\ OutputsOf(p) \subseteq Outputs /\ OutputsOf(p) # {}
         /\ SummaryOf[p] \in OutputsOf(p) /\ ReportOf[p] \in OutputsOf(p)
         /\ \A k \in Roles : Output(p, k) \in OutputsOf(p)
BY PairsAssumption DEF OutputsOf, Output, Roles

(* Going on to another control point keeps the process well typed. *)
LEMMA GotoType ==
  ASSUME TypeOK, NEW w \in Procs, proc[w].pc # "idle",
         NEW there \in PCs \ {"idle"}, Goto(w, there)
  PROVE  /\ proc' \in [Procs -> ProcState]
         /\ \A v \in Procs : (proc'[v].pair = None) = (proc'[v].pc = "idle")
         /\ GoesOn(w, there)
         /\ \A v \in Procs \ {w} : proc'[v] = proc[v]
<1>1. proc' = [proc EXCEPT ![w] = [proc[w] EXCEPT !.pc = there]]
  BY DEF Goto
<1>2. proc[w] \in ProcState /\ proc \in [Procs -> ProcState]
  BY DEF TypeOK
<1>3. [proc[w] EXCEPT !.pc = there] \in ProcState
  BY <1>2 DEF ProcState
<1>4. proc[w].pair # None
  BY DEF TypeOK
<1>5. [proc[w] EXCEPT !.pc = there].pair = proc[w].pair /\ [proc[w] EXCEPT !.pc = there].pc = there
  BY <1>2 DEF ProcState
<1>6. GoesOn(w, there)
  BY <1>1, <1>2 DEF GoesOn, Pair, ProcState
<1> QED
  BY <1>1, <1>2, <1>3, <1>4, <1>5, <1>6 DEF TypeOK

(* A process that has not started is well typed. *)
LEMMA IdleType == IdleProc \in ProcState
<1>1. NoMarks \in [Kinds -> Marker \cup {None}]
  BY DEF NoMarks
<1>2. [k \in Roles |-> Absent] \in [Roles -> Nat]
  BY DEF Absent
<1> QED
  BY <1>1, <1>2 DEF IdleProc, ProcState, PCs, Roles, Reasons

(* Returning an error keeps the process well typed. *)
LEMMA FailType ==
  ASSUME TypeOK, NEW w \in Procs, proc[w].pc \in Locked,
         NEW reason \in Reasons, Fail(w, reason)
  PROVE  /\ proc' \in [Procs -> ProcState]
         /\ \A v \in Procs : (proc'[v].pair = None) = (proc'[v].pc = "idle")
         /\ proc'[w].pc = "failed" /\ proc'[w].pair = Pair(w)
         /\ \A v \in Procs \ {w} : proc'[v] = proc[v]
<1> DEFINE failed == [IdleProc EXCEPT !.pc = "failed", !.pair = proc[w].pair,
                                      !.txn = proc[w].txn, !.why = reason]
<1>1. proc' = [proc EXCEPT ![w] = failed]
  BY DEF Fail
<1>2. Pair(w) \in Pairs /\ proc[w] \in ProcState /\ proc \in [Procs -> ProcState]
  BY LockedPair DEF TypeOK
<1>3. failed \in ProcState
  BY <1>2, IdleType DEF ProcState, PCs, Pair
<1>4. failed.pc = "failed" /\ failed.pair = Pair(w) /\ Pair(w) # None
  BY <1>2, NoneAssumption DEF IdleProc, Pair
<1> QED
  BY <1>1, <1>2, <1>3, <1>4 DEF TypeOK

(* Locks keep the markers of v's pair, and of the pair v recovers, from w. *)
LEMMA Disjoint ==
  ASSUME IInv, NEW w \in Procs, NEW v \in Procs, v # w,
         proc[w].pc \in Locked, proc[v].pc \in Locked
  PROVE  /\ Pair(v) \notin Mine(w)
         /\ proc[v].pc \in WithIndex => IdxPair(v) # Pair(w)
         /\ OutputsOf(Pair(v)) \cap OutputsOf(Pair(w)) = {}
<1>1. OutputsOf(Pair(v)) \cap OutputsOf(Pair(w)) = {}
  BY DEF IInv, Exclusive
<1>2. Pair(v) \in Pairs /\ Pair(w) \in Pairs
  BY LockedPair DEF IInv
<1>3. Pair(v) # Pair(w)
  BY <1>1, <1>2, PairOutputs
<1>4. ASSUME NEW x \in {v, w}
      PROVE  /\ ThisOutput(x) \in OutputsOf(Pair(x))
             /\ proc[x].pc \in WithIndex => ThisOutput(x) \in OutputsOf(IdxPair(x))
  <2>1. proc[x] \in ProcState /\ Pair(x) \in Pairs
    BY LockedPair DEF IInv
  <2>2. proc[x].role \in Roles
    BY <2>1 DEF ProcState
  <2> QED
    BY <2>1, <2>2, PairOutputs DEF IInv, Local, IndexRead, ThisOutput
<1>5. proc[w].pc \in WithIndex => IdxPair(w) # Pair(v)
  BY <1>1, <1>4
<1>6. proc[v].pc \in WithIndex => IdxPair(v) # Pair(w)
  BY <1>1, <1>4
<1> QED
  BY <1>1, <1>3, <1>5, <1>6 DEF Mine

(* What a process must know, it must know only while it holds its locks. *)
LEMMA LocksNeeded ==
  /\ WithIndex \subseteq Locked /\ NoActive \subseteq Locked
  /\ NoCommitted \subseteq Locked /\ NoRollback \subseteq Locked
  /\ {"readRollback", "decide", "d_link", "sealS", "sealR", "sealMark"} \subseteq Locked
BY DEF WithIndex, NoActive, NoCommitted, NoRollback, Unmarked, Replacing,
       Locked, Recovering, PairCleanup, Publishing, Unwinding, Deciding

(* What another process knows survives a step within w's locks. *)
LEMMA OthersKept ==
  ASSUME IInv, NEW w \in Procs, proc[w].pc \in Locked, Touches(w),
         NEW v \in Procs \ {w}
  PROVE  Local(v)'
<1>1. proc'[v] = proc[v]
  BY DEF Touches
<1>2. CASE proc[v].pc \notin Locked
  BY <1>1, <1>2, LocksNeeded DEF Local, OwnMarks, IndexRead, ReadMarks, Unsealed
<1>3. CASE proc[v].pc \in Locked
  <2>1. Local(v) /\ Pair(v) \in Pairs /\ proc[v] \in ProcState
    BY <1>3, LockedPair DEF IInv
  <2>2. marker'[Pair(v)] = marker[Pair(v)]
    BY <1>3, <2>1, Disjoint DEF Touches
  <2>3. index'[SummaryOf[Pair(v)]] = index[SummaryOf[Pair(v)]]
        /\ index'[ReportOf[Pair(v)]] = index[ReportOf[Pair(v)]]
    BY <1>3, <2>1, Disjoint, PairOutputs DEF Touches
  <2>4. OwnMarks(v)'
    BY <1>1, <2>1, <2>2 DEF Local, OwnMarks, Pair
  <2>5. IndexRead(v)'
    BY <1>1, <2>1 DEF Local, IndexRead, ThisOutput, IdxPair, Pair
  <2>6. Unsealed(v)'
    BY <1>1, <2>1, <2>2, <2>3 DEF Local, Unsealed, Pair
  <2>7. ReadMarks(v)'
    <3>1. SUFFICES ASSUME proc[v].pc \in {"readRollback", "decide", "d_link"},
                          marker[IdxPair(v)]["committed"] = None
                   PROVE  marker'[IdxPair(v)]["committed"] = None
      BY <1>1, <2>1 DEF Local, ReadMarks, IdxPair
    <3>2. proc[v].pc \in WithIndex
      BY <3>1 DEF WithIndex, Recovering
    <3>3. IdxPair(v) \in Pairs \ {Pair(w)}
      BY <1>3, <2>1, <3>2, Disjoint DEF Local, IndexRead, IdxPair, Index
    <3> QED
      BY <3>1, <3>3 DEF Touches
  <2> QED
    BY <2>4, <2>5, <2>6, <2>7 DEF Local
<1> QED
  BY <1>2, <1>3

-----------------------------------------------------------------------------
(* A step of w is safe when it is well typed, stays within w's locks and   *)
(* w knows enough about the markers where it arrives.                      *)

Advance(w, there) == TypeOK' /\ IndexOwned' /\ Touches(w) /\ Goes(w, there)

(* No marker is added. *)
Fewer == \A q \in Pairs, k \in Kinds : marker[q][k] = None => marker'[q][k] = None

(* Where no knowledge is needed, none can be lost. *)
LEMMA Elsewhere ==
  ASSUME NEW w \in Procs, proc'[w].pc \notin WithIndex \cup NoActive \cup NoCommitted \cup NoRollback
  PROVE  Local(w)'
<1>1. proc'[w].pc \notin {"readRollback", "decide", "d_link", "sealS", "sealR", "sealMark"}
  BY DEF WithIndex, Recovering, NoActive, NoCommitted, NoRollback, Unmarked, Replacing
<1> QED
  BY <1>1 DEF Local, OwnMarks, IndexRead, ReadMarks, Unsealed

(* A step within w's locks that leaves w what it must know is safe. *)
LEMMA SafeStep ==
  ASSUME IInv, NEW w \in Procs, proc[w].pc \in Locked, TypeOK', IndexOwned', OneDecision',
         Touches(w), proc'[w].pair = Pair(w), Local(w)'
  PROVE  IInv'
<1>1. \A v \in Procs \ {w} : proc'[v] = proc[v]
  BY DEF Touches
<1>2. Exclusive'
  BY <1>1 DEF IInv, Exclusive, Pair
<1>3. \A v \in Procs : Local(v)'
  BY OthersKept
<1> QED
  BY <1>2, <1>3 DEF IInv

(* From `here' to `there' a process needs to learn no more about its own   *)
(* pair's markers than that those of `gone' are absent, and no more about  *)
(* an index or another pair's markers than it knows.                       *)
Leads(here, there, gone) ==
  /\ here \in Locked
  /\ there \in PCs \ {"idle", "readRollback", "decide", "d_link", "sealS", "sealR", "sealMark"}
  /\ there \in NoActive => here \in NoActive \/ "active" \in gone
  /\ there \in NoCommitted => here \in NoCommitted \/ "committed" \in gone
  /\ there \in NoRollback => here \in NoRollback \/ "rollback" \in gone
  /\ there \in WithIndex => here \in WithIndex

(* A step that adds no marker is safe where Leads says so. *)
LEMMA Onward ==
  ASSUME IInv, NEW w \in Procs, NEW here, At(w, here), NEW there, NEW gone \in SUBSET Kinds,
         Leads(here, there, gone), Advance(w, there), Fewer,
         \A k \in gone : marker'[Pair(w)][k] = None
  PROVE  IInv'
<1>1. proc[w] \in ProcState /\ Pair(w) \in Pairs /\ proc[w].pc = here /\ here \in Locked
  BY LockedPair DEF IInv, At, Leads
<1>2. OneDecision'
  BY DEF IInv, OneDecision, Fewer, Kinds
<1>3. ASSUME GoesOn(w, there) PROVE Local(w)'
  <2>1. /\ proc'[w].pc = there /\ proc'[w].pair = Pair(w) /\ proc'[w].idx = proc[w].idx
        /\ proc'[w].role = proc[w].role /\ proc'[w].marks = proc[w].marks
    BY <1>3 DEF GoesOn
  <2>2. OwnMarks(w)'
    BY <1>1, <2>1 DEF IInv, Local, OwnMarks, Fewer, Kinds, Pair, Leads
  <2>3. IndexRead(w)'
    BY <1>1, <2>1 DEF IInv, Local, IndexRead, ThisOutput, IdxPair, Pair, Leads
  <2>4. ReadMarks(w)' /\ Unsealed(w)'
    BY <2>1 DEF ReadMarks, Unsealed, IdxPair, Leads
  <2> QED
    BY <2>2, <2>3, <2>4 DEF Local
<1>4. proc'[w].pc = "failed" => Local(w)'
  BY LocksNeeded, Elsewhere DEF Locked, Recovering, PairCleanup, Publishing, Unwinding, Deciding
<1> QED
  BY <1>1, <1>2, <1>3, <1>4, SafeStep DEF Advance, Goes, GoesOn

(* The pairs whose files w may work on. *)
Theirs(w, here) == {Pair(w)} \cup (IF here \in WithIndex THEN {IdxPair(w)} ELSE {})

(* The pairs a process works on are pairs. *)
LEMMA TheirsMine ==
  ASSUME IInv, NEW w \in Procs, NEW here \in Locked, At(w, here), NEW q \in Theirs(w, here)
  PROVE  q \in Mine(w) /\ q \in Pairs
<1>1. Pair(w) \in Pairs /\ proc[w].pc = here
  BY LockedPair DEF IInv, At
<1>2. here \in WithIndex => IdxPair(w) \in Pairs
  BY <1>1 DEF IInv, Local, IndexRead, IdxPair, Index
<1> QED
  BY <1>1, <1>2 DEF Theirs, Mine

Steps(w, there) ==
  /\ proc' \in [Procs -> ProcState]
  /\ \A v \in Procs : (proc'[v].pair = None) = (proc'[v].pc = "idle")
  /\ Goes(w, there)
  /\ \A v \in Procs \ {w} : proc'[v] = proc[v]

(* A process that goes on or fails changes no other process. *)
LEMMA Moves ==
  ASSUME IInv, NEW w \in Procs, NEW here, At(w, here), here \in Locked,
         NEW there \in PCs \ {"idle"},
         Goto(w, there) \/ \E r \in Reasons : Fail(w, r)
  PROVE  Steps(w, there)
<1>1. proc[w].pc \in Locked /\ TypeOK /\ proc[w].pc # "idle"
  BY DEF At, IInv, Locked, Recovering, PairCleanup, Publishing, Unwinding, Deciding
<1> QED
  BY <1>1, GotoType, FailType DEF Goes, Steps

-----------------------------------------------------------------------------
(* The operations a step is made of. *)

(* Steps that change no sidecar: reads, checks, output renames. *)
LEMMA LookSafe ==
  ASSUME IInv, NEW w \in Procs, NEW here, NEW there, Leads(here, there, {}), At(w, here),
         Goto(w, there) \/ \E r \in Reasons : Fail(w, r),
         UNCHANGED <<backup, index, marker, clock>>, dest' \in [Outputs -> Nat],
         left' \in [crashes : Nat, faults : Nat, edits : Nat]
  PROVE  IInv'
<1>1. here \in Locked /\ there \in PCs \ {"idle"}
  BY DEF Leads
<1>2. Advance(w, there) /\ Fewer
  BY <1>1, Moves DEF Steps, Advance, Touches, Fewer, TypeOK, IInv, IndexOwned
<1> QED
  BY <1>2, Onward

(* OutputBackup::restore, whatever the record says. *)
LEMMA RestoreSafe ==
  ASSUME IInv, NEW w \in Procs, NEW here, NEW there, Leads(here, there, {}),
         NEW q \in Theirs(w, here), NEW k \in Roles, NEW prev,
         Restore(w, here, q, k, prev, there)
  PROVE  IInv'
<1>1. At(w, here) /\ (Goto(w, there) \/ \E r \in Reasons : Fail(w, r))
  BY DEF Restore, Reasons
<1>2. q \in Pairs
  BY <1>1, TheirsMine DEF Leads
<1>3. dest' \in [Outputs -> Nat]
  BY <1>2, PairOutputs DEF Restore, IInv, TypeOK, Output
<1>4. UNCHANGED <<backup, index, marker, clock, left>>
  BY DEF Restore
<1> QED
  BY <1>1, <1>3, <1>4, LookSafe DEF IInv, TypeOK

(* Removing a backup, or leaving it. *)
LEMMA BackupsSafe ==
  ASSUME IInv, NEW w \in Procs, NEW here, NEW there, Leads(here, there, {}), At(w, here),
         Goto(w, there) \/ \E r \in Reasons : Fail(w, r),
         NEW q \in Theirs(w, here), NEW k \in Roles,
         \/ backup' = backup
         \/ backup' = [backup EXCEPT ![q][k] = Absent],
         UNCHANGED <<dest, index, marker, clock, left>>
  PROVE  IInv'
<1>1. q \in Pairs /\ here \in Locked /\ there \in PCs \ {"idle"}
  BY TheirsMine DEF Leads
<1>2. \/ backup' = backup
      \/ backup' = [backup EXCEPT ![q] = [backup[q] EXCEPT ![k] = 0]]
  BY DEF Absent
<1>3. backup' \in [Pairs -> [Roles -> Nat]]
  <2>1. backup \in [Pairs -> [Roles -> Nat]]
    BY DEF IInv, TypeOK
  <2>2. [backup[q] EXCEPT ![k] = 0] \in [Roles -> Nat]
    BY <1>1, <2>1
  <2> QED
    BY <1>1, <1>2, <2>1, <2>2
<1>4. Advance(w, there) /\ Fewer
  BY <1>1, <1>3, Moves DEF Steps, Advance, Touches, Fewer, TypeOK, IInv, IndexOwned
<1> QED
  BY <1>4, Onward

(* The three ways a backup is dropped. *)
LEMMA DropBackupSafe ==
  ASSUME IInv, NEW w \in Procs, NEW here, NEW there, Leads(here, there, {}),
         NEW q \in Theirs(w, here), NEW k \in Roles, NEW prev, NEW reason \in Reasons,
         \/ DropBackup(w, here, q, k, there)
         \/ DropOwnBackup(w, here, q, k, prev, there)
         \/ DropStaleBackup(w, here, q, k, reason, there)
  PROVE  IInv'
<1>1. /\ At(w, here)
      /\ Goto(w, there) \/ \E r \in Reasons : Fail(w, r)
      /\ backup' = backup \/ backup' = [backup EXCEPT ![q][k] = Absent]
      /\ UNCHANGED <<dest, index, marker, clock, left>>
  BY DEF DropBackup, DropOwnBackup, DropStaleBackup, Reasons
<1> QED
  BY <1>1, BackupsSafe

(* Removing indexes of w's own outputs. *)
LEMMA IndexesSafe ==
  ASSUME IInv, NEW w \in Procs, NEW here, NEW there, Leads(here, there, {}), At(w, here),
         Goto(w, there) \/ \E r \in Reasons : Fail(w, r),
         NEW dropped \in SUBSET (OutputsOf(Pair(w)) \cup {ThisOutput(w)}),
         index' = [o \in Outputs |-> IF o \in dropped THEN None ELSE index[o]],
         left' \in [crashes : Nat, faults : Nat, edits : Nat],
         UNCHANGED <<dest, backup, marker, clock>>
  PROVE  IInv'
<1>1. index' \in [Outputs -> Index \cup {None}] /\ IndexOwned'
  BY DEF IInv, TypeOK, IndexOwned, OutputsOf
<1>2. dropped \subseteq OutputsOf(Pair(w))
  BY LockedPair, PairOutputs DEF IInv, At, Leads, ThisOutput, ProcState
<1>3. \A x \in Outputs \ OutputsOf(Pair(w)) : index'[x] = index[x]
  BY <1>2 DEF IInv, TypeOK
<1>4. Advance(w, there) /\ Fewer
  BY <1>1, <1>3, Moves DEF Steps, Advance, Touches, Fewer, TypeOK, IInv, Leads
<1> QED
  BY <1>4, Onward

(* remove_anchored_file of one index. *)
LEMMA DropIndexSafe ==
  ASSUME IInv, NEW w \in Procs, NEW here, NEW there, Leads(here, there, {}),
         NEW o \in OutputsOf(Pair(w)) \cup {ThisOutput(w)}, DropIndex(w, here, o, there)
  PROVE  IInv'
<1>1. /\ At(w, here) /\ Goto(w, there)
      /\ index' = [index EXCEPT ![o] = None] /\ UNCHANGED <<dest, backup, marker, clock, left>>
  BY DEF DropIndex
<1>2. index' = [x \in Outputs |-> IF x \in {o} THEN None ELSE index[x]]
  BY <1>1 DEF IInv, TypeOK
<1>3. {o} \in SUBSET (OutputsOf(Pair(w)) \cup {ThisOutput(w)})
      /\ left' \in [crashes : Nat, faults : Nat, edits : Nat]
      /\ UNCHANGED <<dest, backup, marker, clock>>
  BY <1>1 DEF DropIndex, IInv, TypeOK
<1> QED
  BY <1>1, <1>2, <1>3, IndexesSafe

(* Removing a marker of a pair w works on. *)
LEMMA MarkersSafe ==
  ASSUME IInv, NEW w \in Procs, NEW here, NEW there, NEW kind \in Kinds,
         NEW q \in Theirs(w, here), Leads(here, there, IF q = Pair(w) THEN {kind} ELSE {}),
         At(w, here), Goto(w, there) \/ \E r \in Reasons : Fail(w, r),
         marker' = [marker EXCEPT ![q][kind] = None],
         left' \in [crashes : Nat, faults : Nat, edits : Nat],
         UNCHANGED <<dest, backup, index, clock>>
  PROVE  IInv'
<1>1. q \in Mine(w) \cap Pairs /\ here \in Locked /\ there \in PCs \ {"idle"}
  BY TheirsMine DEF Leads
<1>2. marker' = [marker EXCEPT ![q] = [marker[q] EXCEPT ![kind] = None]]
  OBVIOUS
<1>3. marker \in [Pairs -> [Kinds -> Marker \cup {None}]]
  BY DEF IInv, TypeOK
<1>4. /\ marker' \in [Pairs -> [Kinds -> Marker \cup {None}]]
      /\ Fewer /\ marker'[q][kind] = None
      /\ \A p \in Pairs \ Mine(w) : marker'[p] = marker[p]
  BY <1>1, <1>2, <1>3 DEF Fewer
<1>5. \A p \in Pairs : marker[p]["committed"] = None => marker'[p]["committed"] = None
  BY <1>4 DEF Fewer, Kinds
<1>6. Advance(w, there)
  BY <1>1, <1>4, <1>5, Moves DEF Steps, Advance, Touches, TypeOK, IInv, IndexOwned
<1> QED
  BY <1>4, <1>6, Onward

(* remove_anchored_file of one marker. *)
LEMMA RemoveMarkerSafe ==
  ASSUME IInv, NEW w \in Procs, NEW here, NEW there, NEW kind \in Kinds,
         NEW q \in Theirs(w, here), Leads(here, there, IF q = Pair(w) THEN {kind} ELSE {}),
         RemoveMarker(w, here, q, kind, there)
  PROVE  IInv'
BY MarkersSafe DEF RemoveMarker, IInv, TypeOK

(* transition_child_marker: the active name goes. *)
LEMMA RetireActiveSafe ==
  ASSUME IInv, NEW w \in Procs, NEW here, NEW there, Leads(here, there, {}),
         NEW q \in Theirs(w, here), NEW kind \in Kinds,
         RetireActive(w, here, q, kind, there)
  PROVE  IInv'
<1>1. At(w, here) /\ (Goto(w, there) \/ \E r \in Reasons : Fail(w, r))
  BY DEF RetireActive, Reasons
<1>2. q \in Mine(w) \cap Pairs /\ here \in Locked /\ there \in PCs \ {"idle"}
  BY <1>1, TheirsMine DEF Leads
<1>3. /\ \/ marker' = marker
         \/ marker' = [marker EXCEPT ![q] = [marker[q] EXCEPT !["active"] = None]]
      /\ UNCHANGED <<dest, backup, index, clock, left>>
  BY DEF RetireActive
<1>4. marker \in [Pairs -> [Kinds -> Marker \cup {None}]]
  BY DEF IInv, TypeOK
<1>5. /\ marker' \in [Pairs -> [Kinds -> Marker \cup {None}]]
      /\ Fewer
      /\ \A p \in Pairs \ Mine(w) : marker'[p] = marker[p]
  BY <1>2, <1>3, <1>4 DEF Fewer
<1>6. \A p \in Pairs : marker[p]["committed"] = None => marker'[p]["committed"] = None
  BY <1>5 DEF Fewer, Kinds
<1>7. Advance(w, there)
  BY <1>1, <1>2, <1>3, <1>5, <1>6, Moves DEF Steps, Advance, Touches, TypeOK, IInv, IndexOwned
<1> QED
  BY <1>1, <1>5, <1>7, Onward

(* The decision: the choice is linked only where the other was not made. *)
LEMMA LinkMarkerSafe ==
  ASSUME IInv, NEW w \in Procs, NEW here, NEW there, Leads(here, there, {}),
         NEW q \in Theirs(w, here), NEW kind \in {"committed", "rollback"},
         kind = "committed" => q = Pair(w) /\ marker[q]["rollback"] = None,
         kind = "rollback" => marker[q]["committed"] = None,
         there \notin NoActive \cup NoCommitted \cup NoRollback,
         LinkMarker(w, here, q, kind, there)
  PROVE  IInv'
<1>1. At(w, here) /\ (Goto(w, there) \/ \E r \in Reasons : Fail(w, r))
  BY DEF LinkMarker, Reasons
<1>q. q \in Mine(w) \cap Pairs /\ here \in Locked /\ there \in PCs \ {"idle"}
  BY <1>1, TheirsMine DEF Leads
<1>2. /\ \/ marker' = marker
         \/ marker' = [marker EXCEPT ![q] = [marker[q] EXCEPT ![kind] = marker[q]["active"]]]
      /\ UNCHANGED <<dest, backup, index, clock, left>>
  BY DEF LinkMarker
<1>3. marker \in [Pairs -> [Kinds -> Marker \cup {None}]]
  BY DEF IInv, TypeOK
<1>4. marker[q]["active"] \in Marker \cup {None}
  BY <1>q, <1>3 DEF Kinds
<1>5. [marker[q] EXCEPT ![kind] = marker[q]["active"]] \in [Kinds -> Marker \cup {None}]
  BY <1>q, <1>3, <1>4
<1>6. /\ marker' \in [Pairs -> [Kinds -> Marker \cup {None}]]
      /\ \A p \in Pairs \ {q} : marker'[p] = marker[p]
      /\ \A k \in Kinds \ {kind} : marker'[q][k] = marker[q][k]
  BY <1>q, <1>2, <1>3, <1>5
<1>7. Advance(w, there)
  <2>1. \A p \in Pairs \ {Pair(w)} :
          marker[p]["committed"] = None => marker'[p]["committed"] = None
    BY <1>q, <1>6 DEF Kinds
  <2> QED
    BY <1>q, <1>1, <1>2, <1>6, <2>1, Moves DEF Steps, Advance, Touches, TypeOK, IInv, IndexOwned
<1>8. OneDecision'
  BY <1>q, <1>6 DEF IInv, OneDecision, Kinds
<1>9. ASSUME GoesOn(w, there) PROVE Local(w)'
  <2>1. proc[w] \in ProcState /\ proc[w].pc = here
    BY <1>1 DEF IInv, TypeOK, At
  <2>2. /\ proc'[w].pc = there /\ proc'[w].pair = Pair(w) /\ proc'[w].idx = proc[w].idx
        /\ proc'[w].role = proc[w].role
    BY <1>9 DEF GoesOn
  <2>3. OwnMarks(w)' /\ ReadMarks(w)' /\ Unsealed(w)'
    BY <2>2 DEF OwnMarks, ReadMarks, Unsealed, Leads
  <2>4. IndexRead(w)'
    BY <2>1, <2>2 DEF IInv, Local, IndexRead, ThisOutput, IdxPair, Pair, Leads
  <2> QED
    BY <2>3, <2>4 DEF Local
<1>10. proc'[w].pc = "failed" => Local(w)'
  BY LocksNeeded, Elsewhere DEF Locked, Recovering, PairCleanup, Publishing, Unwinding, Deciding
<1> QED
  BY <1>q, <1>1, <1>7, <1>8, <1>9, <1>10, SafeStep DEF At, Advance, Goes, GoesOn

-----------------------------------------------------------------------------
(* The steps of the actions: where each leads, and the lemma it needs. *)

(* A process may work on its own pair anywhere. *)
LEMMA OwnPair == \A w \in Procs : \A here : Pair(w) \in Theirs(w, here)
BY DEF Theirs

(* Its own pair is its own pair: the marker removed is one it needs gone. *)
LEMMA OneMarker == \A w \in Procs : \A kind : (IF Pair(w) = Pair(w) THEN {kind} ELSE {}) = {kind}
OBVIOUS

(* Both outputs of its pair are its own. *)
LEMMA OwnOutputs ==
  \A w \in Procs : /\ SummaryOf[Pair(w)] \in OutputsOf(Pair(w))
                   /\ ReportOf[Pair(w)] \in OutputsOf(Pair(w))
BY DEF OutputsOf

(* Every step of rollback_anchored. *)
LEMMA RollBackSafe ==
  ASSUME IInv, NEW w \in Procs, RollBack(w)
  PROVE  IInv'
<1>1. /\ Leads("r_link", "r_retire", {}) /\ Leads("r_retire", "r_restoreS", {})
      /\ Leads("r_restoreS", "r_restoreR", {}) /\ Leads("r_restoreR", "r_indexS", {})
      /\ Leads("r_indexS", "r_indexR", {}) /\ Leads("r_indexR", "r_dropS", {})
      /\ Leads("r_dropS", "r_dropR", {}) /\ Leads("r_dropR", "r_rm", {})
      /\ Leads("r_rm", "failed", {"rollback"})
      /\ "r_retire" \notin NoActive \cup NoCommitted \cup NoRollback
      /\ "r_link" \in NoCommitted
  BY DEF Leads, PCs, Locked, Recovering, PairCleanup, Publishing, Unwinding, Deciding,
         NoActive, NoCommitted, NoRollback, Unmarked, Replacing, WithIndex
<1>2. CASE LinkMarker(w, "r_link", Pair(w), "rollback", "r_retire")
  <2>1. marker[Pair(w)]["committed"] = None
    BY <1>1, <1>2 DEF LinkMarker, At, IInv, Local, OwnMarks
  <2> QED
    BY <1>1, <1>2, <2>1, OwnPair, LinkMarkerSafe
<1>3. CASE RetireActive(w, "r_retire", Pair(w), "rollback", "r_restoreS")
  BY <1>1, <1>3, OwnPair, RetireActiveSafe DEF Kinds
<1>4. CASE Restore(w, "r_restoreS", Pair(w), "summary", Previous(w)["summary"], "r_restoreR")
  BY <1>1, <1>4, OwnPair, RestoreSafe DEF Roles
<1>5. CASE Restore(w, "r_restoreR", Pair(w), "report", Previous(w)["report"], "r_indexS")
  BY <1>1, <1>5, OwnPair, RestoreSafe DEF Roles
<1>6. CASE DropIndex(w, "r_indexS", SummaryOf[Pair(w)], "r_indexR")
  BY <1>1, <1>6, OwnOutputs, DropIndexSafe
<1>7. CASE DropIndex(w, "r_indexR", ReportOf[Pair(w)], "r_dropS")
  BY <1>1, <1>7, OwnOutputs, DropIndexSafe
<1>8. CASE DropBackup(w, "r_dropS", Pair(w), "summary", "r_dropR")
  BY <1>1, <1>8, OwnPair, DropBackupSafe DEF Roles, Reasons
<1>9. CASE DropBackup(w, "r_dropR", Pair(w), "report", "r_rm")
  BY <1>1, <1>9, OwnPair, DropBackupSafe DEF Roles, Reasons
<1>10. CASE /\ At(w, "r_rm")
            /\ marker' = [marker EXCEPT ![Pair(w)]["rollback"] = None]
            /\ Fail(w, "rolledBack")
            /\ UNCHANGED <<dest, backup, index, clock, left>>
  BY <1>1, <1>10, OwnPair, OneMarker, MarkersSafe DEF Kinds, Reasons, IInv, TypeOK
<1> QED
  BY <1>2, <1>3, <1>4, <1>5, <1>6, <1>7, <1>8, <1>9, <1>10 DEF RollBack

(* A process that ends, however it does, is out of everybody's way. *)
LEMMA ResetSafe ==
  ASSUME IInv, NEW w \in Procs, proc' = [proc EXCEPT ![w] = IdleProc],
         left' \in [crashes : Nat, faults : Nat, edits : Nat], UNCHANGED <<files, clock>>
  PROVE  IInv'
<1>1. /\ proc' \in [Procs -> ProcState]
      /\ \A v \in Procs \ {w} : proc'[v] = proc[v]
      /\ proc'[w].pc = "idle" /\ proc'[w].pair = None
  BY IdleType DEF IInv, TypeOK, IdleProc
<1>2. TypeOK' /\ IndexOwned' /\ OneDecision'
  BY <1>1 DEF IInv, TypeOK, IndexOwned, OneDecision, files
<1>3. "idle" \notin Locked
  BY DEF Locked, Recovering, PairCleanup, Publishing, Unwinding, Deciding
<1>4. Exclusive'
  BY <1>1, <1>3 DEF IInv, Exclusive, Pair
<1>5. ASSUME NEW v \in Procs PROVE Local(v)'
  <2>1. CASE v = w
    BY <1>1, <1>3, <2>1, LocksNeeded DEF Local, OwnMarks, IndexRead, ReadMarks, Unsealed
  <2>2. CASE v # w
    BY <1>1, <2>2 DEF IInv, Local, OwnMarks, IndexRead, ReadMarks, Unsealed, files,
                      ThisOutput, IdxPair, Pair
  <2> QED
    BY <2>1, <2>2
<1> QED
  BY <1>2, <1>4, <1>5 DEF IInv

(* Every step of with_rollback and of the index removal after it. *)
LEMMA UnwindSafe ==
  ASSUME IInv, NEW w \in Procs, Unwind(w)
  PROVE  IInv'
<1>1. /\ Leads("u1_restore", "u1_drop", {}) /\ Leads("u1_drop", "failed", {})
      /\ Leads("u_restoreS", "u_restoreR", {}) /\ Leads("u_restoreR", "u_dropS", {})
      /\ Leads("u_dropS", "u_dropR", {}) /\ Leads("u_dropR", "u_indexS", {})
      /\ Leads("u_indexS", "u_indexR", {}) /\ Leads("u_indexR", "failed", {})
  BY DEF Leads, PCs, Locked, Recovering, PairCleanup, Publishing, Unwinding, Deciding,
         NoActive, NoCommitted, NoRollback, Unmarked, Replacing, WithIndex
<1>2. CASE Restore(w, "u1_restore", Pair(w), "summary", Previous(w)["summary"], "u1_drop")
  BY <1>1, <1>2, OwnPair, RestoreSafe DEF Roles
<1>3. CASE /\ At(w, "u1_drop")
           /\ backup' = [backup EXCEPT ![Pair(w)]["summary"] = Absent]
           /\ Fail(w, "notBegun")
           /\ UNCHANGED <<dest, index, marker, clock, left>>
  BY <1>1, <1>3, OwnPair, BackupsSafe DEF Roles, Reasons
<1>4. CASE Restore(w, "u_restoreS", Pair(w), "summary", Previous(w)["summary"], "u_restoreR")
  BY <1>1, <1>4, OwnPair, RestoreSafe DEF Roles
<1>5. CASE Restore(w, "u_restoreR", Pair(w), "report", Previous(w)["report"], "u_dropS")
  BY <1>1, <1>5, OwnPair, RestoreSafe DEF Roles
<1>6. CASE DropBackup(w, "u_dropS", Pair(w), "summary", "u_dropR")
  BY <1>1, <1>6, OwnPair, DropBackupSafe DEF Roles, Reasons
<1>7. CASE DropBackup(w, "u_dropR", Pair(w), "report", "u_indexS")
  BY <1>1, <1>7, OwnPair, DropBackupSafe DEF Roles, Reasons
<1>8. CASE DropIndex(w, "u_indexS", SummaryOf[Pair(w)], "u_indexR")
  BY <1>1, <1>8, OwnOutputs, DropIndexSafe
<1>9. CASE /\ At(w, "u_indexR")
           /\ index' = [index EXCEPT ![ReportOf[Pair(w)]] = None]
           /\ Fail(w, "notBegun")
           /\ UNCHANGED <<dest, backup, marker, clock, left>>
  <2>1. index' = [x \in Outputs |-> IF x \in {ReportOf[Pair(w)]} THEN None ELSE index[x]]
    BY <1>9 DEF IInv, TypeOK
  <2>2. {ReportOf[Pair(w)]} \in SUBSET (OutputsOf(Pair(w)) \cup {ThisOutput(w)})
        /\ left' \in [crashes : Nat, faults : Nat, edits : Nat]
    BY <1>9, OwnOutputs DEF IInv, TypeOK
  <2> QED
    BY <1>1, <1>9, <2>1, <2>2, IndexesSafe DEF Reasons
<1> QED
  BY <1>2, <1>3, <1>4, <1>5, <1>6, <1>7, <1>8, <1>9 DEF Unwind

(* The end of commit_anchored: success, or the error of an abort. *)
LEMMA FinishSafe ==
  ASSUME IInv, NEW w \in Procs, Finish(w)
  PROVE  IInv'
<1>1. CASE Fail(w, "preserved")
  <2>1. Leads("c_done", "failed", {}) /\ At(w, "c_done")
    BY DEF Finish, Leads, PCs, Locked, Deciding, NoActive, NoCommitted, NoRollback,
           Unmarked, Replacing, WithIndex, Recovering
  <2> QED
    BY <1>1, <2>1, LookSafe DEF Finish, files, Reasons, IInv, TypeOK
<1>2. CASE proc' = [proc EXCEPT ![w] = IdleProc]
  BY <1>2, ResetSafe DEF Finish, files, IInv, TypeOK
<1> QED
  BY <1>1, <1>2 DEF Finish

(* Every step of commit_anchored: the pair is not marked for roll-back. *)
LEMMA CommitSafe ==
  ASSUME IInv, NEW w \in Procs, Commit(w)
  PROVE  IInv'
<1>1. /\ Leads("c_link", "c_retire", {}) /\ Leads("c_retire", "c_dropS", {})
      /\ Leads("c_dropS", "c_dropR", {}) /\ Leads("c_dropR", "c_indexS", {})
      /\ Leads("c_indexS", "c_indexR", {}) /\ Leads("c_indexR", "c_rm", {})
      /\ Leads("c_rm", "c_done", {"committed"})
      /\ "c_retire" \notin NoActive \cup NoCommitted \cup NoRollback
      /\ "c_link" \in NoRollback
  BY DEF Leads, PCs, Locked, Recovering, PairCleanup, Publishing, Unwinding, Deciding,
         NoActive, NoCommitted, NoRollback, Unmarked, Replacing, WithIndex
<1>2. CASE LinkMarker(w, "c_link", Pair(w), "committed", "c_retire")
  <2>1. marker[Pair(w)]["rollback"] = None
    BY <1>1, <1>2 DEF LinkMarker, At, IInv, Local, OwnMarks
  <2> QED
    BY <1>1, <1>2, <2>1, OwnPair, LinkMarkerSafe
<1>3. CASE RetireActive(w, "c_retire", Pair(w), "committed", "c_dropS")
  BY <1>1, <1>3, OwnPair, RetireActiveSafe DEF Kinds
<1>4. CASE DropBackup(w, "c_dropS", Pair(w), "summary", "c_dropR")
  BY <1>1, <1>4, OwnPair, DropBackupSafe DEF Roles, Reasons
<1>5. CASE DropBackup(w, "c_dropR", Pair(w), "report", "c_indexS")
  BY <1>1, <1>5, OwnPair, DropBackupSafe DEF Roles, Reasons
<1>6. CASE DropIndex(w, "c_indexS", SummaryOf[Pair(w)], "c_indexR")
  BY <1>1, <1>6, OwnOutputs, DropIndexSafe
<1>7. CASE DropIndex(w, "c_indexR", ReportOf[Pair(w)], "c_rm")
  BY <1>1, <1>7, OwnOutputs, DropIndexSafe
<1>8. CASE RemoveMarker(w, "c_rm", Pair(w), "committed", "c_done")
  BY <1>1, <1>8, OwnPair, OneMarker, RemoveMarkerSafe DEF Kinds
<1>9. CASE Finish(w)
  BY <1>1, <1>9, FinishSafe
<1> QED
  BY <1>2, <1>3, <1>4, <1>5, <1>6, <1>7, <1>8, <1>9 DEF Commit

(* StagedOutput::publish renames the staged file over the output. *)
LEMMA PutSafe ==
  ASSUME IInv, NEW w \in Procs, NEW here, NEW there, Leads(here, there, {}),
         NEW k \in Roles, Put(w, here, k, there)
  PROVE  IInv'
<1>1. At(w, here) /\ Goto(w, there) /\ UNCHANGED <<backup, index, marker, clock, left>>
  BY DEF Put
<1>2. dest' \in [Outputs -> Nat]
  BY <1>1, LockedPair, PairOutputs DEF Put, Output, IInv, TypeOK, At, Leads, ProcState
<1> QED
  BY <1>1, <1>2, LookSafe DEF IInv, TypeOK

(* verify_destination_unchanged goes on, or aborts like a commit. *)
LEMMA VerifySafe ==
  ASSUME IInv, NEW w \in Procs, NEW here, NEW there, NEW roles,
         Leads(here, there, {}), Leads(here, "c_link", {}), Verify(w, here, roles, there)
  PROVE  IInv'
<1>1. CASE Goto(w, there)
  BY <1>1, LookSafe DEF Verify, files, IInv, TypeOK
<1>2. CASE proc' = [proc EXCEPT ![w].pc = "c_link", ![w].aborting = TRUE]
  <2>1. proc[w] \in ProcState /\ Pair(w) \in Pairs /\ proc[w].pc = here /\ here \in Locked
    BY LockedPair DEF Verify, At, Leads, IInv
  <2>2. proc' = [proc EXCEPT ![w] = [proc[w] EXCEPT !.pc = "c_link", !.aborting = TRUE]]
    BY <1>2
  <2>3. Steps(w, "c_link") /\ UNCHANGED <<files, clock, left>>
    <3>1. [proc[w] EXCEPT !.pc = "c_link", !.aborting = TRUE] \in ProcState
      BY <2>1 DEF ProcState, PCs, Locked, Deciding
    <3> QED
      BY <2>1, <2>2, <3>1, NoneAssumption
      DEF Steps, Goes, GoesOn, Pair, IInv, TypeOK, ProcState, Verify
  <2>4. Advance(w, "c_link") /\ Fewer
    BY <2>3 DEF Steps, Advance, Touches, Fewer, TypeOK, IInv, IndexOwned, files
  <2> QED
    BY <2>4, Onward DEF Verify
<1> QED
  BY <1>1, <1>2 DEF Verify

(* Every step of publish_pair_with_hooks up to the decision. *)
LEMMA ReplaceSafe ==
  ASSUME IInv, NEW w \in Procs, Replace(w)
  PROVE  IInv'
<1>1. /\ Leads("verify", "putS", {}) /\ Leads("verify", "c_link", {})
      /\ Leads("putS", "verifyR", {}) /\ Leads("verifyR", "putR", {})
      /\ Leads("verifyR", "c_link", {}) /\ Leads("putR", "settle", {})
      /\ Leads("settle", "c_link", {})
  BY DEF Leads, PCs, Locked, Recovering, PairCleanup, Publishing, Unwinding, Deciding,
         NoActive, NoCommitted, NoRollback, Unmarked, Replacing, WithIndex
<1>2. CASE Verify(w, "verify", Roles, "putS")
  BY <1>1, <1>2, VerifySafe
<1>3. CASE Put(w, "putS", "summary", "verifyR")
  BY <1>1, <1>3, PutSafe DEF Roles
<1>4. CASE Verify(w, "verifyR", {"report"}, "putR")
  BY <1>1, <1>4, VerifySafe
<1>5. CASE Put(w, "putR", "report", "settle")
  BY <1>1, <1>5, PutSafe DEF Roles
<1>6. CASE Settle(w)
  BY <1>1, <1>6, LookSafe DEF Settle, files, IInv, TypeOK
<1> QED
  BY <1>2, <1>3, <1>4, <1>5, <1>6 DEF Replace

(* recover_pair, of a pair marked for roll-back. *)
LEMMA ForgetRolledBackSafe ==
  ASSUME IInv, NEW w \in Procs, ForgetRolledBack(w)
  PROVE  IInv'
<1>1. /\ Leads("pr_dropS", "pr_dropR", {}) /\ Leads("pr_dropR", "pr_rmActive", {})
      /\ Leads("pr_rmActive", "pr_rmRollback", {"active"}) /\ Leads("pr_rmRollback", "p_leave", {"rollback"})
  BY DEF Leads, PCs, Locked, Recovering, PairCleanup, Publishing, Unwinding, Deciding,
         NoActive, NoCommitted, NoRollback, Unmarked, Replacing, WithIndex
<1>2. CASE DropBackup(w, "pr_dropS", Pair(w), "summary", "pr_dropR")
  BY <1>1, <1>2, OwnPair, DropBackupSafe DEF Roles, Reasons
<1>3. CASE DropBackup(w, "pr_dropR", Pair(w), "report", "pr_rmActive")
  BY <1>1, <1>3, OwnPair, DropBackupSafe DEF Roles, Reasons
<1>4. CASE RemoveMarker(w, "pr_rmActive", Pair(w), "active", "pr_rmRollback")
  BY <1>1, <1>4, OwnPair, OneMarker, RemoveMarkerSafe DEF Kinds
<1>5. CASE RemoveMarker(w, "pr_rmRollback", Pair(w), "rollback", "p_leave")
  BY <1>1, <1>5, OwnPair, OneMarker, RemoveMarkerSafe DEF Kinds
<1> QED
  BY <1>2, <1>3, <1>4, <1>5 DEF ForgetRolledBack

(* recover_pair, of a pair marked active only. *)
LEMMA RestoreMarkedSafe ==
  ASSUME IInv, NEW w \in Procs, RestoreMarked(w)
  PROVE  IInv'
<1>1. /\ Leads("pa_check", "pa_restoreS", {}) /\ Leads("pa_restoreS", "pa_restoreR", {})
      /\ Leads("pa_restoreR", "pa_rmActive", {}) /\ Leads("pa_rmActive", "pa_dropS", {"active"})
      /\ Leads("pa_dropS", "pa_dropR", {}) /\ Leads("pa_dropR", "p_leave", {})
  BY DEF Leads, PCs, Locked, Recovering, PairCleanup, Publishing, Unwinding, Deciding,
         NoActive, NoCommitted, NoRollback, Unmarked, Replacing, WithIndex
<1>2. CASE /\ At(w, "pa_check")
           /\ Goto(w, "pa_restoreS") \/ Fail(w, "missingBackup")
           /\ UNCHANGED <<files, clock, left>>
  BY <1>1, <1>2, LookSafe DEF files, Reasons, IInv, TypeOK
<1>3. CASE \E prev : Restore(w, "pa_restoreS", Pair(w), "summary", prev, "pa_restoreR")
  BY <1>1, <1>3, OwnPair, RestoreSafe DEF Roles
<1>4. CASE \E prev : Restore(w, "pa_restoreR", Pair(w), "report", prev, "pa_rmActive")
  BY <1>1, <1>4, OwnPair, RestoreSafe DEF Roles
<1>5. CASE RemoveMarker(w, "pa_rmActive", Pair(w), "active", "pa_dropS")
  BY <1>1, <1>5, OwnPair, OneMarker, RemoveMarkerSafe DEF Kinds
<1>6. CASE DropBackup(w, "pa_dropS", Pair(w), "summary", "pa_dropR")
  BY <1>1, <1>6, OwnPair, DropBackupSafe DEF Roles, Reasons
<1>7. CASE DropBackup(w, "pa_dropR", Pair(w), "report", "p_leave")
  BY <1>1, <1>7, OwnPair, DropBackupSafe DEF Roles, Reasons
<1> QED
  BY <1>2, <1>3, <1>4, <1>5, <1>6, <1>7 DEF RestoreMarked

(* recover_pair, of a committed pair. *)
LEMMA ForgetCommittedSafe ==
  ASSUME IInv, NEW w \in Procs, ForgetCommitted(w)
  PROVE  IInv'
<1>1. /\ Leads("pc_dropS", "pc_dropR", {}) /\ Leads("pc_dropR", "pc_rmActive", {})
      /\ Leads("pc_rmActive", "pc_rmCommitted", {"active"}) /\ Leads("pc_rmCommitted", "p_leave", {"committed"})
  BY DEF Leads, PCs, Locked, Recovering, PairCleanup, Publishing, Unwinding, Deciding,
         NoActive, NoCommitted, NoRollback, Unmarked, Replacing, WithIndex
<1>2. CASE \E prev : DropOwnBackup(w, "pc_dropS", Pair(w), "summary", prev, "pc_dropR")
  BY <1>1, <1>2, OwnPair, DropBackupSafe DEF Roles, Reasons
<1>3. CASE \E prev : DropOwnBackup(w, "pc_dropR", Pair(w), "report", prev, "pc_rmActive")
  BY <1>1, <1>3, OwnPair, DropBackupSafe DEF Roles, Reasons
<1>4. CASE RemoveMarker(w, "pc_rmActive", Pair(w), "active", "pc_rmCommitted")
  BY <1>1, <1>4, OwnPair, OneMarker, RemoveMarkerSafe DEF Kinds
<1>5. CASE RemoveMarker(w, "pc_rmCommitted", Pair(w), "committed", "p_leave")
  BY <1>1, <1>5, OwnPair, OneMarker, RemoveMarkerSafe DEF Kinds
<1> QED
  BY <1>2, <1>3, <1>4, <1>5 DEF ForgetCommitted

(* recover_pair, of an unmarked pair. *)
LEMMA SweepUnmarkedSafe ==
  ASSUME IInv, NEW w \in Procs, SweepUnmarked(w)
  PROVE  IInv'
<1>1. /\ Leads("pu_dropS", "pu_dropR", {}) /\ Leads("pu_dropR", "p_leave", {})
  BY DEF Leads, PCs, Locked, Recovering, PairCleanup, Publishing, Unwinding, Deciding,
         NoActive, NoCommitted, NoRollback, Unmarked, Replacing, WithIndex
<1>2. CASE DropStaleBackup(w, "pu_dropS", Pair(w), "summary", "unownedBackup", "pu_dropR")
  BY <1>1, <1>2, OwnPair, DropBackupSafe DEF Roles, Reasons
<1>3. CASE DropStaleBackup(w, "pu_dropR", Pair(w), "report", "unownedBackup", "p_leave")
  BY <1>1, <1>3, OwnPair, DropBackupSafe DEF Roles, Reasons
<1> QED
  BY <1>2, <1>3 DEF SweepUnmarked

-----------------------------------------------------------------------------
(* begin_anchored: from here on the journal of the pair is written. *)

(* capture_anchored links the present output to the backup. *)
LEMMA CaptureSafe ==
  ASSUME IInv, NEW w \in Procs, NEW here, NEW there, Leads(here, there, {}),
         NEW k \in Roles, Capture(w, here, k, there)
  PROVE  IInv'
<1> DEFINE o == Output(Pair(w), k)
           seen == [proc[w].seen EXCEPT ![k] = dest[o]]
<1>1. proc[w] \in ProcState /\ Pair(w) \in Pairs /\ proc[w].pc = here /\ here \in Locked
      /\ there \in PCs \ {"idle"}
  BY LockedPair DEF Capture, At, Leads, IInv
<1>2. o \in Outputs /\ dest[o] \in Nat
  BY <1>1, PairOutputs DEF IInv, TypeOK
<1>3. backup' = [backup EXCEPT ![Pair(w)] = [backup[Pair(w)] EXCEPT ![k] = dest[o]]]
  BY DEF Capture
<1>4. backup' \in [Pairs -> [Roles -> Nat]]
  <2>1. backup \in [Pairs -> [Roles -> Nat]]
    BY DEF IInv, TypeOK
  <2>2. [backup[Pair(w)] EXCEPT ![k] = dest[o]] \in [Roles -> Nat]
    BY <1>1, <1>2, <2>1
  <2> QED
    BY <1>1, <1>3, <2>1, <2>2
<1>5. proc' = [proc EXCEPT ![w] = [proc[w] EXCEPT !.pc = there, !.seen = seen]]
  BY DEF Capture
<1>6. seen \in [Roles -> Nat]
  BY <1>1, <1>2 DEF ProcState
<1>7. [proc[w] EXCEPT !.pc = there, !.seen = seen] \in ProcState
  BY <1>1, <1>6 DEF ProcState
<1>8. Steps(w, there)
  BY <1>1, <1>5, <1>7, NoneAssumption DEF Steps, Goes, GoesOn, Pair, IInv, TypeOK, ProcState
<1>9. Advance(w, there) /\ Fewer
  BY <1>4, <1>8 DEF Capture, Steps, Advance, Touches, Fewer, TypeOK, IInv, IndexOwned
<1> QED
  BY <1>1, <1>9, Onward DEF At

(* Whether an output existed when it was captured is a truth value. *)
LEMMA PreviousType == \A w \in Procs : Previous(w) \in [Roles -> BOOLEAN]
<1>1. ASSUME NEW w \in Procs, NEW k \in Roles PROVE (proc[w].seen[k] # Absent) \in BOOLEAN
  BY Zenon
<1> QED
  BY <1>1, Zenon DEF Previous

(* The index appears beside an output of the pair. *)
LEMMA PublishIndexSafe ==
  ASSUME IInv, NEW w \in Procs, NEW here, NEW there, NEW k \in Roles,
         \/ here = "indexS" /\ there = "sealS" /\ k = "summary"
         \/ here = "indexR" /\ there = "sealR" /\ k = "report",
         PublishIndex(w, here, k, there)
  PROVE  IInv'
<1> DEFINE o == Output(Pair(w), k)
           i == [pair |-> Pair(w), prev |-> Previous(w)[k], temp |-> TRUE]
<1>1. /\ here \in Locked /\ there \in PCs \ {"idle"} /\ there \notin WithIndex
      /\ here \in Unmarked /\ here \in NoActive \cap NoCommitted \cap NoRollback
  BY DEF Locked, PCs, Publishing, Unmarked, NoActive, NoCommitted, NoRollback, WithIndex, Recovering
<1>2. proc[w] \in ProcState /\ Pair(w) \in Pairs /\ proc[w].pc = here
  BY <1>1, LockedPair DEF PublishIndex, At, IInv
<1>3. i \in Index /\ i # None /\ i.pair = Pair(w)
  <2>1. Previous(w)[k] \in BOOLEAN
    BY PreviousType
  <2>2. i \in Index /\ i.pair = Pair(w)
    BY <1>2, <2>1 DEF Index
  <2> QED
    BY <2>2, NoneAssumption
<1>4. o \in OutputsOf(Pair(w)) /\ o \in Outputs
  BY <1>2, PairOutputs
<1>5. index' = [index EXCEPT ![o] = i] /\ UNCHANGED <<dest, backup, marker, clock, left>>
  BY DEF PublishIndex
<1>6. index' \in [Outputs -> Index \cup {None}] /\ IndexOwned' /\ index'[o] # None
      /\ \A x \in Outputs \ OutputsOf(Pair(w)) : index'[x] = index[x]
  BY <1>3, <1>4, <1>5 DEF IInv, TypeOK, IndexOwned
<1>7. Steps(w, there)
  BY <1>1, <1>2, Moves DEF PublishIndex
<1>8. TypeOK' /\ Touches(w) /\ OneDecision'
  BY <1>5, <1>6, <1>7 DEF Steps, Touches, TypeOK, IInv, OneDecision
<1>9. proc'[w].pair = Pair(w) /\ Local(w)'
  <2>1. CASE proc'[w].pc = "failed"
    BY <1>7, <2>1, LocksNeeded, Elsewhere
    DEF Steps, Goes, GoesOn, Locked, Recovering, PairCleanup, Publishing, Unwinding, Deciding
  <2>2. CASE GoesOn(w, there)
    <3>1. OwnMarks(w)'
      BY <1>1, <1>2, <1>5, <2>2 DEF GoesOn, IInv, Local, OwnMarks, Pair
    <3>2. Unsealed(w)'
      BY <1>6, <2>2 DEF GoesOn, Unsealed, Output, Pair
    <3>3. IndexRead(w)' /\ ReadMarks(w)'
      BY <1>1, <2>2 DEF GoesOn, IndexRead, ReadMarks, WithIndex
    <3> QED
      BY <2>2, <3>1, <3>2, <3>3 DEF Local, GoesOn
  <2> QED
    BY <1>7, <2>1, <2>2 DEF Steps, Goes
<1> QED
  BY <1>1, <1>2, <1>6, <1>8, <1>9, SafeStep

(* The temporary name of an index goes. *)
LEMMA SealIndexSafe ==
  ASSUME IInv, NEW w \in Procs, NEW here, NEW there, Leads(here, there, {}), NEW k \in Roles,
         (here = "sealS" /\ k = "summary") \/ (here = "sealR" /\ k = "report"),
         SealIndex(w, here, k, there)
  PROVE  IInv'
<1> DEFINE o == Output(Pair(w), k)
<1>1. proc[w] \in ProcState /\ Pair(w) \in Pairs /\ proc[w].pc = here /\ here \in Locked
      /\ there \in PCs \ {"idle"}
  BY LockedPair DEF SealIndex, At, Leads, IInv
<1>2. o \in OutputsOf(Pair(w)) /\ o \in Outputs
  BY <1>1, PairOutputs
<1>3. index[o] \in Index
  BY <1>1, <1>2 DEF IInv, TypeOK, Local, Unsealed, Output
<1>4. index' = [index EXCEPT ![o] = [index[o] EXCEPT !.temp = FALSE]]
      /\ UNCHANGED <<dest, backup, marker, clock, left>>
  BY DEF SealIndex
<1>5. [index[o] EXCEPT !.temp = FALSE] \in Index
      /\ [index[o] EXCEPT !.temp = FALSE].pair = index[o].pair
  BY <1>3 DEF Index
<1>6. index' \in [Outputs -> Index \cup {None}] /\ IndexOwned'
      /\ \A x \in Outputs \ OutputsOf(Pair(w)) : index'[x] = index[x]
  BY <1>2, <1>3, <1>4, <1>5, NoneAssumption DEF IInv, TypeOK, IndexOwned
<1>7. Steps(w, there)
  BY <1>1, Moves DEF SealIndex
<1>8. Advance(w, there) /\ Fewer
  BY <1>4, <1>6, <1>7 DEF Steps, Advance, Touches, Fewer, TypeOK, IInv
<1> QED
  BY <1>1, <1>8, Onward DEF At

(* The active marker appears: its transaction is undecided. *)
LEMMA PublishMarkerSafe ==
  ASSUME IInv, NEW w \in Procs, PublishMarker(w)
  PROVE  IInv'
<1> DEFINE m == [txn |-> proc[w].txn, prev |-> Previous(w), temp |-> TRUE]
<1>1. /\ "mark" \in Locked \cap NoActive \cap NoCommitted \cap NoRollback
      /\ "sealMark" \in PCs \ ({"idle"} \cup NoActive \cup WithIndex)
  BY DEF Locked, PCs, Publishing, Unmarked, Replacing, NoActive, NoCommitted, NoRollback,
         WithIndex, Recovering
<1>2. proc[w] \in ProcState /\ Pair(w) \in Pairs /\ proc[w].pc = "mark"
  BY <1>1, LockedPair DEF PublishMarker, At, IInv
<1>3. m \in Marker /\ m # None
  <2>1. m \in Marker
    BY <1>2, PreviousType DEF Marker, Prevs, ProcState
  <2> QED
    BY <2>1, NoneAssumption
<1>4. /\ marker' = [marker EXCEPT ![Pair(w)] = [marker[Pair(w)] EXCEPT !["active"] = m]]
      /\ UNCHANGED <<dest, backup, index, clock, left>>
  BY DEF PublishMarker
<1>5. marker \in [Pairs -> [Kinds -> Marker \cup {None}]]
  BY DEF IInv, TypeOK
<1>6. [marker[Pair(w)] EXCEPT !["active"] = m] \in [Kinds -> Marker \cup {None}]
  BY <1>2, <1>3, <1>5
<1>7. /\ marker' \in [Pairs -> [Kinds -> Marker \cup {None}]]
      /\ \A p \in Pairs \ {Pair(w)} : marker'[p] = marker[p]
      /\ \A k \in {"committed", "rollback"} : marker'[Pair(w)][k] = marker[Pair(w)][k]
      /\ marker'[Pair(w)]["active"] = m
  BY <1>2, <1>4, <1>5, <1>6 DEF Kinds
<1>8. Steps(w, "sealMark")
  BY <1>1, <1>2, Moves DEF PublishMarker
<1>9. TypeOK' /\ IndexOwned' /\ Touches(w) /\ OneDecision'
  BY <1>4, <1>7, <1>8 DEF Steps, Touches, Mine, TypeOK, IInv, IndexOwned, OneDecision
<1>10. proc'[w].pair = Pair(w) /\ Local(w)'
  <2>1. CASE proc'[w].pc = "failed"
    BY <1>8, <2>1, LocksNeeded, Elsewhere
    DEF Steps, Goes, GoesOn, Locked, Recovering, PairCleanup, Publishing, Unwinding, Deciding
  <2>2. CASE GoesOn(w, "sealMark")
    <3>1. OwnMarks(w)'
      BY <1>1, <1>2, <1>7, <2>2 DEF GoesOn, IInv, Local, OwnMarks, Pair
    <3>2. Unsealed(w)'
      BY <1>3, <1>7, <2>2 DEF GoesOn, Unsealed, Pair
    <3>3. IndexRead(w)' /\ ReadMarks(w)'
      BY <1>1, <2>2 DEF GoesOn, IndexRead, ReadMarks, WithIndex
    <3> QED
      BY <2>2, <3>1, <3>2, <3>3 DEF Local, GoesOn
  <2> QED
    BY <1>8, <2>1, <2>2 DEF Steps, Goes
<1> QED
  BY <1>1, <1>2, <1>9, <1>10, SafeStep

(* The temporary name of the active marker goes, or it stays. *)
LEMMA MarkerNameSafe ==
  ASSUME IInv, NEW w \in Procs, NEW there, Leads("sealMark", there, {}),
         At(w, "sealMark"), Goto(w, there), UNCHANGED <<dest, backup, index, clock>>,
         left' \in [crashes : Nat, faults : Nat, edits : Nat], NEW t \in BOOLEAN,
         marker' = [marker EXCEPT ![Pair(w)]["active"] = [@ EXCEPT !.temp = t]]
  PROVE  IInv'
<1>1. proc[w] \in ProcState /\ Pair(w) \in Pairs /\ proc[w].pc = "sealMark"
      /\ "sealMark" \in Locked /\ there \in PCs \ {"idle"}
  BY LockedPair DEF At, Leads, IInv
<1>2. marker \in [Pairs -> [Kinds -> Marker \cup {None}]]
  BY DEF IInv, TypeOK
<1>3. marker[Pair(w)]["active"] \in Marker
  BY <1>1, <1>2 DEF Kinds, IInv, Local, Unsealed
<1>4. [marker[Pair(w)]["active"] EXCEPT !.temp = t] \in Marker
  BY <1>3 DEF Marker
<1>5. /\ marker' = [marker EXCEPT ![Pair(w)] = [marker[Pair(w)] EXCEPT
                      !["active"] = [marker[Pair(w)]["active"] EXCEPT !.temp = t]]]
      /\ UNCHANGED <<dest, backup, index, clock>>
  OBVIOUS
<1>6. /\ marker' \in [Pairs -> [Kinds -> Marker \cup {None}]]
      /\ \A p \in Pairs \ {Pair(w)} : marker'[p] = marker[p]
      /\ \A k \in Kinds \ {"active"} : marker'[Pair(w)][k] = marker[Pair(w)][k]
  <2> DEFINE m == [marker[Pair(w)]["active"] EXCEPT !.temp = t]
  <2>1. m \in Marker /\ marker' = [marker EXCEPT ![Pair(w)] = [marker[Pair(w)] EXCEPT !["active"] = m]]
    BY <1>4, <1>5
  <2> HIDE DEF m
  <2> QED
    BY <1>1, <1>2, <2>1 DEF Kinds
<1>7. Fewer
  BY <1>3, <1>6, NoneAssumption DEF Fewer
<1>8. Steps(w, there)
  BY <1>1, Moves
<1>9. Advance(w, there)
  BY <1>5, <1>6, <1>8 DEF Steps, Advance, Touches, Mine, TypeOK, IInv, IndexOwned
<1> QED
  BY <1>1, <1>7, <1>9, Onward

(* Every step of begin_anchored. *)
LEMMA BeginSafe ==
  ASSUME IInv, NEW w \in Procs, Begin(w)
  PROVE  IInv'
<1>1. /\ Leads("captureS", "captureR", {}) /\ Leads("captureR", "indexS", {})
      /\ Leads("sealS", "indexR", {}) /\ Leads("sealR", "mark", {})
      /\ Leads("sealMark", "verify", {})
  BY DEF Leads, PCs, Locked, Recovering, PairCleanup, Publishing, Unwinding, Deciding,
         NoActive, NoCommitted, NoRollback, Unmarked, Replacing, WithIndex
<1>2. CASE Capture(w, "captureS", "summary", "captureR")
  BY <1>1, <1>2, CaptureSafe DEF Roles
<1>3. CASE Capture(w, "captureR", "report", "indexS")
  BY <1>1, <1>3, CaptureSafe DEF Roles
<1>4. CASE PublishIndex(w, "indexS", "summary", "sealS")
  BY <1>1, <1>4, PublishIndexSafe DEF Roles
<1>5. CASE SealIndex(w, "sealS", "summary", "indexR")
  BY <1>1, <1>5, SealIndexSafe DEF Roles
<1>6. CASE PublishIndex(w, "indexR", "report", "sealR")
  BY <1>1, <1>6, PublishIndexSafe DEF Roles
<1>7. CASE SealIndex(w, "sealR", "report", "mark")
  BY <1>1, <1>7, SealIndexSafe DEF Roles
<1>8. CASE PublishMarker(w)
  BY <1>1, <1>8, PublishMarkerSafe
<1>9. CASE SealMarker(w)
  BY <1>1, <1>9, MarkerNameSafe DEF SealMarker, IInv, TypeOK
<1> QED
  BY <1>2, <1>3, <1>4, <1>5, <1>6, <1>7, <1>8, <1>9 DEF Begin

(* The budget of mishaps stays well typed. *)
LEMMA MishapType ==
  ASSUME TypeOK, NEW kind \in {"crashes", "faults", "edits"}, Mishap(kind)
  PROVE  left' \in [crashes : Nat, faults : Nat, edits : Nat]
BY DEF TypeOK, Mishap

(* capture_anchored fails. *)
LEMMA FailCaptureSafe ==
  ASSUME IInv, NEW w \in Procs, FailCapture(w)
  PROVE  IInv'
<1>1. /\ Leads("captureS", "failed", {}) /\ Leads("captureR", "u1_restore", {})
  BY DEF Leads, PCs, Locked, Recovering, PairCleanup, Publishing, Unwinding, Deciding,
         NoActive, NoCommitted, NoRollback, Unmarked, Replacing, WithIndex
<1>2. CASE At(w, "captureS") /\ Fail(w, "notBegun") /\ Mishap("faults") /\ UNCHANGED <<files, clock>>
  BY <1>1, <1>2, MishapType, LookSafe DEF files, Reasons, IInv, TypeOK
<1>3. CASE At(w, "captureR") /\ Goto(w, "u1_restore") /\ Mishap("faults") /\ UNCHANGED <<files, clock>>
  BY <1>1, <1>3, MishapType, LookSafe DEF files, IInv, TypeOK
<1> QED
  BY <1>2, <1>3 DEF FailCapture

(* An index that failed to publish is removed again. *)
LEMMA FailIndexAtSafe ==
  ASSUME IInv, NEW w \in Procs, NEW here, Leads(here, "u_restoreS", {}),
         NEW dropped \in SUBSET OutputsOf(Pair(w)), FailIndexAt(w, here, dropped)
  PROVE  IInv'
<1>1. /\ At(w, here) /\ Goto(w, "u_restoreS") /\ UNCHANGED <<dest, backup, marker, clock>>
      /\ index' = [o \in Outputs |-> IF o \in dropped THEN None ELSE index[o]]
      /\ dropped \in SUBSET (OutputsOf(Pair(w)) \cup {ThisOutput(w)})
  BY DEF FailIndexAt
<1>2. left' \in [crashes : Nat, faults : Nat, edits : Nat]
  BY MishapType DEF FailIndexAt, IInv
<1> QED
  BY <1>1, <1>2, IndexesSafe

(* Creating an index fails. *)
LEMMA FailIndexSafe ==
  ASSUME IInv, NEW w \in Procs, FailIndex(w)
  PROVE  IInv'
<1>1. /\ Leads("indexS", "u_restoreS", {}) /\ Leads("sealS", "u_restoreS", {})
      /\ Leads("indexR", "u_restoreS", {}) /\ Leads("sealR", "u_restoreS", {})
  BY DEF Leads, PCs, Locked, Recovering, PairCleanup, Publishing, Unwinding, Deciding,
         NoActive, NoCommitted, NoRollback, Unmarked, Replacing, WithIndex
<1>2. CASE FailIndexAt(w, "indexS", {})
  BY <1>1, <1>2, OwnOutputs, FailIndexAtSafe
<1>3. CASE FailIndexAt(w, "sealS", {SummaryOf[Pair(w)]})
  BY <1>1, <1>3, OwnOutputs, FailIndexAtSafe
<1>4. CASE FailIndexAt(w, "indexR", {SummaryOf[Pair(w)]})
  BY <1>1, <1>4, OwnOutputs, FailIndexAtSafe
<1>5. CASE FailIndexAt(w, "sealR", OutputsOf(Pair(w)))
  BY <1>1, <1>5, OwnOutputs, FailIndexAtSafe
<1> QED
  BY <1>2, <1>3, <1>4, <1>5 DEF FailIndex

(* The active marker failed to publish; a second failure leaves it. *)
LEMMA FailMarkerSafe ==
  ASSUME IInv, NEW w \in Procs, FailMarker(w)
  PROVE  IInv'
<1>1. /\ Leads("mark", "u_restoreS", {}) /\ Leads("sealMark", "u_restoreS", {})
      /\ Leads("sealMark", "u_restoreS", {"active"})
  BY DEF Leads, PCs, Locked, Recovering, PairCleanup, Publishing, Unwinding, Deciding,
         NoActive, NoCommitted, NoRollback, Unmarked, Replacing, WithIndex
<1>2. Goto(w, "u_restoreS") /\ UNCHANGED <<dest, backup, index, clock>>
  BY DEF FailMarker
<1>3. CASE At(w, "mark") /\ UNCHANGED marker /\ Mishap("faults")
  BY <1>1, <1>2, <1>3, MishapType, LookSafe DEF IInv, TypeOK
<1>4. CASE /\ At(w, "sealMark") /\ Mishap("faults")
           /\ marker' = [marker EXCEPT ![Pair(w)]["active"] = None]
  BY <1>1, <1>2, <1>4, OwnPair, OneMarker, MishapType, MarkersSafe DEF Kinds, IInv
<1>5. ASSUME At(w, "sealMark"), left.faults > 1, left' = [left EXCEPT !.faults = @ - 2],
             NEW t \in BOOLEAN,
             marker' = [marker EXCEPT ![Pair(w)]["active"] = [@ EXCEPT !.temp = t]]
      PROVE  IInv'
  <2>1. left' \in [crashes : Nat, faults : Nat, edits : Nat]
    BY <1>5 DEF IInv, TypeOK
  <2> QED
    BY <1>1, <1>2, <1>5, <2>1, MarkerNameSafe
<1> QED
  BY <1>3, <1>4, <1>5 DEF FailMarker

(* An output that cannot be inspected aborts the run like one that changed. *)
LEMMA FailVerifySafe ==
  ASSUME IInv, NEW w \in Procs, FailVerify(w)
  PROVE  IInv'
<1>1. \A here \in {"verify", "verifyR"} : Leads(here, "c_link", {})
  BY DEF Leads, PCs, Locked, Recovering, PairCleanup, Publishing, Unwinding, Deciding,
         NoActive, NoCommitted, NoRollback, Unmarked, Replacing, WithIndex
<1>2. PICK here \in {"verify", "verifyR"} : At(w, here)
  BY DEF FailVerify, At
<1>3. left' \in [crashes : Nat, faults : Nat, edits : Nat]
  BY MishapType DEF FailVerify, IInv
<1>4. proc[w] \in ProcState /\ Pair(w) \in Pairs /\ proc[w].pc = here /\ here \in Locked
  BY <1>1, <1>2, LockedPair DEF At, Leads, IInv
<1>5. proc' = [proc EXCEPT ![w] = [proc[w] EXCEPT !.pc = "c_link", !.aborting = TRUE, !.why = "unread"]]
  BY DEF FailVerify
<1>6. [proc[w] EXCEPT !.pc = "c_link", !.aborting = TRUE, !.why = "unread"] \in ProcState
  BY <1>4 DEF ProcState, PCs, Locked, Deciding, Reasons
<1>7. Steps(w, "c_link") /\ UNCHANGED <<files, clock>>
  BY <1>4, <1>5, <1>6, NoneAssumption
  DEF Steps, Goes, GoesOn, Pair, IInv, TypeOK, ProcState, FailVerify
<1>8. Advance(w, "c_link") /\ Fewer
  BY <1>3, <1>7 DEF Steps, Advance, Touches, Fewer, TypeOK, IInv, IndexOwned, files
<1> QED
  BY <1>1, <1>2, <1>8, Onward

(* A rename or a directory sync fails: the transaction is rolled back. *)
LEMMA FailReplaceSafe ==
  ASSUME IInv, NEW w \in Procs, FailReplace(w)
  PROVE  IInv'
<1>1. \A here \in {"putS", "verifyR", "putR", "settle"} : Leads(here, "r_link", {})
  BY DEF Leads, PCs, Locked, Recovering, PairCleanup, Publishing, Unwinding, Deciding,
         NoActive, NoCommitted, NoRollback, Unmarked, Replacing, WithIndex
<1>2. left' \in [crashes : Nat, faults : Nat, edits : Nat]
  BY MishapType DEF FailReplace, IInv
<1> QED
  BY <1>1, <1>2, LookSafe DEF FailReplace, At, files, IInv, TypeOK

-----------------------------------------------------------------------------
(* recover_destination and recover_pair. *)

(* recover_destination returns. *)
LEMMA LeaveDestinationSafe ==
  ASSUME IInv, NEW w \in Procs, proc[w].pc \in WithIndex \cup {"readIndex"},
         LeaveDestination(w), UNCHANGED <<files, clock, left>>
  PROVE  IInv'
<1> DEFINE next == IF proc[w].role = "summary" THEN "readIndex" ELSE "classify"
           there == [proc[w] EXCEPT !.pc = next, !.role = "report", !.idx = None, !.marks = NoMarks]
<1>1. proc[w] \in ProcState /\ Pair(w) \in Pairs /\ proc[w].pc \in Locked
  BY LockedPair, LocksNeeded DEF IInv, Locked, Recovering
<1>2. /\ next \in PCs \ {"idle"}
      /\ next \notin WithIndex \cup NoActive \cup NoCommitted \cup NoRollback
  BY DEF PCs, Locked, Recovering, PairCleanup, WithIndex, NoActive, NoCommitted, NoRollback,
         Unmarked, Replacing
<1>3. NoMarks \in [Kinds -> Marker \cup {None}]
  BY DEF NoMarks
<1>4. there \in ProcState /\ there.pc = next /\ there.pair = Pair(w)
  BY <1>1, <1>2, <1>3 DEF ProcState, Roles, Pair
<1>5. proc' = [proc EXCEPT ![w] = there]
  BY DEF LeaveDestination
<1>6. /\ proc' \in [Procs -> ProcState] /\ proc'[w].pc = next /\ proc'[w].pair = Pair(w)
      /\ \A v \in Procs \ {w} : proc'[v] = proc[v]
  BY <1>4, <1>5 DEF IInv, TypeOK
<1>7. TypeOK' /\ IndexOwned' /\ OneDecision' /\ Touches(w)
  BY <1>1, <1>2, <1>6, NoneAssumption DEF IInv, TypeOK, IndexOwned, OneDecision, Touches, files
<1>8. Local(w)'
  BY <1>2, <1>6, Elsewhere
<1> QED
  BY <1>1, <1>6, <1>7, <1>8, SafeStep

(* An index read beside a locked output names a pair with that output. *)
LEMMA ReadIndexSafe ==
  ASSUME IInv, NEW w \in Procs, ReadIndex(w)
  PROVE  IInv'
<1> DEFINE i == index[ThisOutput(w)]
<1>1. CASE LeaveDestination(w)
  BY <1>1, LeaveDestinationSafe DEF ReadIndex, At
<1>2. CASE Fail(w, "unsafeIndex")
  <2>1. Leads("readIndex", "failed", {}) /\ At(w, "readIndex")
    BY DEF ReadIndex, Leads, PCs, Locked, Recovering, PairCleanup, Publishing, Unwinding, Deciding,
           NoActive, NoCommitted, NoRollback, Unmarked, Replacing, WithIndex
  <2> QED
    BY <1>2, <2>1, LookSafe DEF ReadIndex, files, Reasons, IInv, TypeOK
<1>3. CASE i # None /\ proc' = [proc EXCEPT ![w].pc = "readActive", ![w].idx = i]
  <2>1. /\ "readActive" \in PCs \ {"idle"} /\ "readIndex" \in Locked
        /\ "readActive" \notin NoActive \cup NoCommitted \cup NoRollback
        /\ "readActive" \notin {"readRollback", "decide", "d_link", "sealS", "sealR", "sealMark"}
    BY DEF PCs, Locked, Recovering, NoActive, NoCommitted, NoRollback, Unmarked, Replacing
  <2>2. proc[w] \in ProcState /\ Pair(w) \in Pairs /\ proc[w].pc = "readIndex"
    BY <2>1, LockedPair DEF IInv, ReadIndex, At
  <2>3. ThisOutput(w) \in Outputs
    BY <2>2, PairOutputs DEF ThisOutput, ProcState
  <2>4. i \in Index /\ ThisOutput(w) \in OutputsOf(i.pair)
    BY <1>3, <2>3 DEF IInv, TypeOK, IndexOwned
  <2>5. proc' = [proc EXCEPT ![w] = [proc[w] EXCEPT !.pc = "readActive", !.idx = i]]
    BY <1>3
  <2>6. [proc[w] EXCEPT !.pc = "readActive", !.idx = i] \in ProcState
    BY <2>1, <2>2, <2>4 DEF ProcState
  <2>7. /\ proc' \in [Procs -> ProcState] /\ proc'[w].pc = "readActive"
        /\ proc'[w].pair = Pair(w) /\ proc'[w].idx = i /\ proc'[w].role = proc[w].role
        /\ \A v \in Procs \ {w} : proc'[v] = proc[v]
    BY <2>2, <2>5, <2>6 DEF IInv, TypeOK, ProcState, Pair
  <2>8. TypeOK' /\ IndexOwned' /\ OneDecision' /\ Touches(w)
    BY <2>2, <2>7, NoneAssumption
    DEF ReadIndex, IInv, TypeOK, IndexOwned, OneDecision, Touches, files
  <2>9. IndexRead(w)'
    BY <2>4, <2>7 DEF IndexRead, ThisOutput, IdxPair, Pair
  <2>10. OwnMarks(w)' /\ ReadMarks(w)' /\ Unsealed(w)'
    BY <2>1, <2>7 DEF OwnMarks, ReadMarks, Unsealed
  <2> QED
    BY <2>1, <2>2, <2>7, <2>8, <2>9, <2>10, SafeStep DEF Local
<1> QED
  BY <1>1, <1>2, <1>3 DEF ReadIndex

(* A marker of the indexed pair is read; nobody can commit that pair now. *)
LEMMA ReadMarkerSafe ==
  ASSUME IInv, NEW w \in Procs, NEW here, NEW there, NEW kind,
         \/ here = "readActive" /\ kind = "active" /\ there = "readCommitted"
         \/ here = "readCommitted" /\ kind = "committed" /\ there = "readRollback"
         \/ here = "readRollback" /\ kind = "rollback" /\ there = "decide",
         ReadMarker(w, here, kind, there)
  PROVE  IInv'
<1> DEFINE m == marker[IdxPair(w)][kind]
           marks == [proc[w].marks EXCEPT ![kind] = m]
<1>1. /\ there \in PCs \ {"idle"} /\ here \in Locked /\ here \in WithIndex /\ kind \in Kinds
      /\ there \notin NoActive \cup NoCommitted \cup NoRollback \cup {"d_link", "sealS", "sealR", "sealMark"}
  BY DEF PCs, Locked, Recovering, WithIndex, Kinds, NoActive, NoCommitted, NoRollback,
         Unmarked, Replacing
<1>2. proc[w] \in ProcState /\ Pair(w) \in Pairs /\ proc[w].pc = here
  BY <1>1, LockedPair DEF IInv, ReadMarker, At
<1>3. IdxPair(w) \in Pairs /\ IndexRead(w) /\ ReadMarks(w)
  BY <1>1, <1>2 DEF IInv, Local, IndexRead, IdxPair, Index
<1>4. CASE Fail(w, "unsafeMarker")
  <2>1. Leads(here, "failed", {})
    BY <1>1 DEF Leads, PCs, Locked, Recovering, PairCleanup, Publishing, Unwinding, Deciding,
           NoActive, NoCommitted, NoRollback, Unmarked, Replacing, WithIndex
  <2> QED
    BY <1>4, <2>1, LookSafe DEF ReadMarker, files, Reasons, IInv, TypeOK
<1>5. CASE proc' = [proc EXCEPT ![w].pc = there, ![w].marks = [@ EXCEPT ![kind] = m]]
  <2>1. m \in Marker \cup {None}
    BY <1>1, <1>3 DEF IInv, TypeOK
  <2>2. marks \in [Kinds -> Marker \cup {None}] /\ marks[kind] = m
        /\ \A k \in Kinds \ {kind} : marks[k] = proc[w].marks[k]
    BY <1>1, <1>2, <2>1 DEF ProcState
  <2>3. proc' = [proc EXCEPT ![w] = [proc[w] EXCEPT !.pc = there, !.marks = marks]]
    BY <1>5
  <2>4. [proc[w] EXCEPT !.pc = there, !.marks = marks] \in ProcState
    BY <1>1, <1>2, <2>2 DEF ProcState
  <2>5. /\ proc' \in [Procs -> ProcState] /\ proc'[w].pc = there
        /\ proc'[w].pair = Pair(w) /\ proc'[w].idx = proc[w].idx /\ proc'[w].role = proc[w].role
        /\ proc'[w].marks = marks
        /\ \A v \in Procs \ {w} : proc'[v] = proc[v]
    BY <1>2, <2>3, <2>4 DEF IInv, TypeOK, ProcState, Pair
  <2>6. TypeOK' /\ IndexOwned' /\ OneDecision' /\ Touches(w)
    <3>1. UNCHANGED <<dest, backup, index, marker, clock, left>>
      BY DEF ReadMarker, files
    <3>2. \A v \in Procs : (proc'[v].pair = None) = (proc'[v].pc = "idle")
      BY <1>1, <1>2, <2>5, NoneAssumption DEF IInv, TypeOK
    <3> QED
      BY <2>5, <3>1, <3>2 DEF IInv, TypeOK, IndexOwned, OneDecision, Touches
  <2>7. IndexRead(w)'
    BY <1>1, <1>2, <1>3, <2>5 DEF IndexRead, ThisOutput, IdxPair, Pair
  <2>8. ReadMarks(w)'
    BY <1>1, <1>2, <1>3, <2>2, <2>5 DEF ReadMarker, ReadMarks, IdxPair, files, Kinds
  <2>9. OwnMarks(w)' /\ Unsealed(w)'
    BY <1>1, <2>5 DEF OwnMarks, Unsealed
  <2> QED
    BY <1>1, <1>2, <2>5, <2>6, <2>7, <2>8, <2>9, SafeStep DEF Local
<1> QED
  BY <1>4, <1>5 DEF ReadMarker

(* Roll-back is chosen for a transaction that nobody committed. *)
LEMMA DecideSafe ==
  ASSUME IInv, NEW w \in Procs, Decide(w)
  PROVE  IInv'
<1> DEFINE m == proc[w].marks
<1>1. /\ \A there \in {"d_restore", "d_keep", "d_sweep", "failed"} : Leads("decide", there, {})
      /\ "d_link" \in PCs \ ({"idle"} \cup NoActive \cup NoCommitted \cup NoRollback)
      /\ "decide" \in Locked \cap WithIndex
  BY DEF Leads, PCs, Locked, Recovering, PairCleanup, Publishing, Unwinding, Deciding,
         NoActive, NoCommitted, NoRollback, Unmarked, Replacing, WithIndex
<1>2. At(w, "decide") /\ UNCHANGED <<files, clock, left>>
  BY DEF Decide
<1>3. CASE \E there \in {"d_restore", "d_keep", "d_sweep"} : Goto(w, there)
  BY <1>1, <1>2, <1>3, LookSafe DEF files, IInv, TypeOK
<1>4. CASE \E r \in {"contradiction", "raced"} : Fail(w, r)
  BY <1>1, <1>2, <1>4, LookSafe DEF files, Reasons, IInv, TypeOK
<1>5. CASE Goto(w, "d_link") /\ DestinationPlan(m) = "d_link"
  <2>1. m["committed"] = None
    BY <1>5 DEF DestinationPlan, SelectsRollback
  <2>2. marker[IdxPair(w)]["committed"] = None /\ IndexRead(w)
    BY <1>2, <2>1 DEF At, IInv, Local, ReadMarks
  <2>3. Steps(w, "d_link")
    BY <1>1, <1>2, <1>5, Moves
  <2>4. GoesOn(w, "d_link")
    BY <1>1, <1>2, <1>5, GotoType
    DEF IInv, At, Locked, Recovering, PairCleanup, Publishing, Unwinding, Deciding
  <2>5. TypeOK' /\ IndexOwned' /\ OneDecision' /\ Touches(w)
    BY <1>2, <2>3 DEF Steps, IInv, TypeOK, IndexOwned, OneDecision, Touches, files
  <2>6. OwnMarks(w)' /\ Unsealed(w)'
    BY <1>1, <2>4 DEF GoesOn, OwnMarks, Unsealed
  <2>7. IndexRead(w)' /\ ReadMarks(w)'
    BY <1>1, <1>2, <2>2, <2>4 DEF At, GoesOn, IndexRead, ReadMarks, ThisOutput, IdxPair, Pair, files
  <2> QED
    BY <1>1, <1>2, <2>4, <2>5, <2>6, <2>7, SafeStep DEF Local, GoesOn, At
<1>6. DestinationPlan(m) \in {"d_link", "d_restore", "d_keep", "d_sweep"}
  BY DEF DestinationPlan
<1> QED
  BY <1>3, <1>4, <1>5, <1>6 DEF Decide

(* After an index is read its pair may be worked on. *)
LEMMA IdxPairTheirs ==
  \A w \in Procs, here \in WithIndex : IdxPair(w) \in Theirs(w, here)
BY DEF Theirs

(* The role of an output in the indexed pair. *)
LEMMA IdxRoleType == \A w \in Procs : IdxRole(w) \in Roles
BY DEF IdxRole, RoleIn, Roles

(* An index whose transaction is rolled back. *)
LEMMA RollBackDestinationSafe ==
  ASSUME IInv, NEW w \in Procs, RollBackDestination(w)
  PROVE  IInv'
<1>1. /\ Leads("d_link", "d_retire", {}) /\ Leads("d_retire", "d_restore", {})
      /\ Leads("d_restore", "d_dropIndex", {}) /\ Leads("d_dropIndex", "d_dropBackup", {})
      /\ Leads("d_dropBackup", "d_peer", {})
      /\ "d_retire" \notin NoActive \cup NoCommitted \cup NoRollback
      /\ {"d_link", "d_retire", "d_restore", "d_dropBackup"} \subseteq WithIndex
  BY DEF Leads, PCs, Locked, Recovering, PairCleanup, Publishing, Unwinding, Deciding,
         NoActive, NoCommitted, NoRollback, Unmarked, Replacing, WithIndex
<1>2. CASE LinkMarker(w, "d_link", IdxPair(w), "rollback", "d_retire")
  <2>1. marker[IdxPair(w)]["committed"] = None
    BY <1>1, <1>2 DEF LinkMarker, At, IInv, Local, ReadMarks
  <2> QED
    BY <1>1, <1>2, <2>1, IdxPairTheirs, LinkMarkerSafe
<1>3. CASE RetireActive(w, "d_retire", IdxPair(w), "rollback", "d_restore")
  BY <1>1, <1>3, IdxPairTheirs, RetireActiveSafe DEF Kinds
<1>4. CASE Restore(w, "d_restore", IdxPair(w), IdxRole(w), proc[w].idx.prev, "d_dropIndex")
  BY <1>1, <1>4, IdxPairTheirs, IdxRoleType, RestoreSafe
<1>5. CASE DropIndex(w, "d_dropIndex", ThisOutput(w), "d_dropBackup")
  BY <1>1, <1>5, DropIndexSafe
<1>6. CASE DropBackup(w, "d_dropBackup", IdxPair(w), IdxRole(w), "d_peer")
  BY <1>1, <1>6, IdxPairTheirs, IdxRoleType, DropBackupSafe DEF Reasons
<1> QED
  BY <1>2, <1>3, <1>4, <1>5, <1>6 DEF RollBackDestination

(* An index whose transaction was committed, or never marked. *)
LEMMA KeepDestinationSafe ==
  ASSUME IInv, NEW w \in Procs, KeepDestination(w)
  PROVE  IInv'
<1>1. /\ Leads("d_keep", "d_forget", {}) /\ Leads("d_sweep", "d_forget", {})
      /\ Leads("d_forget", "d_peer", {})
      /\ {"d_keep", "d_sweep"} \subseteq WithIndex
  BY DEF Leads, PCs, Locked, Recovering, PairCleanup, Publishing, Unwinding, Deciding,
         NoActive, NoCommitted, NoRollback, Unmarked, Replacing, WithIndex
<1>2. CASE DropOwnBackup(w, "d_keep", IdxPair(w), IdxRole(w), proc[w].idx.prev, "d_forget")
  BY <1>1, <1>2, IdxPairTheirs, IdxRoleType, DropBackupSafe DEF Reasons
<1>3. CASE DropStaleBackup(w, "d_sweep", IdxPair(w), IdxRole(w), "uncommittedBackup", "d_forget")
  BY <1>1, <1>3, IdxPairTheirs, IdxRoleType, DropBackupSafe DEF Reasons
<1>4. CASE DropIndex(w, "d_forget", ThisOutput(w), "d_peer")
  BY <1>1, <1>4, DropIndexSafe
<1> QED
  BY <1>2, <1>3, <1>4 DEF KeepDestination

(* The index of the other output is looked at. *)
LEMMA CheckPeerSafe ==
  ASSUME IInv, NEW w \in Procs, CheckPeer(w)
  PROVE  IInv'
<1>1. /\ Leads("d_peer", "failed", {}) /\ Leads("d_peer", "d_leave", {})
      /\ Leads("d_peer", "d_rmActive", {})
  BY DEF Leads, PCs, Locked, Recovering, PairCleanup, Publishing, Unwinding, Deciding,
         NoActive, NoCommitted, NoRollback, Unmarked, Replacing, WithIndex
<1>2. CASE At(w, "d_peer") /\ Fail(w, "unsafeIndex") /\ UNCHANGED <<files, clock, left>>
  BY <1>1, <1>2, LookSafe DEF files, Reasons, IInv, TypeOK
<1>3. CASE At(w, "d_peer") /\ Goto(w, "d_leave") /\ UNCHANGED <<files, clock, left>>
  BY <1>1, <1>3, LookSafe DEF files, IInv, TypeOK
<1>4. CASE At(w, "d_peer") /\ Goto(w, "d_rmActive") /\ UNCHANGED <<files, clock, left>>
  BY <1>1, <1>4, LookSafe DEF files, IInv, TypeOK
<1> QED
  BY <1>2, <1>3, <1>4 DEF CheckPeer

(* The markers go with the last index. *)
LEMMA RetireMarkersSafe ==
  ASSUME IInv, NEW w \in Procs, RetireMarkers(w)
  PROVE  IInv'
<1>1. /\ Leads("d_rmActive", "d_rmCommitted", {}) /\ Leads("d_rmActive", "d_rmCommitted", {"active"})
      /\ Leads("d_rmCommitted", "d_rmRollback", {}) /\ Leads("d_rmCommitted", "d_rmRollback", {"committed"})
      /\ Leads("d_rmRollback", "d_leave", {}) /\ Leads("d_rmRollback", "d_leave", {"rollback"})
      /\ {"d_rmActive", "d_rmCommitted", "d_rmRollback"} \subseteq WithIndex
  BY DEF Leads, PCs, Locked, Recovering, PairCleanup, Publishing, Unwinding, Deciding,
         NoActive, NoCommitted, NoRollback, Unmarked, Replacing, WithIndex
<1>2. CASE RemoveMarker(w, "d_rmActive", IdxPair(w), "active", "d_rmCommitted")
  BY <1>1, <1>2, IdxPairTheirs, RemoveMarkerSafe DEF Kinds
<1>3. CASE RemoveMarker(w, "d_rmCommitted", IdxPair(w), "committed", "d_rmRollback")
  BY <1>1, <1>3, IdxPairTheirs, RemoveMarkerSafe DEF Kinds
<1>4. CASE RemoveMarker(w, "d_rmRollback", IdxPair(w), "rollback", "d_leave")
  BY <1>1, <1>4, IdxPairTheirs, RemoveMarkerSafe DEF Kinds
<1> QED
  BY <1>2, <1>3, <1>4 DEF RetireMarkers

(* Every step of recover_destination. *)
LEMMA RecoverDestinationSafe ==
  ASSUME IInv, NEW w \in Procs, RecoverDestination(w)
  PROVE  IInv'
<1>1. CASE NextDestination(w)
  BY <1>1, LeaveDestinationSafe DEF NextDestination, At, WithIndex, Recovering
<1>2. CASE \/ ReadMarker(w, "readActive", "active", "readCommitted")
           \/ ReadMarker(w, "readCommitted", "committed", "readRollback")
           \/ ReadMarker(w, "readRollback", "rollback", "decide")
  BY <1>2, ReadMarkerSafe
<1> QED
  BY <1>1, <1>2, ReadIndexSafe, DecideSafe, RollBackDestinationSafe, KeepDestinationSafe,
     CheckPeerSafe, RetireMarkersSafe DEF RecoverDestination

(* What classify finds absent is what its plan needs absent. *)
LEMMA ClassifySafe ==
  ASSUME IInv, NEW w \in Procs, Classify(w)
  PROVE  IInv'
<1> DEFINE m == marker[Pair(w)]
<1>1. /\ Leads("classify", "failed", {}) /\ Leads("classify", "pr_dropS", {"committed"})
      /\ Leads("classify", "pa_check", {"committed", "rollback"})
      /\ Leads("classify", "pc_dropS", {"rollback"})
      /\ Leads("classify", "pu_dropS", {"active", "committed", "rollback"})
      /\ "classify" \in Locked /\ {"pr_dropS", "pa_check", "pc_dropS", "pu_dropS"} \subseteq PCs \ {"idle"}
  BY DEF Leads, PCs, Locked, Recovering, PairCleanup, Publishing, Unwinding, Deciding,
         NoActive, NoCommitted, NoRollback, Unmarked, Replacing, WithIndex
<1>2. At(w, "classify") /\ UNCHANGED <<files, clock, left>> /\ Pair(w) \in Pairs
  BY <1>1, LockedPair DEF Classify, At, IInv
<1>3. CASE \E r \in {"unsafeMarker", "contradiction"} : Fail(w, r)
  BY <1>1, <1>2, <1>3, LookSafe DEF files, Reasons, IInv, TypeOK
<1>4. ASSUME NEW there \in {"pr_dropS", "pa_check", "pc_dropS", "pu_dropS"}, Goto(w, there)
      PROVE  Advance(w, there) /\ Fewer
  BY <1>1, <1>2, <1>4, Moves
  DEF Steps, Advance, Touches, Fewer, files, IInv, TypeOK, IndexOwned
<1>5. m["committed"] = None \/ m["rollback"] = None
  BY <1>2 DEF IInv, OneDecision
<1>6. CASE m["rollback"] # None /\ Goto(w, "pr_dropS")
  BY <1>1, <1>2, <1>4, <1>5, <1>6, Onward DEF Kinds, files
<1>7. CASE m["rollback"] = None /\ m["committed"] = None /\ Goto(w, "pa_check")
  BY <1>1, <1>2, <1>4, <1>7, Onward DEF Kinds, files
<1>8. CASE m["rollback"] = None /\ Goto(w, "pc_dropS")
  BY <1>1, <1>2, <1>4, <1>8, Onward DEF Kinds, files
<1>9. CASE /\ m["active"] = None /\ m["committed"] = None /\ m["rollback"] = None
           /\ Goto(w, "pu_dropS")
  BY <1>1, <1>2, <1>4, <1>9, Onward DEF Kinds, files
<1>10. CASE Goto(w, PairPlan(m))
  BY <1>6, <1>7, <1>8, <1>9, <1>10 DEF PairPlan, SelectsRollback
<1> QED
  BY <1>3, <1>10 DEF Classify

(* recover_pair returns: no marker of the pair is left. *)
LEMMA LeaveRecoverySafe ==
  ASSUME IInv, NEW w \in Procs, LeaveRecovery(w)
  PROVE  IInv'
<1>1. Leads("p_leave", "staged", {}) /\ Leads("p_leave", "captureS", {})
  BY DEF Leads, PCs, Locked, Recovering, PairCleanup, Publishing, Unwinding, Deciding,
         NoActive, NoCommitted, NoRollback, Unmarked, Replacing, WithIndex
<1> QED
  BY <1>1, LookSafe DEF LeaveRecovery, files, IInv, TypeOK

(* Every step of recover_pair. *)
LEMMA RecoverPairSafe ==
  ASSUME IInv, NEW w \in Procs, RecoverPair(w)
  PROVE  IInv'
BY ClassifySafe, ForgetRolledBackSafe, RestoreMarkedSafe, ForgetCommittedSafe,
   SweepUnmarkedSafe, LeaveRecoverySafe DEF RecoverPair

-----------------------------------------------------------------------------
(* Taking the locks. *)

(* OutputLocks::acquire: the locks were free, and now exclude others. *)
LEMMA LockSafe ==
  ASSUME IInv, NEW w \in Procs, NEW p \in Pairs, Lockable(w, p), proc[w].pc \notin Locked,
         proc' \in [Procs -> ProcState], \A v \in Procs \ {w} : proc'[v] = proc[v],
         proc'[w].pc = "readIndex", proc'[w].pair = p, UNCHANGED <<files, clock, left>>
  PROVE  IInv'
<1>1. TypeOK' /\ IndexOwned' /\ OneDecision'
  BY NoneAssumption DEF IInv, TypeOK, IndexOwned, OneDecision, files
<1>2. Exclusive'
  <2>1. \A v \in Procs \ {w} : proc[v].pc \in Locked => OutputsOf(Pair(v)) \cap OutputsOf(p) = {}
    BY DEF Lockable, Pair
  <2> QED
    BY <2>1 DEF IInv, Exclusive, Pair, OutputsOf
<1>3. ASSUME NEW v \in Procs PROVE Local(v)'
  <2>1. CASE v = w
    <3>1. "readIndex" \notin WithIndex \cup NoActive \cup NoCommitted \cup NoRollback
      BY DEF WithIndex, NoActive, NoCommitted, NoRollback, Unmarked, Replacing
    <3> QED
      BY <2>1, <3>1, Elsewhere
  <2>2. CASE v # w
    BY <2>2 DEF IInv, Local, OwnMarks, IndexRead, ReadMarks, Unsealed, files,
                ThisOutput, IdxPair, Pair
  <2> QED
    BY <2>1, <2>2
<1> QED
  BY <1>1, <1>2, <1>3 DEF IInv

(* The first recovery of a run takes the locks. *)
LEMMA StartSafe ==
  ASSUME IInv, NEW w \in Procs, NEW p \in Pairs, Start(w, p)
  PROVE  IInv'
<1> DEFINE started == [IdleProc EXCEPT !.pc = "readIndex", !.pair = p]
<1>1. started \in ProcState /\ started.pc = "readIndex" /\ started.pair = p
  BY IdleType DEF ProcState, PCs, Locked, Recovering
<1>2. proc' = [proc EXCEPT ![w] = started] /\ proc[w].pc = "idle"
  BY DEF Start, At
<1>3. "idle" \notin Locked
  BY DEF Locked, Recovering, PairCleanup, Publishing, Unwinding, Deciding
<1> QED
  BY <1>1, <1>2, <1>3, LockSafe DEF Start, IInv, TypeOK

(* publish_pair takes them again. *)
LEMMA PublishSafe ==
  ASSUME IInv, NEW w \in Procs, Publish(w)
  PROVE  IInv'
<1> DEFINE started == [proc[w] EXCEPT !.pc = "readIndex", !.role = "summary"]
<1>1. proc[w] \in ProcState /\ proc[w].pc = "staged" /\ Pair(w) \in Pairs
  BY DEF Publish, At, Pair, IInv, TypeOK, ProcState
<1>2. started \in ProcState /\ started.pc = "readIndex" /\ started.pair = Pair(w)
  BY <1>1 DEF ProcState, PCs, Locked, Recovering, Roles, Pair
<1>3. proc' = [proc EXCEPT ![w] = started]
  BY DEF Publish
<1>4. "staged" \notin Locked
  BY DEF Locked, Recovering, PairCleanup, Publishing, Unwinding, Deciding
<1> QED
  BY <1>1, <1>2, <1>3, <1>4, LockSafe DEF Publish, IInv, TypeOK

(* Both outputs are staged without a lock. *)
LEMMA StageSafe ==
  ASSUME IInv, NEW w \in Procs, Stage(w)
  PROVE  IInv'
<1> DEFINE staged == [proc[w] EXCEPT !.txn = clock + 1]
<1>1. proc[w] \in ProcState /\ proc[w].pc = "staged" /\ clock \in Nat /\ clock' = clock + 1
  BY DEF Stage, At, IInv, TypeOK
<1>2. staged \in ProcState /\ staged.pc = "staged" /\ staged.pair = Pair(w)
  BY <1>1 DEF ProcState, Pair
<1>3. proc' = [proc EXCEPT ![w] = staged]
  BY DEF Stage
<1>4. "staged" \notin Locked
  BY DEF Locked, Recovering, PairCleanup, Publishing, Unwinding, Deciding
<1>5. /\ proc' \in [Procs -> ProcState] /\ proc'[w].pc = "staged" /\ proc'[w].pair = Pair(w)
      /\ \A v \in Procs \ {w} : proc'[v] = proc[v]
  BY <1>2, <1>3 DEF IInv, TypeOK
<1>6. TypeOK' /\ IndexOwned' /\ OneDecision'
  BY <1>1, <1>5 DEF Stage, IInv, TypeOK, IndexOwned, OneDecision, files, Pair
<1>7. Exclusive'
  BY <1>4, <1>5 DEF IInv, Exclusive, Pair
<1>8. ASSUME NEW v \in Procs PROVE Local(v)'
  <2>1. CASE v = w
    BY <1>4, <1>5, <2>1, LocksNeeded, Elsewhere
  <2>2. CASE v # w
    BY <1>5, <2>2 DEF Stage, IInv, Local, OwnMarks, IndexRead, ReadMarks, Unsealed, files,
                      ThisOutput, IdxPair, Pair
  <2> QED
    BY <2>1, <2>2
<1> QED
  BY <1>6, <1>7, <1>8 DEF IInv

(* An edit touches no sidecar. *)
LEMMA EditSafe ==
  ASSUME IInv, NEW o \in Outputs, Edit(o)
  PROVE  IInv'
<1>1. UNCHANGED <<backup, index, marker, proc>>
  BY DEF Edit
<1>2. dest' \in [Outputs -> Nat] /\ clock' \in Nat
  BY DEF Edit, IInv, TypeOK, Absent
<1>3. left' \in [crashes : Nat, faults : Nat, edits : Nat]
  BY MishapType DEF Edit, IInv
<1> QED
  BY <1>1, <1>2, <1>3
  DEF IInv, TypeOK, IndexOwned, Exclusive, OneDecision, Local, OwnMarks, IndexRead, ReadMarks,
      Unsealed, ThisOutput, IdxPair, Pair

-----------------------------------------------------------------------------
(* The program starts with no sidecar and no process running. *)
LEMMA InitSafe == Init => IInv
<1> SUFFICES ASSUME Init PROVE IInv
  OBVIOUS
<1>1. TypeOK
  <2>1. dest \in [Outputs -> Nat]
    <3>1. Initial \subseteq Nat
      BY BoundsAssumption DEF Absent
    <3> QED
      BY <3>1 DEF Init
  <2>2. backup \in [Pairs -> [Roles -> Nat]]
    BY DEF Init, Absent
  <2>3. marker \in [Pairs -> [Kinds -> Marker \cup {None}]]
    BY DEF Init, NoMarks
  <2>4. proc \in [Procs -> ProcState] /\ \A w \in Procs : proc[w].pair = None /\ proc[w].pc = "idle"
    BY IdleType DEF Init, IdleProc
  <2> QED
    BY <2>1, <2>2, <2>3, <2>4, BoundsAssumption DEF Init, TypeOK
<1>2. IndexOwned /\ OneDecision
  BY DEF Init, IndexOwned, OneDecision, NoMarks, Kinds
<1>3. "idle" \notin Locked /\ \A w \in Procs : proc[w].pc = "idle"
  BY DEF Init, IdleProc, Locked, Recovering, PairCleanup, Publishing, Unwinding, Deciding
<1>4. Exclusive
  BY <1>3 DEF Exclusive
<1>5. \A w \in Procs : Local(w)
  BY <1>3, LocksNeeded DEF Local, OwnMarks, IndexRead, ReadMarks, Unsealed
<1> QED
  BY <1>1, <1>2, <1>4, <1>5 DEF IInv

(* Every action keeps the inductive invariant. *)
LEMMA NextSafe == IInv /\ [Next]_vars => IInv'
<1> SUFFICES ASSUME IInv, [Next]_vars PROVE IInv'
  OBVIOUS
<1>1. CASE UNCHANGED vars
  BY <1>1 DEF vars, IInv, TypeOK, IndexOwned, Exclusive, OneDecision, Local, OwnMarks, IndexRead,
              ReadMarks, Unsealed, ThisOutput, IdxPair, Pair
<1>2. ASSUME NEW w \in Procs, Exit(w) \/ Crash(w) PROVE IInv'
  <2>1. /\ proc' = [proc EXCEPT ![w] = IdleProc] /\ UNCHANGED <<files, clock>>
        /\ left' \in [crashes : Nat, faults : Nat, edits : Nat]
    BY <1>2, MishapType DEF Exit, Crash, IInv, TypeOK
  <2> QED
    BY <2>1, ResetSafe
<1>3. ASSUME NEW w \in Procs, Step(w) PROVE IInv'
  BY <1>3, RecoverDestinationSafe, RecoverPairSafe, BeginSafe, UnwindSafe, ReplaceSafe,
     CommitSafe, RollBackSafe DEF Step
<1> QED
  BY <1>1, <1>2, <1>3, StartSafe, StageSafe, PublishSafe, FailCaptureSafe, FailIndexSafe,
     FailMarkerSafe, FailVerifySafe, FailReplaceSafe, EditSafe DEF Next

(* The inductive invariant holds in every execution. *)
THEOREM InductiveInvariant == Spec => []IInv
BY InitSafe, NextSafe, PTL DEF Spec

(* Every variable keeps its type in every execution. *)
THEOREM TypeCorrect == Spec => []TypeOK
<1>1. IInv => TypeOK
  BY DEF IInv
<1> QED
  BY <1>1, InductiveInvariant, PTL

(* No transaction is ever marked both committed and rolled back, however   *)
(* many runs of however many overlapping pairs recover it at once.         *)
THEOREM OneDecisionHolds == Spec => []OneDecision
<1>1. IInv => OneDecision
  BY DEF IInv
<1> QED
  BY <1>1, InductiveInvariant, PTL

(* Two processes that hold locks never work on the same output file, and   *)
(* never on the same pair's markers of their own.                          *)
THEOREM LocksExclude == Spec => []Exclusive
<1>1. IInv => Exclusive
  BY DEF IInv
<1> QED
  BY <1>1, InductiveInvariant, PTL

-----------------------------------------------------------------------------
(* A process that holds no locks needs to know nothing. *)
LEMMA Unaware == ASSUME NEW w \in Procs, proc'[w].pc \notin Locked PROVE Knows(w)'
<1>1. proc'[w].pc \notin Recovering \cup PairCleanup \cup Publishing \cup Unwinding \cup Deciding
  BY DEF Locked
<1>2. Choice(w)'
  BY <1>1 DEF Choice, Inactive, Uncommitted, NotReverted, Replacing, IsCommitted, IsReverted,
              CommitDone, RollBackDone, Unwinding, Publishing, Deciding, PairCleanup
<1>3. OwnIndexes(w)'
  BY <1>1 DEF OwnIndexes, ClearS, ClearR, NamedS, NamedR, Owning, Marked, Replacing, Unindexed,
              Unwinding, Publishing, Deciding
<1>4. OwnBackups(w)'
  BY <1>1 DEF OwnBackups, HeldS, HeldR, GoneS, GoneR, Replacing, Unwinding, Publishing, Deciding, PairCleanup
<1>5. ReadMatch(w)' /\ IndexKnown(w)'
  BY <1>1 DEF ReadMatch, IndexKnown, ReadAt, Indexed, Reading, Taken, Removing, Recovering
<1> QED
  BY <1>2, <1>3, <1>4, <1>5 DEF Knows

(* If no sidecar changes, nobody else learns or forgets anything. *)
LEMMA CalmKnows ==
  ASSUME NEW w \in Procs, Calm(w), NEW v \in Procs \ {w}, Knows(v)
  PROVE  Knows(v)'
<1>1. proc'[v] = proc[v] /\ UNCHANGED <<backup, index, marker>>
  BY DEF Calm
<1>2. Choice(v)' /\ OwnIndexes(v)' /\ OwnBackups(v)'
  BY <1>1 DEF Knows, Choice, OwnIndexes, OwnBackups, Pair
<1>3. ReadMatch(v)' /\ IndexKnown(v)'
  BY <1>1 DEF Knows, ReadMatch, IndexKnown, Names, ThisOutput, IdxPair, IdxRole, Pair
<1> QED
  BY <1>2, <1>3 DEF Knows

(* The journal of a pair depends on its own sidecars only. *)
LEMMA JournalKept ==
  ASSUME NEW q \in Pairs, Journal(q), marker'[q] = marker[q], backup'[q] = backup[q],
         \A o \in OutputsOf(q) : Names(o, q) \/ Names(o, q)' => index'[o] = index[o]
  PROVE  Journal(q)'
<1>1. \A o \in OutputsOf(q) : Names(o, q)' <=> Names(o, q)
  BY DEF Names
<1>2. OneInode(q)' /\ Unbacked(q)' /\ ActiveNamed(q)'
  BY <1>1 DEF Journal, OneInode, Unbacked, ActiveNamed
<1>3. Agree(q)' /\ Backed(q)'
  BY <1>1 DEF Journal, Agree, Backed
<1> QED
  BY <1>2, <1>3 DEF Journal

(* If no sidecar changes, the invariant is a matter of what w knows. *)
LEMMA CalmStep ==
  ASSUME JInv, IInv', NEW w \in Procs, Calm(w), Knows(w)', Fine(w)'
  PROVE  JInv'
<1>1. \A v \in Procs : Knows(v)'
  BY CalmKnows DEF JInv
<1>2. \A v \in Procs : Fine(v)'
  BY DEF JInv, Fine, Calm
<1>3. \A q \in Pairs : Journal(q)'
  BY JournalKept DEF JInv, Calm
<1> QED
  BY <1>1, <1>2, <1>3 DEF JInv

(* What v read beside its own output is not disturbed by w. *)
LEMMA ReadingKept ==
  ASSUME NEW w \in Procs, NEW v \in Procs, proc'[v] = proc[v], NEW q \in Pairs,
         proc[v].idx # None, IdxPair(v) = q, Gentle(w, q),
         ThisOutput(v) \in OutputsOf(q) \ OutputsOf(Pair(w)),
         index'[ThisOutput(v)] = index[ThisOutput(v)], OutputsOf(q) \subseteq Outputs,
         Knows(v)
  PROVE  ReadMatch(v)' /\ IndexKnown(v)'
<1>1. ReadMatch(v) /\ IndexKnown(v)
  BY DEF Knows
<1>2. IdxPair(v)' = q /\ ThisOutput(v)' = ThisOutput(v) /\ IdxRole(v)' = IdxRole(v)
  BY DEF IdxPair, ThisOutput, IdxRole, Pair
<1>3. \A k \in Kinds : marker'[q][k] # None => \E j \in Kinds : marker[q][j] = marker'[q][k]
  BY DEF Gentle, Copies
<1>4. ASSUME proc[v].pc \in Indexed, NEW k \in {"committed", "rollback"}, marker[q][k] # None
      PROVE  marker'[q][k] # None
  <2>1. index[ThisOutput(v)] = proc[v].idx
    BY <1>1, <1>4 DEF IndexKnown
  <2>2. Names(ThisOutput(v), q)
    BY <2>1 DEF Names, IdxPair
  <2> QED
    BY <1>4, <2>2 DEF Gentle
<1>5. ReadMatch(v)'
  <2>1. ReadAt(proc[v].pc) # {} => proc[v].pc \in Indexed
    BY DEF ReadAt, Indexed, Reading
  <2>2. \A k \in {"active", "committed"} : marker[q][k] = None => marker'[q][k] = None
    BY DEF Gentle
  <2>3. marker[q]["active"] = None /\ marker[q]["rollback"] = None => marker'[q]["rollback"] = None
    BY DEF Gentle
  <2> DEFINE m == marker[q]
             n == marker'[q]
             r == proc[v].marks
             known == ReadAt(proc[v].pc)
  <2>4. /\ "active" \in known /\ r["active"] = None => n["active"] = None
        /\ "committed" \in known /\ r["committed"] # None => n["committed"] # None
        /\ "rollback" \in known /\ r["rollback"] # None => n["rollback"] # None
        /\ "rollback" \in known /\ r["rollback"] = None /\ r["active"] = None => n["rollback"] = None
    <3>1. "rollback" \in known => "active" \in known
      BY DEF ReadAt, Kinds
    <3> QED
      BY <1>1, <1>4, <2>1, <2>2, <2>3, <3>1 DEF ReadMatch
  <2>5. ASSUME NEW k \in known, r[k] # None
        PROVE  /\ r[k].prev[IdxRole(v)] = proc[v].idx.prev
               /\ \A j \in Kinds : n[j] # None => n[j].prev = r[k].prev
               /\ \A j \in known : r[j] # None => r[j].prev = r[k].prev
    BY <1>1, <1>3, <2>5 DEF ReadMatch
  <2> QED
    BY <1>2, <2>4, <2>5 DEF ReadMatch
<1>6. IndexKnown(v)'
  <2>1. \A o \in Outputs : Names(o, q)' => Names(o, q)
    BY DEF Gentle, Names
  <2>2. Peer(q, ThisOutput(v)) \in Outputs
    BY DEF Peer, OutputsOf
  <2>3. (\A k \in Kinds : marker[q][k] = None) => \A k \in Kinds : marker'[q][k] = None
    BY <1>3
  <2>4. marker[q]["active"] = None => marker'[q]["active"] = None
    BY DEF Gentle
  <2>5. marker[q]["committed"] = None => marker'[q]["committed"] = None
    BY DEF Gentle
  <2>6. {"d_retire", "d_restore", "d_dropIndex", "d_keep", "d_forget"} \subseteq Indexed
    BY DEF Indexed
  <2> QED
    BY <1>1, <1>2, <1>4, <2>1, <2>2, <2>3, <2>4, <2>5, <2>6 DEF IndexKnown
<1> QED
  BY <1>5, <1>6

(* What another process knows survives a step within w's locks. *)
LEMMA OthersKnow ==
  ASSUME IInv, NEW w \in Procs, proc[w].pc \in Locked, NEW q \in Mine(w) \cap Pairs, Only(w, q),
         q # Pair(w) => Gentle(w, q), NEW v \in Procs \ {w}, Knows(v)
  PROVE  Knows(v)'
<1>1. proc'[v] = proc[v]
  BY DEF Only
<1>2. CASE proc[v].pc \notin Locked
  <2>1. Knows(v)'
    BY <1>1, <1>2, Unaware
  <2> QED
    BY <2>1
<1>3. CASE proc[v].pc \in Locked
  <2>1. Local(v) /\ Pair(v) \in Pairs /\ proc[v] \in ProcState
    BY <1>3, LockedPair DEF IInv
  <2>2. /\ Pair(v) \notin Mine(w) /\ OutputsOf(Pair(v)) \cap OutputsOf(Pair(w)) = {}
        /\ proc[v].pc \in WithIndex => IdxPair(v) # Pair(w)
    BY <1>3, Disjoint
  <2>3. marker'[Pair(v)] = marker[Pair(v)] /\ backup'[Pair(v)] = backup[Pair(v)]
    BY <2>1, <2>2 DEF Only
  <2>4. /\ OutputsOf(Pair(v)) \subseteq Outputs
        /\ SummaryOf[Pair(v)] \in OutputsOf(Pair(v)) /\ ReportOf[Pair(v)] \in OutputsOf(Pair(v))
        /\ \A k \in Roles : Output(Pair(v), k) \in OutputsOf(Pair(v))
    BY <2>1, PairOutputs
  <2>5. \A o \in OutputsOf(Pair(v)) : index'[o] = index[o]
    BY <2>2, <2>4 DEF Only
  <2>6. Choice(v)'
    BY <1>1, <2>3 DEF Knows, Choice, Pair
  <2>7. OwnIndexes(v)'
    BY <1>1, <2>4, <2>5 DEF Knows, OwnIndexes, Pair
  <2>8. OwnBackups(v)'
    BY <1>1, <2>3 DEF Knows, OwnBackups, Pair
  <2>9. CASE proc[v].pc \in WithIndex
    <3>1. ThisOutput(v) \in OutputsOf(IdxPair(v)) /\ IdxPair(v) \in Pairs /\ proc[v].idx # None
      BY <2>1, <2>9, NoneAssumption DEF Local, IndexRead, IdxPair, Index
    <3>2. ThisOutput(v) \in OutputsOf(Pair(v))
      BY <2>1, <2>4 DEF ThisOutput, ProcState
    <3>3. ThisOutput(v) \in OutputsOf(IdxPair(v)) \ OutputsOf(Pair(w))
          /\ index'[ThisOutput(v)] = index[ThisOutput(v)]
      BY <2>2, <2>5, <3>1, <3>2
    <3>4. OutputsOf(IdxPair(v)) \subseteq Outputs
      BY <3>1, PairOutputs
    <3>5. Gentle(w, IdxPair(v))
      <4>1. CASE IdxPair(v) = q
        BY <2>2, <2>9, <4>1
      <4>2. CASE IdxPair(v) # q
        <5>1. marker'[IdxPair(v)] = marker[IdxPair(v)]
              /\ \A o \in Outputs : Names(o, IdxPair(v)) \/ Names(o, IdxPair(v))' => index'[o] = index[o]
          BY <1>1, <3>1, <4>2 DEF Only, Names, IdxPair
        <5>2. \A o \in Outputs : (index[o] # None /\ index[o].pair = IdxPair(v))' => index'[o] = index[o]
          BY <5>1 DEF Names
        <5> QED
          BY <5>1, <5>2 DEF Gentle, Copies
      <4> QED
        BY <4>1, <4>2
    <3>6. ReadMatch(v)' /\ IndexKnown(v)'
      <4> DEFINE p == IdxPair(v)
      <4>1. p \in Pairs /\ IdxPair(v) = p
        BY <3>1
      <4> HIDE DEF p
      <4> QED
        BY <1>1, <3>1, <3>3, <3>4, <3>5, <4>1, ReadingKept
    <3> QED
      BY <2>6, <2>7, <2>8, <3>6 DEF Knows
  <2>10. CASE proc[v].pc \notin WithIndex
    <3>1. ReadMatch(v)' /\ IndexKnown(v)'
      BY <1>1, <2>10 DEF ReadMatch, IndexKnown, ReadAt, Indexed, Reading, Taken, Removing,
                         WithIndex, Recovering
    <3> QED
      BY <2>6, <2>7, <2>8, <3>1 DEF Knows
  <2> QED
    BY <2>9, <2>10
<1> QED
  BY <1>2, <1>3

(* A step is safe when the journal of the pair it works on stays coherent  *)
(* and w knows enough where it arrives.                                    *)
LEMMA JournalStep ==
  ASSUME JInv, IInv', NEW w \in Procs, proc[w].pc \in Locked, NEW q \in Mine(w) \cap Pairs,
         Only(w, q), q # Pair(w) => Gentle(w, q), Journal(q)', Knows(w)', Fine(w)'
  PROVE  JInv'
<1>1. IInv /\ \A v \in Procs : Knows(v)
  BY DEF JInv
<1>2. ASSUME NEW v \in Procs \ {w} PROVE Knows(v)'
  BY <1>1, OthersKnow
<1>3. \A v \in Procs \ {w} : Fine(v)'
  BY DEF JInv, Fine, Only
<1>4. ASSUME NEW p \in Pairs \ {q} PROVE Journal(p)'
  <2>1. /\ marker'[p] = marker[p] /\ backup'[p] = backup[p]
        /\ \A o \in Outputs : Names(o, p) \/ Names(o, p)' => index'[o] = index[o]
    BY DEF Only
  <2>2. OutputsOf(p) \subseteq Outputs /\ Journal(p)
    BY PairOutputs DEF JInv
  <2> QED
    BY <2>1, <2>2, JournalKept
<1> QED
  BY <1>2, <1>3, <1>4 DEF JInv

-----------------------------------------------------------------------------
(* What w knows where it arrives. *)

(* w goes on at `there' with what it remembers. *)
Walks(w, there) ==
  /\ proc'[w].pc = there
  /\ proc'[w].pair = proc[w].pair /\ proc'[w].role = proc[w].role /\ proc'[w].idx = proc[w].idx
  /\ proc'[w].marks = proc[w].marks /\ proc'[w].seen = proc[w].seen
  /\ Fine(w)'
  /\ \A v \in Procs \ {w} : proc'[v] = proc[v]

(* w returns, for a reason the journal allows. *)
Stops(w) ==
  /\ proc'[w].pc \notin Locked
  /\ Fine(w)'
  /\ \A v \in Procs \ {w} : proc'[v] = proc[v]

(* Going on keeps what a process remembers. *)
LEMMA GotoWalks ==
  ASSUME JInv, NEW w \in Procs, NEW there, Goto(w, there)
  PROVE  Walks(w, there)
<1>1. proc \in [Procs -> ProcState] /\ proc[w] \in ProcState /\ Fine(w)
  BY DEF JInv, IInv, TypeOK
<1>2. proc' = [proc EXCEPT ![w] = [proc[w] EXCEPT !.pc = there]]
  BY DEF Goto
<1> QED
  BY <1>1, <1>2 DEF Walks, Fine, ProcState

(* Returning an error is a stop. *)
LEMMA FailStops ==
  ASSUME JInv, NEW w \in Procs, NEW reason, Fail(w, reason),
         reason \notin {"contradiction", "missingBackup", "unexpectedBackup"}
  PROVE  Stops(w)
<1> DEFINE failed == [IdleProc EXCEPT !.pc = "failed", !.pair = proc[w].pair,
                                      !.txn = proc[w].txn, !.why = reason]
<1>1. proc \in [Procs -> ProcState]
  BY DEF JInv, IInv, TypeOK
<1>2. proc' = [proc EXCEPT ![w] = failed]
  BY DEF Fail
<1>3. failed.pc = "failed" /\ failed.why = reason
  BY DEF IdleProc
<1>4. "failed" \notin Locked
  BY DEF Locked, Recovering, PairCleanup, Publishing, Unwinding, Deciding
<1> HIDE DEF failed
<1> QED
  BY <1>1, <1>2, <1>3, <1>4 DEF Stops, Fine

(* From `here' to `there' a process needs to learn no more than that the   *)
(* markers of `gone' are absent, those of `made' present, and the indexes  *)
(* and backups of the roles `unindexed' and `unbacked' removed.            *)
MarksOnto(here, there, gone, made) ==
  /\ there \in Inactive => (here \in Inactive \cup NoActive /\ "active" \notin made) \/ "active" \in gone
  /\ there \in Uncommitted =>
       (here \in Uncommitted \cup NoCommitted /\ "committed" \notin made) \/ "committed" \in gone
  /\ there \in NotReverted =>
       (here \in NotReverted \cup NoRollback /\ "rollback" \notin made) \/ "rollback" \in gone
  /\ there \in Replacing => (here \in Replacing /\ "active" \notin gone) \/ "active" \in made
  /\ there \in IsCommitted => (here \in IsCommitted /\ "committed" \notin gone) \/ "committed" \in made
  /\ there \in IsReverted => (here \in IsReverted /\ "rollback" \notin gone) \/ "rollback" \in made
  /\ there \notin {"pa_check", "pa_restoreS", "pa_restoreR", "pa_rmActive", "pa_dropS", "pa_dropR"}

IndexesOnto(here, there, unindexed) ==
  /\ there \in ClearS => here \in ClearS \/ "summary" \in unindexed
  /\ there \in ClearR => here \in ClearR \/ "report" \in unindexed
  /\ there \in NamedS => here \in NamedS /\ "summary" \notin unindexed
  /\ there \in NamedR => here \in NamedR /\ "report" \notin unindexed
  /\ there \in Owning => here \in Owning \cup (ClearS \cap ClearR)

BackupsOnto(here, there, unbacked) ==
  /\ there \in HeldS => here \in HeldS /\ "summary" \notin unbacked
  /\ there \in HeldR => here \in HeldR /\ "report" \notin unbacked
  /\ there \in GoneS => here \in GoneS \/ "summary" \in unbacked
  /\ there \in GoneR => here \in GoneR \/ "report" \in unbacked

(* The markers of w's own pair are what they must be where w arrives. *)
LEMMA MarksArrive ==
  ASSUME NEW w \in Procs, NEW here, At(w, here), NEW there, Walks(w, there),
         OwnMarks(w), Choice(w), NEW gone, NEW made, MarksOnto(here, there, gone, made),
         \A k \in gone : marker'[Pair(w)][k] = None,
         \A k \in made : marker'[Pair(w)][k] # None,
         \A k \in Kinds : k \notin gone \cup made =>
           (marker'[Pair(w)][k] = None <=> marker[Pair(w)][k] = None)
  PROVE  Choice(w)'
<1>1. proc[w].pc = here /\ proc'[w].pc = there /\ Pair(w)' = Pair(w)
  BY DEF At, Walks, Pair
<1> DEFINE m == marker[Pair(w)]
           n == marker'[Pair(w)]
<1>2. \A k \in {"active", "committed", "rollback"} : k \notin gone \cup made => (n[k] = None <=> m[k] = None)
  BY DEF Kinds
<1>3. /\ there \in Inactive => n["active"] = None
      /\ there \in Uncommitted => n["committed"] = None
      /\ there \in NotReverted => n["rollback"] = None
  BY <1>1, <1>2 DEF OwnMarks, Choice, MarksOnto
<1>4. /\ there \in Replacing => n["active"] # None
      /\ there \in IsCommitted => n["committed"] # None
      /\ there \in IsReverted => n["rollback"] # None
  BY <1>1, <1>2 DEF Choice, MarksOnto
<1> QED
  BY <1>1, <1>3, <1>4 DEF Choice, MarksOnto

(* So are the indexes of its outputs. *)
LEMMA IndexesArrive ==
  ASSUME NEW w \in Procs, NEW here, At(w, here), NEW there, Walks(w, there), there \notin Recovering,
         OwnIndexes(w), NEW unindexed, IndexesOnto(here, there, unindexed),
         \A k \in Roles : index'[Output(Pair(w), k)] =
                            IF k \in unindexed THEN None ELSE index[Output(Pair(w), k)]
  PROVE  OwnIndexes(w)'
<1> DEFINE S == SummaryOf[Pair(w)]
           R == ReportOf[Pair(w)]
<1>1. proc[w].pc = here /\ proc'[w].pc = there /\ Pair(w)' = Pair(w) /\ proc'[w].seen = proc[w].seen
  BY DEF At, Walks, Pair
<1>2. /\ index'[S] = IF "summary" \in unindexed THEN None ELSE index[S]
      /\ index'[R] = IF "report" \in unindexed THEN None ELSE index[R]
  BY DEF Roles, Output
<1>3. /\ there \in ClearS => index'[S] = None
      /\ there \in ClearR => index'[R] = None
      /\ there \in NamedS => index'[S] # None
      /\ there \in NamedR => index'[R] # None
  BY <1>1, <1>2 DEF OwnIndexes, IndexesOnto
<1>4. ASSUME there \in Owning, NEW k \in Roles, index'[Output(Pair(w), k)] # None
      PROVE  /\ index'[Output(Pair(w), k)].pair = Pair(w)
             /\ index'[Output(Pair(w), k)].prev = (proc[w].seen[k] # Absent)
  <2>1. index'[Output(Pair(w), k)] = index[Output(Pair(w), k)] /\ index[Output(Pair(w), k)] # None
    BY <1>4
  <2>2. here \in Owning
    BY <1>1, <1>4, <2>1 DEF OwnIndexes, IndexesOnto, Output, Roles
  <2> QED
    BY <1>1, <2>1, <2>2 DEF OwnIndexes
<1> QED
  BY <1>1, <1>3, <1>4 DEF OwnIndexes

(* So are the backups of its pair. *)
LEMMA BackupsArrive ==
  ASSUME NEW w \in Procs, NEW here, At(w, here), NEW there, Walks(w, there),
         OwnBackups(w), NEW unbacked, BackupsOnto(here, there, unbacked),
         \A k \in Roles : backup'[Pair(w)][k] = IF k \in unbacked THEN Absent ELSE backup[Pair(w)][k]
  PROVE  OwnBackups(w)'
<1>1. proc[w].pc = here /\ proc'[w].pc = there /\ Pair(w)' = Pair(w) /\ proc'[w].seen = proc[w].seen
  BY DEF At, Walks, Pair
<1>2. Roles = {"summary", "report"}
  BY DEF Roles
<1> QED
  BY <1>1, <1>2 DEF OwnBackups, BackupsOnto

(* All of it together, outside recover_destination. *)
Onto(here, there, gone, made, unindexed, unbacked) ==
  /\ here \in Locked
  /\ there \notin Recovering
  /\ MarksOnto(here, there, gone, made)
  /\ IndexesOnto(here, there, unindexed)
  /\ BackupsOnto(here, there, unbacked)

(* The markers, indexes and backups a step of w takes away. *)
Takes(w, gone, made, unindexed, unbacked) ==
  /\ \A k \in gone : marker'[Pair(w)][k] = None
  /\ \A k \in made : marker'[Pair(w)][k] # None
  /\ \A k \in Kinds : k \notin gone \cup made => (marker'[Pair(w)][k] = None <=> marker[Pair(w)][k] = None)
  /\ \A k \in Roles : index'[Output(Pair(w), k)] =
                        IF k \in unindexed THEN None ELSE index[Output(Pair(w), k)]
  /\ \A k \in Roles : backup'[Pair(w)][k] = IF k \in unbacked THEN Absent ELSE backup[Pair(w)][k]

(* w knows what it must where it arrives. *)
LEMMA Arrives ==
  ASSUME JInv, NEW w \in Procs, NEW here, At(w, here), NEW there, Walks(w, there),
         NEW gone, NEW made, NEW unindexed, NEW unbacked,
         Onto(here, there, gone, made, unindexed, unbacked), Takes(w, gone, made, unindexed, unbacked)
  PROVE  Knows(w)'
<1>1. OwnMarks(w) /\ Choice(w) /\ OwnIndexes(w) /\ OwnBackups(w)
  BY DEF JInv, IInv, Local, Knows
<1>2. there \notin Recovering /\ proc'[w].pc = there
  BY DEF Onto, Walks
<1>3. Choice(w)'
  <2>1. /\ MarksOnto(here, there, gone, made)
        /\ \A k \in gone : marker'[Pair(w)][k] = None
        /\ \A k \in made : marker'[Pair(w)][k] # None
        /\ \A k \in Kinds : k \notin gone \cup made =>
             (marker'[Pair(w)][k] = None <=> marker[Pair(w)][k] = None)
    BY DEF Onto, Takes
  <2> QED
    BY <1>1, <2>1, MarksArrive
<1>4. OwnIndexes(w)'
  <2>1. /\ IndexesOnto(here, there, unindexed)
        /\ \A k \in Roles : index'[Output(Pair(w), k)] =
                              IF k \in unindexed THEN None ELSE index[Output(Pair(w), k)]
    BY DEF Onto, Takes
  <2> QED
    BY <1>1, <1>2, <2>1, IndexesArrive
<1>5. OwnBackups(w)'
  <2>1. /\ BackupsOnto(here, there, unbacked)
        /\ \A k \in Roles : backup'[Pair(w)][k] =
                              IF k \in unbacked THEN Absent ELSE backup[Pair(w)][k]
    BY DEF Onto, Takes
  <2> QED
    BY <1>1, <2>1, BackupsArrive
<1>6. ReadMatch(w)' /\ IndexKnown(w)'
  BY <1>2 DEF ReadMatch, IndexKnown, ReadAt, Indexed, Reading, Taken, Removing, Recovering
<1> QED
  BY <1>3, <1>4, <1>5, <1>6 DEF Knows

-----------------------------------------------------------------------------
(* What an operation does to the journal of the pair it works on. *)

(* A pair without markers has a coherent journal, whatever else is there. *)
LEMMA BlankJournal ==
  ASSUME NEW q, \A k \in Kinds : marker'[q][k] = None
  PROVE  Journal(q)'
<1>1. marker'[q]["active"] = None /\ marker'[q]["rollback"] = None
  BY DEF Kinds
<1> QED
  BY <1>1 DEF Journal, OneInode, Agree, Backed, Unbacked, ActiveNamed, SelectsRollback

(* An output has one role in a pair. *)
LEMMA RoleOutput ==
  ASSUME NEW q \in Pairs
  PROVE  /\ \A k \in Roles : RoleIn(q, Output(q, k)) = k
         /\ \A o \in OutputsOf(q) : Output(q, RoleIn(q, o)) = o /\ RoleIn(q, o) \in Roles
         /\ \A o \in OutputsOf(q) : Peer(q, o) \in OutputsOf(q) /\ Peer(q, o) # o
         /\ \A o \in OutputsOf(q) : OutputsOf(q) = {o, Peer(q, o)}
BY PairsAssumption DEF RoleIn, Output, OutputsOf, Roles, Peer

(* A backup goes when no index asks for it. *)
LEMMA JournalWithoutBackup ==
  ASSUME NEW q \in Pairs, Journal(q), marker' = marker, index' = index, NEW k \in Roles,
         \A j \in Roles : backup'[q][j] = IF j = k THEN Absent ELSE backup[q][j],
         ~Names(Output(q, k), q) \/ ~SelectsRollback(marker[q])
  PROVE  Journal(q)'
<1>1. OneInode(q)' /\ Agree(q)' /\ ActiveNamed(q)'
  BY DEF Journal, OneInode, Agree, ActiveNamed, Names
<1>3. Unbacked(q)'
  BY DEF Journal, Unbacked
<1>4. Backed(q)'
  BY RoleOutput DEF Journal, Backed, Names
<1> QED
  BY <1>1, <1>3, <1>4 DEF Journal

(* An index goes when the transaction is not only begun. *)
LEMMA JournalWithoutIndex ==
  ASSUME NEW q \in Pairs, Journal(q), marker' = marker, backup' = backup,
         \A o \in OutputsOf(q) : index'[o] = index[o] \/ index'[o] = None,
         marker[q]["active"] # None => marker[q]["committed"] # None \/ marker[q]["rollback"] # None
  PROVE  Journal(q)'
<1>1. \A o \in OutputsOf(q) : Names(o, q)' => Names(o, q) /\ index'[o] = index[o]
  BY DEF Names
<1>2. OneInode(q)' /\ Unbacked(q)' /\ ActiveNamed(q)'
  BY DEF Journal, OneInode, Unbacked, ActiveNamed
<1>3. Agree(q)' /\ Backed(q)'
  BY <1>1 DEF Journal, Agree, Backed
<1> QED
  BY <1>2, <1>3 DEF Journal

(* A marker goes when that cannot revive the transaction. *)
LEMMA JournalWithoutMarker ==
  ASSUME NEW q \in Pairs, Journal(q), NEW kind \in Kinds, backup' = backup, index' = index,
         \A k \in Kinds : marker'[q][k] = IF k = kind THEN None ELSE marker[q][k],
         kind = "active" \/ marker[q]["active"] = None
  PROVE  Journal(q)'
<1>1. OneInode(q)' /\ Agree(q)' /\ Unbacked(q)'
  BY DEF Journal, OneInode, Agree, Unbacked, Names
<1>2. marker'[q]["active"] = None /\ (SelectsRollback(marker'[q]) => SelectsRollback(marker[q]))
  BY DEF Kinds, SelectsRollback
<1>3. Backed(q)' /\ ActiveNamed(q)'
  BY <1>2 DEF Journal, Backed, ActiveNamed, Names
<1> QED
  BY <1>1, <1>3 DEF Journal

(* A choice is a second link to the active marker. *)
LEMMA JournalWithChoice ==
  ASSUME NEW q \in Pairs, Journal(q), NEW kind \in {"committed", "rollback"}, backup' = backup, index' = index,
         marker[q]["active"] # None,
         \A k \in Kinds : marker'[q][k] = IF k = kind THEN marker[q]["active"] ELSE marker[q][k],
         kind = "committed" => marker[q]["rollback"] = None,
         kind = "rollback" => marker[q]["committed"] = None
  PROVE  Journal(q)'
<1>1. "active" \in Kinds /\ kind \in Kinds /\ kind # "active"
  BY DEF Kinds
<1>2. OneInode(q)'
  BY <1>1 DEF Journal, OneInode
<1>3. Agree(q)' /\ Unbacked(q)'
  BY <1>1 DEF Journal, Agree, Unbacked, Names
<1>4. SelectsRollback(marker'[q]) => SelectsRollback(marker[q])
  BY <1>1 DEF Kinds, SelectsRollback
<1>5. Backed(q)' /\ ActiveNamed(q)'
  BY <1>1, <1>4 DEF Journal, Backed, ActiveNamed, Names
<1> QED
  BY <1>2, <1>3, <1>5 DEF Journal

-----------------------------------------------------------------------------
(* The operations on a process's own pair. *)

(* A stop that changes no sidecar. *)
LEMMA StopStep ==
  ASSUME JInv, IInv', NEW w \in Procs, Stops(w), UNCHANGED <<backup, index, marker>>
  PROVE  JInv'
<1>1. Knows(w)' /\ Fine(w)' /\ Calm(w)
  BY Unaware DEF Stops, Calm
<1> QED
  BY <1>1, CalmStep

(* A look at the pair's markers, or a change of an output. *)
LEMMA LookStep ==
  ASSUME JInv, IInv', NEW w \in Procs, NEW here, At(w, here), NEW there, Walks(w, there),
         NEW gone, NEW made, Onto(here, there, gone, made, {}, {}),
         \A k \in gone : marker[Pair(w)][k] = None,
         \A k \in made : marker[Pair(w)][k] # None,
         UNCHANGED <<backup, index, marker>>
  PROVE  JInv'
<1>1. Takes(w, gone, made, {}, {})
  BY DEF Takes
<1>2. Knows(w)' /\ Fine(w)' /\ Calm(w)
  BY <1>1, Arrives DEF Walks, Calm
<1> QED
  BY <1>2, CalmStep

(* Restoring an output from a backup that is what was captured. *)
LEMMA OwnRestoreStep ==
  ASSUME JInv, IInv', NEW w \in Procs, NEW here, NEW there, Onto(here, there, {}, {}, {}, {}),
         NEW k \in Roles, (k = "summary" /\ here \in HeldS) \/ (k = "report" /\ here \in HeldR),
         Restore(w, here, Pair(w), k, Previous(w)[k], there)
  PROVE  JInv'
<1>1. At(w, here) /\ UNCHANGED <<backup, index, marker, clock, left>>
  BY DEF Restore, JInv
<1>2. backup[Pair(w)][k] = proc[w].seen[k]
  BY <1>1 DEF JInv, Knows, OwnBackups, At
<1>3. Previous(w)[k] <=> backup[Pair(w)][k] # Absent
  BY <1>2 DEF Previous
<1>4. Goto(w, there)
  BY <1>3 DEF Restore
<1>5. Walks(w, there)
  BY <1>4, GotoWalks
<1> QED
  BY <1>1, <1>5, LookStep

(* A process's own pair is a pair it works on. *)
LEMMA OwnMine ==
  ASSUME IInv, NEW w \in Procs, proc[w].pc \in Locked
  PROVE  Pair(w) \in Mine(w) \cap Pairs /\ \A k \in Roles : Output(Pair(w), k) \in Outputs
<1>1. Pair(w) \in Pairs
  BY LockedPair DEF IInv
<1>2. \A k \in Roles : Output(Pair(w), k) \in Outputs
  BY <1>1, PairOutputs
<1> QED
  BY <1>1, <1>2 DEF Mine

(* A step that changes one backup of w's pair touches nothing else. *)
LEMMA OnlyBackup ==
  ASSUME NEW w \in Procs, NEW q \in Pairs, \A v \in Procs \ {w} : proc'[v] = proc[v],
         UNCHANGED <<index, marker>>, \A p \in Pairs \ {q} : backup'[p] = backup[p]
  PROVE  Only(w, q) /\ Gentle(w, q)
BY DEF Only, Gentle, Copies, Names

(* One backup goes. *)
LEMMA BackupGone ==
  ASSUME TypeOK, NEW q \in Pairs, NEW k \in Roles, backup' = [backup EXCEPT ![q][k] = Absent]
  PROVE  /\ \A j \in Roles : backup'[q][j] = IF j = k THEN Absent ELSE backup[q][j]
         /\ \A p \in Pairs \ {q} : backup'[p] = backup[p]
<1>1. backup \in [Pairs -> [Roles -> Nat]]
  BY DEF TypeOK
<1>2. backup' = [backup EXCEPT ![q] = [backup[q] EXCEPT ![k] = Absent]]
  OBVIOUS
<1> QED
  BY <1>1, <1>2

(* Removing a backup of the pair. *)
LEMMA OwnDropBackupStep ==
  ASSUME JInv, IInv', NEW w \in Procs, NEW here, At(w, here), here \in Locked, NEW there, NEW k \in Roles,
         Stops(w) \/ (Walks(w, there) /\ Onto(here, there, {}, {}, {}, {k})),
         backup' = [backup EXCEPT ![Pair(w)][k] = Absent], UNCHANGED <<dest, index, marker, clock, left>>,
         ~Names(Output(Pair(w), k), Pair(w)) \/ ~SelectsRollback(marker[Pair(w)])
  PROVE  JInv'
<1>1. IInv /\ TypeOK /\ proc[w].pc \in Locked
  BY DEF JInv, IInv, At
<1>2. PICK q \in Pairs : q \in Mine(w) /\ q = Pair(w) /\ Journal(q)
  BY <1>1, OwnMine DEF JInv
<1>8. ~Names(Output(q, k), q) \/ ~SelectsRollback(marker[q])
  BY <1>2
<1>9. backup' = [backup EXCEPT ![q][k] = Absent] /\ marker' = marker /\ index' = index
  BY <1>2
<1>10. q # Pair(w) => Gentle(w, q)
  BY <1>2
<1>3. /\ \A j \in Roles : backup'[q][j] = IF j = k THEN Absent ELSE backup[q][j]
      /\ \A p \in Pairs \ {q} : backup'[p] = backup[p]
  BY <1>1, <1>2, <1>9, BackupGone
<1>4. \A v \in Procs \ {w} : proc'[v] = proc[v]
  BY DEF Stops, Walks
<1>5. Only(w, q)
  BY <1>2, <1>3, <1>4, OnlyBackup
<1>6. Journal(q)'
  BY <1>2, <1>3, <1>8, <1>9, JournalWithoutBackup
<1>7. Knows(w)' /\ Fine(w)'
  <2>1. CASE Stops(w)
    BY <2>1, Unaware DEF Stops
  <2>2. CASE Walks(w, there) /\ Onto(here, there, {}, {}, {}, {k})
    <3>1. Takes(w, {}, {}, {}, {k})
      BY <1>2, <1>3 DEF Takes
    <3> QED
      BY <2>2, <3>1, Arrives DEF Walks
  <2> QED
    BY <2>1, <2>2
<1> QED
  BY <1>1, <1>2, <1>5, <1>6, <1>7, <1>10, JournalStep

(* Removing indexes of the pair. *)
LEMMA OwnIndexesStep ==
  ASSUME JInv, IInv', NEW w \in Procs, NEW here, At(w, here), here \in Owning, NEW there,
         NEW dropped \in SUBSET Roles,
         Stops(w) \/ (Walks(w, there) /\ Onto(here, there, {}, {}, dropped, {})),
         \A o \in Outputs :
           index'[o] = IF \E k \in dropped : o = Output(Pair(w), k) THEN None ELSE index[o],
         UNCHANGED <<backup, marker>>, marker[Pair(w)]["active"] = None
  PROVE  JInv'
<1>1. IInv /\ proc[w].pc \in Locked /\ proc[w].pc = here
  BY DEF JInv, At, Owning, Locked
<1>2. PICK q \in Pairs : q \in Mine(w) /\ q = Pair(w) /\ Journal(q)
  BY <1>1, OwnMine DEF JInv
<1>3. \A v \in Procs \ {w} : proc'[v] = proc[v]
  BY DEF Stops, Walks
<1>4. /\ OutputsOf(q) \subseteq Outputs
      /\ \A k \in Roles : Output(q, k) \in OutputsOf(q)
  BY PairOutputs
<1>5. \A k \in Roles : Names(Output(q, k), q) \/ index[Output(q, k)] = None
  BY <1>1, <1>2 DEF JInv, Knows, OwnIndexes, Names
<1>6. Only(w, q)
  <2>1. \A o \in Outputs \ OutputsOf(q) : index'[o] = index[o]
    BY <1>2, <1>4
  <2>2. ASSUME NEW p \in Pairs \ {q}, NEW o \in Outputs, Names(o, p) \/ Names(o, p)'
        PROVE  index'[o] = index[o]
    <3>1. CASE \E k \in dropped : o = Output(q, k)
      BY <1>2, <1>5, <2>2, <3>1 DEF Names
    <3>2. CASE ~\E k \in dropped : o = Output(q, k)
      BY <1>2, <3>2
    <3> QED
      BY <3>1, <3>2
  <2> QED
    BY <1>2, <1>3, <2>1, <2>2 DEF Only
<1>7. Journal(q)'
  <2>1. \A o \in OutputsOf(q) : index'[o] = index[o] \/ index'[o] = None
    BY <1>4
  <2>2. marker' = marker /\ backup' = backup /\ marker[q]["active"] = None
    BY <1>2
  <2> QED
    BY <1>2, <2>1, <2>2, JournalWithoutIndex
<1>8. Knows(w)' /\ Fine(w)'
  <2>1. CASE Stops(w)
    BY <2>1, Unaware DEF Stops
  <2>2. CASE Walks(w, there) /\ Onto(here, there, {}, {}, dropped, {})
    <3>1. \A j, k \in Roles : Output(q, j) = Output(q, k) => j = k
      BY RoleOutput
    <3>2. ASSUME NEW k \in Roles
          PROVE  index'[Output(q, k)] = IF k \in dropped THEN None ELSE index[Output(q, k)]
      BY <1>2, <1>4, <3>1
    <3>3. Takes(w, {}, {}, dropped, {})
      BY <1>2, <3>2 DEF Takes
    <3> QED
      BY <2>2, <3>3, Arrives DEF Walks
  <2> QED
    BY <2>1, <2>2
<1>9. q # Pair(w) => Gentle(w, q)
  BY <1>2
<1> QED
  BY <1>1, <1>2, <1>6, <1>7, <1>8, <1>9, JournalStep

(* remove_anchored_file of an index of the pair. *)
LEMMA OwnDropIndexStep ==
  ASSUME JInv, IInv', NEW w \in Procs, NEW here, At(w, here), here \in Owning, NEW there, NEW k \in Roles,
         Stops(w) \/ (Walks(w, there) /\ Onto(here, there, {}, {}, {k}, {})),
         index' = [index EXCEPT ![Output(Pair(w), k)] = None],
         UNCHANGED <<dest, backup, marker, clock, left>>, here \in Inactive
  PROVE  JInv'
<1>1. index \in [Outputs -> Index \cup {None}]
  BY DEF JInv, IInv, TypeOK
<1>2. marker[Pair(w)]["active"] = None
  BY DEF JInv, Knows, Choice, At
<1>3. \A o \in Outputs : index'[o] = IF \E j \in {k} : o = Output(Pair(w), j) THEN None ELSE index[o]
  BY <1>1
<1>4. {k} \in SUBSET Roles /\ UNCHANGED <<backup, marker>>
  OBVIOUS
<1> QED
  BY <1>1, <1>2, <1>3, <1>4, OwnIndexesStep

(* One marker changes. *)
LEMMA MarkerSet ==
  ASSUME TypeOK, NEW q \in Pairs, NEW kind \in Kinds, NEW m,
         marker' = [marker EXCEPT ![q][kind] = m]
  PROVE  /\ \A k \in Kinds : marker'[q][k] = IF k = kind THEN m ELSE marker[q][k]
         /\ \A p \in Pairs \ {q} : marker'[p] = marker[p]
<1>1. marker \in [Pairs -> [Kinds -> Marker \cup {None}]]
  BY DEF TypeOK
<1>2. marker' = [marker EXCEPT ![q] = [marker[q] EXCEPT ![kind] = m]]
  OBVIOUS
<1> QED
  BY <1>1, <1>2

(* One marker goes. *)
LEMMA MarkerGone ==
  ASSUME TypeOK, NEW q \in Pairs, NEW kind \in Kinds, marker' = [marker EXCEPT ![q][kind] = None]
  PROVE  /\ \A k \in Kinds : marker'[q][k] = IF k = kind THEN None ELSE marker[q][k]
         /\ \A p \in Pairs \ {q} : marker'[p] = marker[p]
<1>1. marker \in [Pairs -> [Kinds -> Marker \cup {None}]]
  BY DEF TypeOK
<1>2. marker' = [marker EXCEPT ![q] = [marker[q] EXCEPT ![kind] = None]]
  OBVIOUS
<1> QED
  BY <1>1, <1>2

(* A step that changes markers of q touches nothing else. *)
LEMMA OnlyMarkers ==
  ASSUME NEW w \in Procs, NEW q \in Pairs, \A v \in Procs \ {w} : proc'[v] = proc[v],
         UNCHANGED <<index, backup>>, \A p \in Pairs \ {q} : marker'[p] = marker[p]
  PROVE  Only(w, q)
BY DEF Only, Names

(* Removing a marker of the pair. *)
LEMMA OwnMarkerStep ==
  ASSUME JInv, IInv', NEW w \in Procs, NEW here, At(w, here), here \in Locked, NEW there, NEW kind \in Kinds,
         Stops(w) \/ (Walks(w, there) /\ Onto(here, there, {kind}, {}, {}, {})),
         \A k \in Kinds : marker'[Pair(w)][k] = IF k = kind THEN None ELSE marker[Pair(w)][k],
         \A p \in Pairs \ {Pair(w)} : marker'[p] = marker[p],
         UNCHANGED <<backup, index>>,
         kind = "active" \/ marker[Pair(w)]["active"] = None
  PROVE  JInv'
<1>1. IInv /\ proc[w].pc \in Locked
  BY DEF JInv, At
<1>2. PICK q \in Pairs : q \in Mine(w) /\ q = Pair(w) /\ Journal(q)
  BY <1>1, OwnMine DEF JInv
<1>3. \A v \in Procs \ {w} : proc'[v] = proc[v]
  BY DEF Stops, Walks
<1>4. /\ \A k \in Kinds : marker'[q][k] = IF k = kind THEN None ELSE marker[q][k]
      /\ \A p \in Pairs \ {q} : marker'[p] = marker[p]
      /\ kind = "active" \/ marker[q]["active"] = None
      /\ backup' = backup /\ index' = index
  BY <1>2
<1>5. Only(w, q)
  BY <1>3, <1>4, OnlyMarkers
<1>6. Journal(q)'
  BY <1>2, <1>4, JournalWithoutMarker
<1>7. Knows(w)' /\ Fine(w)'
  <2>1. CASE Stops(w)
    BY <2>1, Unaware DEF Stops
  <2>2. CASE Walks(w, there) /\ Onto(here, there, {kind}, {}, {}, {})
    <3>1. Takes(w, {kind}, {}, {}, {})
      BY <1>2, <1>4 DEF Takes
    <3> QED
      BY <2>2, <3>1, Arrives DEF Walks
  <2> QED
    BY <2>1, <2>2
<1>8. q # Pair(w) => Gentle(w, q)
  BY <1>2
<1> QED
  BY <1>1, <1>2, <1>5, <1>6, <1>7, <1>8, JournalStep

(* remove_anchored_file of a marker of the pair. *)
LEMMA OwnRemoveStep ==
  ASSUME JInv, IInv', NEW w \in Procs, NEW here, here \in Locked, NEW there, NEW kind \in Kinds,
         Onto(here, there, {kind}, {}, {}, {}), RemoveMarker(w, here, Pair(w), kind, there),
         kind = "active" \/ here \in Inactive \cup NoActive
  PROVE  JInv'
<1>1. /\ At(w, here) /\ Goto(w, there) /\ marker' = [marker EXCEPT ![Pair(w)][kind] = None]
      /\ UNCHANGED <<backup, index>>
  BY DEF RemoveMarker
<1>2. TypeOK /\ Pair(w) \in Pairs
  BY <1>1, OwnMine DEF RemoveMarker, JInv, IInv, At
<1>3. Walks(w, there)
  BY <1>1, GotoWalks
<1>4. /\ \A k \in Kinds : marker'[Pair(w)][k] = IF k = kind THEN None ELSE marker[Pair(w)][k]
      /\ \A p \in Pairs \ {Pair(w)} : marker'[p] = marker[p]
  BY <1>1, <1>2, MarkerGone
<1>5. kind = "active" \/ marker[Pair(w)]["active"] = None
  BY <1>1 DEF JInv, IInv, Local, OwnMarks, Knows, Choice, At
<1> QED
  BY <1>1, <1>2, <1>3, <1>4, <1>5, OwnMarkerStep

(* transition_child_marker of the pair: the active name goes. *)
LEMMA OwnRetireStep ==
  ASSUME JInv, IInv', NEW w \in Procs, NEW here, here \in Locked, NEW there, NEW kind,
         Onto(here, there, {"active"}, {}, {}, {}), RetireActive(w, here, Pair(w), kind, there)
  PROVE  JInv'
<1>1. At(w, here) /\ UNCHANGED <<backup, index>>
  BY DEF RetireActive
<1>2. TypeOK /\ Pair(w) \in Pairs /\ "active" \in Kinds
  BY <1>1, OwnMine DEF RetireActive, JInv, IInv, At, Kinds
<1>3. CASE Fail(w, "raced") /\ UNCHANGED marker
  <2>1. Stops(w)
    BY <1>3, FailStops
  <2> QED
    BY <1>1, <1>2, <1>3, <2>1, StopStep
<1>4. CASE Goto(w, there) /\ marker' = [marker EXCEPT ![Pair(w)]["active"] = None]
  <2>1. Walks(w, there)
    BY <1>4, GotoWalks
  <2>2. /\ \A k \in Kinds : marker'[Pair(w)][k] = IF k = "active" THEN None ELSE marker[Pair(w)][k]
        /\ \A p \in Pairs \ {Pair(w)} : marker'[p] = marker[p]
    BY <1>2, <1>4, MarkerGone
  <2> QED
    BY <1>1, <1>2, <2>1, <2>2, OwnMarkerStep
<1> QED
  BY <1>3, <1>4 DEF RetireActive

(* transition_child_marker of the pair: the choice is linked. *)
LEMMA OwnChooseStep ==
  ASSUME JInv, IInv', NEW w \in Procs, NEW here, here \in Locked, NEW there,
         NEW kind \in {"committed", "rollback"},
         here \in NoCommitted \cap (NoRollback \cup NotReverted),
         Onto(here, there, {}, {kind}, {}, {}), LinkMarker(w, here, Pair(w), kind, there)
  PROVE  JInv'
<1>1. At(w, here) /\ UNCHANGED <<backup, index>> /\ kind \in Kinds
  BY DEF LinkMarker, Kinds
<1>2. TypeOK /\ IInv /\ proc[w].pc \in Locked
  BY <1>1 DEF LinkMarker, JInv, IInv, At
<1>3. marker[Pair(w)]["committed"] = None /\ marker[Pair(w)]["rollback"] = None
  BY <1>1 DEF JInv, IInv, Local, OwnMarks, Knows, Choice, At
<1>4. CASE Fail(w, "raced") /\ UNCHANGED marker
  <2>1. Stops(w)
    BY <1>4, FailStops
  <2> QED
    BY <1>1, <1>2, <1>4, <2>1, StopStep
<1>5. CASE /\ marker[Pair(w)]["active"] # None /\ Goto(w, there)
           /\ marker' = [marker EXCEPT ![Pair(w)][kind] = marker[Pair(w)]["active"]]
  <2>1. Walks(w, there)
    BY <1>5, GotoWalks
  <2>2. PICK q \in Pairs : q \in Mine(w) /\ q = Pair(w) /\ Journal(q)
    BY <1>2, OwnMine DEF JInv
  <2>3. /\ \A k \in Kinds : marker'[q][k] = IF k = kind THEN marker[q]["active"] ELSE marker[q][k]
        /\ \A p \in Pairs \ {q} : marker'[p] = marker[p]
    <3>1. marker' = [marker EXCEPT ![q] = [marker[q] EXCEPT ![kind] = marker[q]["active"]]]
      BY <1>5, <2>2
    <3>2. marker \in [Pairs -> [Kinds -> Marker \cup {None}]]
      BY <1>2 DEF TypeOK
    <3> QED
      BY <1>1, <3>1, <3>2
  <2>4. Only(w, q)
    BY <1>1, <2>1, <2>3, OnlyMarkers DEF Walks
  <2>5. /\ marker[q]["active"] # None /\ backup' = backup /\ index' = index
        /\ kind = "committed" => marker[q]["rollback"] = None
        /\ kind = "rollback" => marker[q]["committed"] = None
    BY <1>1, <1>3, <1>5, <2>2
  <2>6. Journal(q)'
    BY <2>2, <2>3, <2>5, JournalWithChoice
  <2>7. Takes(w, {}, {kind}, {}, {})
    BY <1>1, <2>2, <2>3, <2>5 DEF Takes
  <2>8. Knows(w)' /\ Fine(w)'
    BY <1>1, <2>1, <2>7, Arrives DEF Walks
  <2>9. q # Pair(w) => Gentle(w, q)
    BY <2>2
  <2> QED
    BY <1>2, <2>2, <2>4, <2>6, <2>8, <2>9, JournalStep
<1>6. marker[Pair(w)][kind] = None
  BY <1>3
<1> QED
  BY <1>4, <1>5, <1>6 DEF LinkMarker

(* A pair whose markers are absent may be prepared in any way. *)
LEMMA UnmarkedStep ==
  ASSUME JInv, IInv', NEW w \in Procs, proc[w].pc \in Unmarked, marker' = marker,
         \A v \in Procs \ {w} : proc'[v] = proc[v],
         \A p \in Pairs \ {Pair(w)} : backup'[p] = backup[p],
         \A p \in Pairs \ {Pair(w)}, o \in Outputs : Names(o, p) \/ Names(o, p)' => index'[o] = index[o],
         \A o \in Outputs \ OutputsOf(Pair(w)) : index'[o] = index[o],
         Knows(w)', Fine(w)'
  PROVE  JInv'
<1>1. IInv /\ proc[w].pc \in Locked
  BY DEF JInv, Unmarked, Locked, Publishing, PairCleanup
<1>2. PICK q \in Pairs : q \in Mine(w) /\ q = Pair(w)
  BY <1>1, OwnMine DEF JInv
<1>3. \A k \in Kinds : marker'[q][k] = None
  BY <1>1, <1>2 DEF IInv, Local, OwnMarks, NoActive, NoCommitted, NoRollback, Kinds
<1>4. Journal(q)'
  BY <1>3, BlankJournal
<1>5. Only(w, q) /\ (q # Pair(w) => Gentle(w, q))
  BY <1>2 DEF Only
<1> QED
  BY <1>1, <1>2, <1>4, <1>5, JournalStep

(* Outside recover_destination nothing read is relied upon. *)
LEMMA NothingRead ==
  ASSUME NEW w \in Procs, proc'[w].pc \notin Recovering
  PROVE  ReadMatch(w)' /\ IndexKnown(w)'
BY DEF ReadMatch, IndexKnown, ReadAt, Indexed, Reading, Taken, Removing, Recovering

(* capture_anchored: the backup is what was seen. *)
LEMMA CaptureStep ==
  ASSUME JInv, IInv', NEW w \in Procs, NEW here, NEW there, NEW k \in Roles,
         \/ here = "captureS" /\ there = "captureR" /\ k = "summary"
         \/ here = "captureR" /\ there = "indexS" /\ k = "report",
         Capture(w, here, k, there)
  PROVE  JInv'
<1> DEFINE o == Output(Pair(w), k)
           seen == [proc[w].seen EXCEPT ![k] = dest[o]]
<1>1. /\ here \in Unmarked /\ here \in ClearS \cap ClearR /\ here \in Locked
      /\ there \notin Recovering
  BY DEF Unmarked, ClearS, ClearR, Unindexed, Locked, Publishing, Recovering
<1>2. /\ IInv /\ TypeOK /\ proc[w] \in ProcState /\ proc[w].pc = here
      /\ Pair(w) \in Pairs /\ UNCHANGED <<index, marker>>
  BY <1>1, LockedPair DEF Capture, At, JInv, IInv
<1>3. proc' = [proc EXCEPT ![w] = [proc[w] EXCEPT !.pc = there, !.seen = seen]]
  BY DEF Capture
<1>4. seen[k] = dest[o] /\ \A j \in Roles \ {k} : seen[j] = proc[w].seen[j]
  BY <1>2 DEF ProcState
<1>5. /\ proc'[w].pc = there /\ proc'[w].pair = Pair(w) /\ proc'[w].seen = seen
      /\ proc'[w].why = proc[w].why
      /\ \A v \in Procs \ {w} : proc'[v] = proc[v]
  BY <1>2, <1>3 DEF TypeOK, ProcState, Pair
<1>6. /\ \A j \in Roles : backup'[Pair(w)][j] = IF j = k THEN dest[o] ELSE backup[Pair(w)][j]
      /\ \A p \in Pairs \ {Pair(w)} : backup'[p] = backup[p]
  <2>1. backup' = [backup EXCEPT ![Pair(w)] = [backup[Pair(w)] EXCEPT ![k] = dest[o]]]
    BY DEF Capture
  <2>2. backup \in [Pairs -> [Roles -> Nat]]
    BY <1>2 DEF TypeOK
  <2> QED
    BY <1>2, <2>1, <2>2
<1> HIDE DEF seen, o
<1>7. Choice(w)'
  BY <1>5 DEF Choice, Inactive, Uncommitted, NotReverted, Replacing, IsCommitted, IsReverted,
              CommitDone, RollBackDone, Unwinding
<1>8. OwnIndexes(w)'
  <2>1. index[SummaryOf[Pair(w)]] = None /\ index[ReportOf[Pair(w)]] = None
    BY <1>1, <1>2 DEF JInv, Knows, OwnIndexes
  <2>2. Pair(w)' = Pair(w) /\ index' = index
    BY <1>2, <1>5 DEF Pair
  <2>3. there \notin NamedS \cup NamedR \cup Recovering
    BY DEF NamedS, NamedR, Marked, Replacing, Recovering
  <2> QED
    BY <1>5, <2>1, <2>2, <2>3 DEF OwnIndexes, Output
<1>9. OwnBackups(w)'
  <2>1. Pair(w)' = Pair(w)
    BY <1>5 DEF Pair
  <2>2. CASE here = "captureS" /\ there = "captureR" /\ k = "summary"
    <3>1. backup[Pair(w)]["report"] = Absent
      BY <1>2, <2>2 DEF JInv, Knows, OwnBackups, GoneR
    <3>2. there \notin HeldR \cup GoneS
      BY <2>2 DEF HeldR, GoneS, GoneR
    <3> QED
      BY <1>4, <1>5, <1>6, <2>1, <2>2, <3>1, <3>2 DEF OwnBackups, Roles
  <2>3. CASE here = "captureR" /\ there = "indexS" /\ k = "report"
    <3>1. backup[Pair(w)]["summary"] = proc[w].seen["summary"]
      BY <1>2, <2>3 DEF JInv, Knows, OwnBackups, HeldS
    <3>2. there \notin GoneS \cup GoneR
      BY <2>3 DEF GoneS, GoneR
    <3> QED
      BY <1>4, <1>5, <1>6, <2>1, <2>3, <3>1, <3>2 DEF OwnBackups, Roles
  <2> QED
    BY <2>2, <2>3
<1>10. Knows(w)' /\ Fine(w)'
  BY <1>1, <1>5, <1>7, <1>8, <1>9, NothingRead DEF Knows, JInv, Fine
<1>11. /\ \A p \in Pairs \ {Pair(w)}, x \in Outputs : Names(x, p) \/ Names(x, p)' => index'[x] = index[x]
       /\ \A x \in Outputs \ OutputsOf(Pair(w)) : index'[x] = index[x]
  BY <1>2
<1> QED
  BY <1>1, <1>2, <1>5, <1>6, <1>10, <1>11, UnmarkedStep

(* publish_private_sidecar and its seal: an index of the pair appears. *)
LEMMA WriteIndexStep ==
  ASSUME JInv, IInv', NEW w \in Procs, NEW here, NEW there, NEW k \in Roles, At(w, here), Goto(w, there),
         \/ here = "indexS" /\ there = "sealS" /\ k = "summary"
         \/ here = "sealS" /\ there = "indexR" /\ k = "summary"
         \/ here = "indexR" /\ there = "sealR" /\ k = "report"
         \/ here = "sealR" /\ there = "mark" /\ k = "report",
         NEW i, i # None, i.pair = Pair(w), i.prev = (proc[w].seen[k] # Absent),
         index' = [index EXCEPT ![Output(Pair(w), k)] = i],
         UNCHANGED <<backup, marker, left>>
  PROVE  JInv'
<1> DEFINE o == Output(Pair(w), k)
<1>1. here \in Unmarked /\ here \in Locked /\ here \in Owning /\ there \notin Recovering /\ there \in Owning
  BY DEF Unmarked, Locked, Publishing, Recovering, Owning
<1>2. IInv /\ Pair(w) \in Pairs /\ proc[w].pc = here
  BY <1>1, LockedPair DEF At, JInv, IInv
<1>3. Walks(w, there)
  BY GotoWalks
<1>4. /\ o \in OutputsOf(Pair(w)) /\ o \in Outputs
      /\ \A x \in Outputs : index'[x] = IF x = o THEN i ELSE index[x]
  BY <1>2, PairOutputs DEF IInv, TypeOK
<1>5. index[o] # None => index[o].pair = Pair(w)
  BY <1>1, <1>2 DEF JInv, Knows, OwnIndexes
<1>6. \A j \in Roles : Output(Pair(w), j) \in Outputs /\ (Output(Pair(w), j) = o => j = k)
  BY <1>2, RoleOutput, PairOutputs
<1>7. Pair(w)' = Pair(w) /\ proc'[w].pc = there /\ proc'[w].seen = proc[w].seen
  BY <1>3 DEF Walks, Pair
<1> HIDE DEF o
<1>8. Choice(w)'
  BY <1>7 DEF Choice, Inactive, Uncommitted, NotReverted, Replacing, IsCommitted, IsReverted,
              CommitDone, RollBackDone, Unwinding
<1>9. OwnIndexes(w)'
  <2>1. \A j \in Roles : index'[Output(Pair(w), j)] = IF j = k THEN i ELSE index[Output(Pair(w), j)]
    BY <1>4, <1>6 DEF o
  <2>2. /\ index'[SummaryOf[Pair(w)]] = IF k = "summary" THEN i ELSE index[SummaryOf[Pair(w)]]
        /\ index'[ReportOf[Pair(w)]] = IF k = "report" THEN i ELSE index[ReportOf[Pair(w)]]
    BY <2>1 DEF Output, Roles
  <2>3. /\ there \in ClearS => here \in ClearS /\ k # "summary"
        /\ there \in ClearR => here \in ClearR /\ k # "report"
        /\ there \in NamedS => here \in NamedS \/ k = "summary"
        /\ there \in NamedR => here \in NamedR \/ k = "report"
    BY DEF ClearS, ClearR, NamedS, NamedR, Unindexed, Marked, Replacing, PairCleanup
  <2>4. \A j \in Roles : index'[Output(Pair(w), j)] # None =>
          /\ index'[Output(Pair(w), j)].pair = Pair(w)
          /\ index'[Output(Pair(w), j)].prev = (proc[w].seen[j] # Absent)
    BY <1>1, <1>2, <2>1 DEF JInv, Knows, OwnIndexes
  <2>5. OwnIndexes(w)
    BY DEF JInv, Knows
  <2> QED
    BY <1>1, <1>2, <1>7, <2>2, <2>3, <2>4, <2>5 DEF OwnIndexes
<1>10. OwnBackups(w)'
  <2>1. /\ there \in HeldS => here \in HeldS
        /\ there \in HeldR => here \in HeldR
        /\ there \notin GoneS \cup GoneR
    BY DEF HeldS, HeldR, GoneS, GoneR, Replacing
  <2> QED
    BY <1>2, <1>7, <2>1 DEF JInv, Knows, OwnBackups
<1>11. Knows(w)' /\ Fine(w)'
  BY <1>1, <1>3, <1>7, <1>8, <1>9, <1>10, NothingRead DEF Knows, Walks
<1>12. \A p \in Pairs \ {Pair(w)}, x \in Outputs : Names(x, p) \/ Names(x, p)' => index'[x] = index[x]
  BY <1>4, <1>5 DEF Names
<1>13. \A x \in Outputs \ OutputsOf(Pair(w)) : index'[x] = index[x]
  BY <1>4
<1> QED
  BY <1>1, <1>2, <1>3, <1>11, <1>12, <1>13, UnmarkedStep DEF Walks

(* The places at which an index of the pair is written. *)
Writes(here, k, there) ==
  \/ here = "indexS" /\ there = "sealS" /\ k = "summary"
  \/ here = "sealS" /\ there = "indexR" /\ k = "summary"
  \/ here = "indexR" /\ there = "sealR" /\ k = "report"
  \/ here = "sealR" /\ there = "mark" /\ k = "report"

(* An index is published with what was captured. *)
LEMMA PublishIndexStep ==
  ASSUME JInv, IInv', NEW w \in Procs, NEW here, NEW there, NEW k \in Roles, Writes(here, k, there),
         PublishIndex(w, here, k, there)
  PROVE  JInv'
<1> DEFINE i == [pair |-> Pair(w), prev |-> Previous(w)[k], temp |-> TRUE]
<1>1. /\ At(w, here) /\ Goto(w, there) /\ UNCHANGED <<backup, marker, left>>
      /\ index' = [index EXCEPT ![Output(Pair(w), k)] = i]
  BY DEF PublishIndex
<1>2. proc[w].pc \in Locked
  BY <1>1 DEF At, Writes, Locked, Publishing
<1>3. Pair(w) \in Pairs
  BY <1>2, LockedPair DEF JInv, IInv
<1>4. i \in Index /\ i.pair = Pair(w) /\ i.prev = (proc[w].seen[k] # Absent)
  BY <1>3 DEF Index, Previous
<1>5. i # None
  BY <1>4, NoneAssumption
<1> HIDE DEF i
<1> QED
  BY <1>1, <1>4, <1>5, WriteIndexStep DEF Writes

(* Its temporary name goes. *)
LEMMA SealIndexStep ==
  ASSUME JInv, IInv', NEW w \in Procs, NEW here, NEW there, NEW k \in Roles, Writes(here, k, there),
         here \in {"sealS", "sealR"}, SealIndex(w, here, k, there)
  PROVE  JInv'
<1> DEFINE o == Output(Pair(w), k)
           i == [index[o] EXCEPT !.temp = FALSE]
<1>1. At(w, here) /\ Goto(w, there) /\ UNCHANGED <<backup, marker, left>>
  BY DEF SealIndex
<1>2. proc[w].pc \in Locked /\ proc[w].pc = here /\ here \in Owning
  BY <1>1 DEF At, Writes, Locked, Publishing, Owning
<1>3. Pair(w) \in Pairs /\ o \in Outputs
  BY <1>2, OwnMine DEF JInv
<1>4. index[o] # None
  BY <1>2 DEF JInv, IInv, Local, Unsealed, Writes, Output
<1>5. index[o] \in Index
  BY <1>3, <1>4 DEF JInv, IInv, TypeOK
<1>6. index[o].pair = Pair(w) /\ index[o].prev = (proc[w].seen[k] # Absent)
  BY <1>2, <1>4 DEF JInv, Knows, OwnIndexes
<1>7. i \in Index /\ i.pair = index[o].pair /\ i.prev = index[o].prev
  BY <1>5 DEF Index
<1>8. i # None
  BY <1>7, NoneAssumption
<1>9. index' = [index EXCEPT ![o] = i]
  BY DEF SealIndex
<1> HIDE DEF i
<1> QED
  BY <1>1, <1>6, <1>7, <1>8, <1>9, WriteIndexStep DEF Writes

(* The active marker appears, and records what the backups and the indexes *)
(* record: the transaction can be rolled back from now on.                 *)
LEMMA PublishMarkerStep ==
  ASSUME JInv, IInv', NEW w \in Procs, PublishMarker(w)
  PROVE  JInv'
<1>1. At(w, "mark") /\ Goto(w, "sealMark") /\ UNCHANGED <<dest, backup, index, clock, left>>
  BY DEF PublishMarker
<1>2. /\ proc[w].pc \in Locked /\ proc[w].pc = "mark" /\ "mark" \in Owning
      /\ "mark" \in NamedS \cap NamedR \cap HeldS \cap HeldR /\ "mark" \in Unmarked
  BY <1>1 DEF At, Locked, Publishing, Owning, NamedS, NamedR, HeldS, HeldR, Unmarked, Replacing
<1>3. PICK q \in Pairs : q \in Mine(w) /\ q = Pair(w)
  BY <1>2, OwnMine DEF JInv
<1>4. PICK m : m = [txn |-> proc[w].txn, prev |-> Previous(w), temp |-> TRUE]
  OBVIOUS
<1>5. m.prev = Previous(w) /\ m # None
  <2>1. proc[w].txn \in Nat
    BY DEF JInv, IInv, TypeOK, ProcState
  <2>2. m \in Marker
    BY <1>4, <2>1, PreviousType DEF Marker, Prevs
  <2> QED
    BY <1>4, <2>2, NoneAssumption
<1>6. /\ \A k \in Kinds : marker'[q][k] = IF k = "active" THEN m ELSE marker[q][k]
      /\ \A p \in Pairs \ {q} : marker'[p] = marker[p]
  <2>1. marker' = [marker EXCEPT ![q]["active"] = m]
    BY <1>3, <1>4 DEF PublishMarker
  <2>0. TypeOK
    BY DEF JInv, IInv
  <2> QED
    BY <2>1, <2>0, MarkerSet DEF Kinds
<1>7. marker[q]["committed"] = None /\ marker[q]["rollback"] = None
  BY <1>2, <1>3 DEF JInv, IInv, Local, OwnMarks, NoCommitted, NoRollback
<1>8. \A k \in Kinds : marker'[q][k] # None => k = "active" /\ marker'[q][k] = m
  BY <1>6, <1>7 DEF Kinds
<1>9. /\ \A k \in Roles : index[Output(q, k)] # None /\ index[Output(q, k)].pair = q
                          /\ index[Output(q, k)].prev = (proc[w].seen[k] # Absent)
      /\ \A k \in Roles : backup[q][k] = proc[w].seen[k]
  BY <1>2, <1>3 DEF JInv, Knows, OwnIndexes, OwnBackups, Output, Roles
<1>10. \A k \in Roles : m.prev[k] = (proc[w].seen[k] # Absent)
  BY <1>5 DEF Previous
<1>11. ASSUME NEW o \in OutputsOf(q)
       PROVE  /\ RoleIn(q, o) \in Roles /\ o = Output(q, RoleIn(q, o))
              /\ index[o] # None /\ index[o].pair = q
              /\ index[o].prev = (proc[w].seen[RoleIn(q, o)] # Absent)
  <2>1. RoleIn(q, o) \in Roles /\ Output(q, RoleIn(q, o)) = o
    BY RoleOutput
  <2> QED
    BY <1>9, <2>1
<1>12. Journal(q)'
  <2>1. OneInode(q)'
    BY <1>8 DEF OneInode
  <2>2. Agree(q)' /\ Backed(q)'
    BY <1>1, <1>8, <1>9, <1>10, <1>11 DEF Agree, Backed
  <2>3. Unbacked(q)' /\ ActiveNamed(q)'
    BY <1>1, <1>8, <1>9, <1>10, <1>11 DEF Unbacked, ActiveNamed, Names
  <2> QED
    BY <2>1, <2>2, <2>3 DEF Journal
<1>13. Walks(w, "sealMark")
  BY <1>1, GotoWalks
<1>14. Only(w, q) /\ (q # Pair(w) => Gentle(w, q))
  BY <1>1, <1>3, <1>6, <1>13, OnlyMarkers DEF Walks
<1>15. Takes(w, {}, {"active"}, {}, {})
  BY <1>1, <1>3, <1>5, <1>6 DEF Takes, Kinds
<1>16. Onto("mark", "sealMark", {}, {"active"}, {}, {})
  BY DEF Onto, MarksOnto, IndexesOnto, BackupsOnto, Locked, Recovering, Publishing, Inactive, Uncommitted,
         NotReverted, Replacing, IsCommitted, IsReverted, CommitDone, RollBackDone, Unwinding,
         ClearS, ClearR, NamedS, NamedR, Marked, Owning, Unindexed, PairCleanup, Deciding, HeldS, HeldR, GoneS, GoneR,
         NoActive, NoCommitted, NoRollback, Unmarked
<1>17. Knows(w)' /\ Fine(w)'
  BY <1>1, <1>13, <1>15, <1>16, Arrives DEF Walks
<1> QED
  BY <1>1, <1>2, <1>3, <1>12, <1>14, <1>17, JournalStep DEF JInv

(* Where the locked control points begin and end, for a process that goes  *)
(* from `here' to `there' while it publishes. *)
LEMMA PublishingOnto ==
  /\ Onto("sealMark", "verify", {}, {"active"}, {}, {})
  /\ Onto("verify", "putS", {}, {}, {}, {})
  /\ Onto("putS", "verifyR", {}, {}, {}, {})
  /\ Onto("verifyR", "putR", {}, {}, {}, {})
  /\ Onto("putR", "settle", {}, {}, {}, {})
  /\ \A here \in {"verify", "verifyR", "settle"} : Onto(here, "c_link", {}, {}, {}, {})
  /\ \A here \in {"putS", "verifyR", "putR", "settle"} : Onto(here, "r_link", {}, {}, {}, {})
<1>1. /\ Onto("sealMark", "verify", {}, {"active"}, {}, {})
      /\ Onto("verify", "putS", {}, {}, {}, {})
      /\ Onto("putS", "verifyR", {}, {}, {}, {})
  BY DEF Onto, MarksOnto, IndexesOnto, BackupsOnto, Locked, Recovering, Publishing, Inactive, Uncommitted,
         NotReverted, Replacing, IsCommitted, IsReverted, CommitDone, RollBackDone, Unwinding,
         ClearS, ClearR, NamedS, NamedR, Marked, Owning, Unindexed, PairCleanup, Deciding,
         HeldS, HeldR, GoneS, GoneR, NoActive, NoCommitted, NoRollback, Unmarked
<1>2. /\ Onto("verifyR", "putR", {}, {}, {}, {})
      /\ Onto("putR", "settle", {}, {}, {}, {})
      /\ \A here \in {"verify", "verifyR", "settle"} : Onto(here, "c_link", {}, {}, {}, {})
  BY DEF Onto, MarksOnto, IndexesOnto, BackupsOnto, Locked, Recovering, Publishing, Inactive, Uncommitted,
         NotReverted, Replacing, IsCommitted, IsReverted, CommitDone, RollBackDone, Unwinding,
         ClearS, ClearR, NamedS, NamedR, Marked, Owning, Unindexed, PairCleanup, Deciding,
         HeldS, HeldR, GoneS, GoneR, NoActive, NoCommitted, NoRollback, Unmarked
<1>3. /\ \A here \in {"putS", "verifyR", "putR", "settle"} : Onto(here, "r_link", {}, {}, {}, {})
  BY DEF Onto, MarksOnto, IndexesOnto, BackupsOnto, Locked, Recovering, Publishing, Inactive, Uncommitted,
         NotReverted, Replacing, IsCommitted, IsReverted, CommitDone, RollBackDone, Unwinding,
         ClearS, ClearR, NamedS, NamedR, Marked, Owning, Unindexed, PairCleanup, Deciding,
         HeldS, HeldR, GoneS, GoneR, NoActive, NoCommitted, NoRollback, Unmarked
<1> QED
  BY <1>1, <1>2, <1>3

(* The active marker's temporary name goes. *)
LEMMA SealMarkerStep ==
  ASSUME JInv, IInv', NEW w \in Procs, SealMarker(w)
  PROVE  JInv'
<1>1. At(w, "sealMark") /\ Goto(w, "verify") /\ UNCHANGED <<dest, backup, index, clock, left>>
  BY DEF SealMarker
<1>2. proc[w].pc \in Locked /\ proc[w].pc = "sealMark" /\ "sealMark" \in NoCommitted \cap NoRollback
  BY <1>1 DEF At, Locked, Publishing, NoCommitted, NoRollback, Replacing
<1>3. PICK q \in Pairs : q \in Mine(w) /\ q = Pair(w) /\ Journal(q)
  BY <1>2, OwnMine DEF JInv
<1>4. PICK m : m = marker[q]["active"]
  OBVIOUS
<1>5. m # None /\ m \in Marker /\ "active" \in Kinds
  <2>1. m # None
    BY <1>2, <1>3, <1>4 DEF JInv, IInv, Local, Unsealed
  <2>2. m \in Marker \cup {None}
    BY <1>3, <1>4 DEF JInv, IInv, TypeOK, Kinds
  <2> QED
    BY <2>1, <2>2 DEF Kinds
<1>6. PICK n : n = [m EXCEPT !.temp = FALSE]
  OBVIOUS
<1>7. n.prev = m.prev /\ n # None
  <2>1. n \in Marker
    BY <1>5, <1>6 DEF Marker
  <2> QED
    BY <1>5, <1>6, <2>1, NoneAssumption DEF Marker
<1>8. /\ \A k \in Kinds : marker'[q][k] = IF k = "active" THEN n ELSE marker[q][k]
      /\ \A p \in Pairs \ {q} : marker'[p] = marker[p]
  <2>1. marker' = [marker EXCEPT ![q]["active"] = n]
    BY <1>3, <1>4, <1>6 DEF SealMarker
  <2>0. TypeOK
    BY DEF JInv, IInv
  <2> QED
    BY <1>5, <2>1, <2>0, MarkerSet
<1>9. marker[q]["committed"] = None /\ marker[q]["rollback"] = None
  BY <1>2, <1>3 DEF JInv, IInv, Local, OwnMarks
<1>10. \A k \in Kinds : marker'[q][k] # None => k = "active" /\ marker'[q][k] = n
  BY <1>8, <1>9 DEF Kinds
<1>11. Journal(q)'
  <2>1. OneInode(q)'
    BY <1>10 DEF OneInode
  <2>2. Agree(q)' /\ Unbacked(q)'
    BY <1>1, <1>3, <1>4, <1>5, <1>7, <1>10 DEF Journal, Agree, Unbacked, Names
  <2>3. Backed(q)' /\ ActiveNamed(q)'
    BY <1>1, <1>3, <1>4, <1>5, <1>9 DEF Journal, Backed, ActiveNamed, Names, SelectsRollback
  <2> QED
    BY <2>1, <2>2, <2>3 DEF Journal
<1>12. Walks(w, "verify")
  BY <1>1, GotoWalks
<1>13. Only(w, q) /\ (q # Pair(w) => Gentle(w, q))
  BY <1>1, <1>3, <1>8, <1>12, OnlyMarkers DEF Walks
<1>14. Takes(w, {}, {"active"}, {}, {})
  BY <1>1, <1>3, <1>7, <1>8 DEF Takes, Kinds
<1>15. Knows(w)' /\ Fine(w)'
  BY <1>1, <1>12, <1>14, PublishingOnto, Arrives DEF Walks
<1> QED
  BY <1>1, <1>2, <1>3, <1>11, <1>13, <1>15, JournalStep DEF JInv

(* begin_anchored. *)
LEMMA BeginStep ==
  ASSUME JInv, IInv', NEW w \in Procs, Begin(w)
  PROVE  JInv'
<1>1. /\ Writes("indexS", "summary", "sealS") /\ Writes("sealS", "summary", "indexR")
      /\ Writes("indexR", "report", "sealR") /\ Writes("sealR", "report", "mark")
      /\ {"summary", "report"} = Roles
  BY DEF Writes, Roles
<1>2. CASE Capture(w, "captureS", "summary", "captureR") \/ Capture(w, "captureR", "report", "indexS")
  BY <1>1, <1>2, CaptureStep
<1>3. CASE PublishIndex(w, "indexS", "summary", "sealS") \/ PublishIndex(w, "indexR", "report", "sealR")
  BY <1>1, <1>3, PublishIndexStep
<1>4. CASE SealIndex(w, "sealS", "summary", "indexR") \/ SealIndex(w, "sealR", "report", "mark")
  BY <1>1, <1>4, SealIndexStep
<1> QED
  BY <1>2, <1>3, <1>4, PublishMarkerStep, SealMarkerStep DEF Begin

(* A step that goes on without touching a sidecar, and needs to learn      *)
(* nothing. *)
LEMMA PassStep ==
  ASSUME JInv, IInv', NEW w \in Procs, NEW here, At(w, here), NEW there, Walks(w, there),
         Onto(here, there, {}, {}, {}, {}), UNCHANGED <<backup, index, marker>>
  PROVE  JInv'
BY LookStep

(* verify_destinations, and an output that cannot be inspected. *)
LEMMA VerifyStep ==
  ASSUME JInv, IInv', NEW w \in Procs, NEW roles,
         \/ Verify(w, "verify", roles, "putS") \/ Verify(w, "verifyR", roles, "putR")
         \/ FailVerify(w)
  PROVE  JInv'
<1>1. PICK here \in {"verify", "verifyR"}, there \in {"putS", "putR", "c_link"} :
        At(w, here) /\ Onto(here, there, {}, {}, {}, {}) /\ Walks(w, there)
  <2>1. proc \in [Procs -> ProcState] /\ proc[w] \in ProcState /\ Fine(w)
    BY DEF JInv, IInv, TypeOK
  <2>2. ASSUME proc' = [proc EXCEPT ![w].pc = "c_link", ![w].aborting = TRUE]
        PROVE  Walks(w, "c_link")
    <3>1. proc' = [proc EXCEPT ![w] = [proc[w] EXCEPT !.pc = "c_link", !.aborting = TRUE]]
      BY <2>2
    <3> QED
      BY <2>1, <3>1 DEF Walks, Fine, ProcState
  <2>3. ASSUME proc' = [proc EXCEPT ![w].pc = "c_link", ![w].aborting = TRUE, ![w].why = "unread"]
        PROVE  Walks(w, "c_link")
    <3>1. proc' = [proc EXCEPT ![w] = [proc[w] EXCEPT !.pc = "c_link", !.aborting = TRUE, !.why = "unread"]]
      BY <2>3
    <3> QED
      BY <2>1, <3>1 DEF Walks, Fine, ProcState
  <2>4. Goto(w, "putS") => Walks(w, "putS")
    BY GotoWalks
  <2>5. Goto(w, "putR") => Walks(w, "putR")
    BY GotoWalks
  <2>6. CASE Verify(w, "verify", roles, "putS")
    BY <2>2, <2>4, <2>6, PublishingOnto DEF Verify
  <2>7. CASE Verify(w, "verifyR", roles, "putR")
    BY <2>2, <2>5, <2>7, PublishingOnto DEF Verify
  <2>8. CASE FailVerify(w)
    BY <2>3, <2>8, PublishingOnto DEF FailVerify, At
  <2> QED
    BY <2>6, <2>7, <2>8
<1>2. UNCHANGED <<backup, index, marker>>
  BY DEF Verify, FailVerify, files
<1> QED
  BY <1>1, <1>2, PassStep

(* The outputs are replaced; the journal is not. *)
LEMMA PutStep ==
  ASSUME JInv, IInv', NEW w \in Procs,
         \/ Put(w, "putS", "summary", "verifyR") \/ Put(w, "putR", "report", "settle")
         \/ Settle(w) \/ FailReplace(w)
  PROVE  JInv'
<1>1. PICK here \in {"putS", "verifyR", "putR", "settle"}, there \in {"verifyR", "settle", "c_link", "r_link"} :
        At(w, here) /\ Onto(here, there, {}, {}, {}, {}) /\ Goto(w, there)
  BY PublishingOnto DEF Put, Settle, FailReplace, At
<1>2. Walks(w, there)
  BY <1>1, GotoWalks
<1>3. UNCHANGED <<backup, index, marker>>
  BY DEF Put, Settle, FailReplace, files
<1> QED
  BY <1>1, <1>2, <1>3, PassStep

(* publish_pair_with_hooks up to the choice. *)
LEMMA ReplaceStep ==
  ASSUME JInv, IInv', NEW w \in Procs, Replace(w) \/ FailVerify(w) \/ FailReplace(w)
  PROVE  JInv'
BY VerifyStep, PutStep DEF Replace

(* The control points of the failure paths of begin_anchored. *)
LEMMA UnwindingOnto ==
  /\ Onto("captureR", "u1_restore", {}, {}, {}, {})
  /\ Onto("u1_restore", "u1_drop", {}, {}, {}, {})
  /\ \A here \in {"indexS", "mark"} : Onto(here, "u_restoreS", {}, {}, {}, {})
  /\ Onto("sealMark", "u_restoreS", {"active"}, {}, {}, {})
  /\ \A here \in {"sealS", "indexR"} : Onto(here, "u_restoreS", {}, {}, {"summary"}, {})
  /\ Onto("sealR", "u_restoreS", {}, {}, {"summary", "report"}, {})
  /\ Onto("u_restoreS", "u_restoreR", {}, {}, {}, {})
  /\ Onto("u_restoreR", "u_dropS", {}, {}, {}, {})
  /\ Onto("u_dropS", "u_dropR", {}, {}, {}, {"summary"})
  /\ Onto("u_dropR", "u_indexS", {}, {}, {}, {"report"})
  /\ Onto("u_indexS", "u_indexR", {}, {}, {"summary"}, {})
<1>1. /\ Onto("captureR", "u1_restore", {}, {}, {}, {})
      /\ Onto("u1_restore", "u1_drop", {}, {}, {}, {})
      /\ \A here \in {"indexS", "mark"} : Onto(here, "u_restoreS", {}, {}, {}, {})
  BY DEF Onto, MarksOnto, IndexesOnto, BackupsOnto, Locked, Recovering, Publishing, Inactive, Uncommitted,
         NotReverted, Replacing, IsCommitted, IsReverted, CommitDone, RollBackDone, Unwinding,
         ClearS, ClearR, NamedS, NamedR, Marked, Owning, Unindexed, PairCleanup, Deciding,
         HeldS, HeldR, GoneS, GoneR, NoActive, NoCommitted, NoRollback, Unmarked
<1>2. /\ Onto("sealMark", "u_restoreS", {"active"}, {}, {}, {})
      /\ \A here \in {"sealS", "indexR"} : Onto(here, "u_restoreS", {}, {}, {"summary"}, {})
      /\ Onto("sealR", "u_restoreS", {}, {}, {"summary", "report"}, {})
  BY DEF Onto, MarksOnto, IndexesOnto, BackupsOnto, Locked, Recovering, Publishing, Inactive, Uncommitted,
         NotReverted, Replacing, IsCommitted, IsReverted, CommitDone, RollBackDone, Unwinding,
         ClearS, ClearR, NamedS, NamedR, Marked, Owning, Unindexed, PairCleanup, Deciding,
         HeldS, HeldR, GoneS, GoneR, NoActive, NoCommitted, NoRollback, Unmarked
<1>3. /\ Onto("u_restoreS", "u_restoreR", {}, {}, {}, {})
      /\ Onto("u_restoreR", "u_dropS", {}, {}, {}, {})
      /\ Onto("u_dropS", "u_dropR", {}, {}, {}, {"summary"})
  BY DEF Onto, MarksOnto, IndexesOnto, BackupsOnto, Locked, Recovering, Publishing, Inactive, Uncommitted,
         NotReverted, Replacing, IsCommitted, IsReverted, CommitDone, RollBackDone, Unwinding,
         ClearS, ClearR, NamedS, NamedR, Marked, Owning, Unindexed, PairCleanup, Deciding,
         HeldS, HeldR, GoneS, GoneR, NoActive, NoCommitted, NoRollback, Unmarked
<1>4. /\ Onto("u_dropR", "u_indexS", {}, {}, {}, {"report"})
      /\ Onto("u_indexS", "u_indexR", {}, {}, {"summary"}, {})
  BY DEF Onto, MarksOnto, IndexesOnto, BackupsOnto, Locked, Recovering, Publishing, Inactive, Uncommitted,
         NotReverted, Replacing, IsCommitted, IsReverted, CommitDone, RollBackDone, Unwinding,
         ClearS, ClearR, NamedS, NamedR, Marked, Owning, Unindexed, PairCleanup, Deciding,
         HeldS, HeldR, GoneS, GoneR, NoActive, NoCommitted, NoRollback, Unmarked
<1> QED
  BY <1>1, <1>2, <1>3, <1>4

(* capture_anchored fails. *)
LEMMA FailCaptureStep ==
  ASSUME JInv, IInv', NEW w \in Procs, FailCapture(w)
  PROVE  JInv'
<1>1. UNCHANGED <<backup, index, marker>>
  BY DEF FailCapture, files
<1>2. CASE At(w, "captureS") /\ Fail(w, "notBegun")
  <2>1. Stops(w)
    BY <1>2, FailStops
  <2> QED
    BY <1>1, <2>1, StopStep
<1>3. CASE At(w, "captureR") /\ Goto(w, "u1_restore")
  <2>1. Walks(w, "u1_restore")
    BY <1>3, GotoWalks
  <2> QED
    BY <1>1, <1>3, <2>1, UnwindingOnto, PassStep
<1> QED
  BY <1>2, <1>3 DEF FailCapture

(* An index that failed to publish is removed again. *)
LEMMA FailIndexAtStep ==
  ASSUME JInv, IInv', NEW w \in Procs, NEW here, here \in {"indexS", "sealS", "indexR", "sealR"},
         NEW roles \in SUBSET Roles, Onto(here, "u_restoreS", {}, {}, roles, {}),
         FailIndexAt(w, here, {Output(Pair(w), k) : k \in roles})
  PROVE  JInv'
<1>1. /\ At(w, here) /\ Goto(w, "u_restoreS") /\ UNCHANGED <<dest, backup, marker, clock>>
      /\ index' = [o \in Outputs |-> IF o \in {Output(Pair(w), k) : k \in roles} THEN None ELSE index[o]]
  BY DEF FailIndexAt
<1>2. here \in Owning /\ here \in NoActive
  BY DEF Owning, Publishing, NoActive, Unmarked
<1>3. marker[Pair(w)]["active"] = None
  BY <1>1, <1>2 DEF JInv, IInv, Local, OwnMarks, At
<1>4. Walks(w, "u_restoreS")
  BY <1>1, GotoWalks
<1>5. \A o \in Outputs :
        index'[o] = IF \E k \in roles : o = Output(Pair(w), k) THEN None ELSE index[o]
  BY <1>1
<1> QED
  BY <1>1, <1>2, <1>3, <1>4, <1>5, OwnIndexesStep

(* Creating an index fails. *)
LEMMA FailIndexStep ==
  ASSUME JInv, IInv', NEW w \in Procs, FailIndex(w)
  PROVE  JInv'
<1>1. /\ {Output(Pair(w), k) : k \in {}} = {}
      /\ {Output(Pair(w), k) : k \in {"summary"}} = {SummaryOf[Pair(w)]}
      /\ {Output(Pair(w), k) : k \in {"summary", "report"}} = OutputsOf(Pair(w))
  BY DEF Output, OutputsOf
<1>2. {} \in SUBSET Roles /\ {"summary"} \in SUBSET Roles /\ {"summary", "report"} \in SUBSET Roles
  BY DEF Roles
<1>3. CASE FailIndexAt(w, "indexS", {})
  BY <1>1, <1>2, <1>3, UnwindingOnto, FailIndexAtStep
<1>4. CASE FailIndexAt(w, "sealS", {SummaryOf[Pair(w)]})
  BY <1>1, <1>2, <1>4, UnwindingOnto, FailIndexAtStep
<1>5. CASE FailIndexAt(w, "indexR", {SummaryOf[Pair(w)]})
  BY <1>1, <1>2, <1>5, UnwindingOnto, FailIndexAtStep
<1>6. CASE FailIndexAt(w, "sealR", OutputsOf(Pair(w)))
  BY <1>1, <1>2, <1>6, UnwindingOnto, FailIndexAtStep
<1> QED
  BY <1>3, <1>4, <1>5, <1>6 DEF FailIndex

(* The active marker failed to publish.  That its removal fails as well    *)
(* takes a second fault. *)
LEMMA FailMarkerStep ==
  ASSUME JInv, IInv', OneFaultAtATime, NEW w \in Procs, FailMarker(w)
  PROVE  JInv'
<1>1. Goto(w, "u_restoreS") /\ UNCHANGED <<dest, backup, index, clock>>
  BY DEF FailMarker
<1>2. Walks(w, "u_restoreS")
  BY <1>1, GotoWalks
<1>3. CASE At(w, "mark") /\ UNCHANGED marker /\ Mishap("faults")
  BY <1>1, <1>2, <1>3, UnwindingOnto, PassStep
<1>4. CASE /\ At(w, "sealMark") /\ Mishap("faults")
           /\ marker' = [marker EXCEPT ![Pair(w)]["active"] = None]
  <2>1. "sealMark" \in Locked /\ "active" \in Kinds
    BY DEF Locked, Publishing, Kinds
  <2>2. TypeOK /\ Pair(w) \in Pairs
    BY <1>4, <2>1, OwnMine DEF JInv, IInv, At
  <2>3. /\ \A k \in Kinds : marker'[Pair(w)][k] = IF k = "active" THEN None ELSE marker[Pair(w)][k]
        /\ \A p \in Pairs \ {Pair(w)} : marker'[p] = marker[p]
    BY <1>4, <2>1, <2>2, MarkerGone
  <2> QED
    BY <1>1, <1>2, <1>4, <2>1, <2>3, UnwindingOnto, OwnMarkerStep
<1>5. ~(left.faults > 1 /\ left' = [left EXCEPT !.faults = @ - 2])
  BY DEF JInv, IInv, TypeOK, OneFaultAtATime
<1> QED
  BY <1>3, <1>4, <1>5 DEF FailMarker

(* with_rollback of an aborted beginning. *)
LEMMA UnwindStep ==
  ASSUME JInv, IInv', NEW w \in Procs, Unwind(w)
  PROVE  JInv'
<1>1. /\ {"u1_restore", "u_restoreS", "u_restoreR"} \subseteq HeldS /\ "u_restoreR" \in HeldR
      /\ "summary" \in Roles /\ "report" \in Roles
  BY DEF HeldS, HeldR, Roles
<1>2. CASE \/ Restore(w, "u1_restore", Pair(w), "summary", Previous(w)["summary"], "u1_drop")
           \/ Restore(w, "u_restoreS", Pair(w), "summary", Previous(w)["summary"], "u_restoreR")
           \/ Restore(w, "u_restoreR", Pair(w), "report", Previous(w)["report"], "u_dropS")
  BY <1>1, <1>2, UnwindingOnto, OwnRestoreStep
<1>3. ASSUME proc[w].pc \in Unwinding PROVE ~SelectsRollback(marker[Pair(w)])
  BY <1>3 DEF JInv, Knows, Choice, Inactive, NotReverted, SelectsRollback
<1>4. CASE /\ At(w, "u1_drop") /\ backup' = [backup EXCEPT ![Pair(w)]["summary"] = Absent]
           /\ Fail(w, "notBegun") /\ UNCHANGED <<dest, index, marker, clock, left>>
  <2>1. Stops(w)
    BY <1>4, FailStops
  <2>2. "u1_drop" \in Locked /\ ~SelectsRollback(marker[Pair(w)])
    BY <1>3, <1>4 DEF At, Locked, Unwinding
  <2> QED
    BY <1>1, <1>4, <2>1, <2>2, OwnDropBackupStep
<1>5. CASE \/ DropBackup(w, "u_dropS", Pair(w), "summary", "u_dropR")
           \/ DropBackup(w, "u_dropR", Pair(w), "report", "u_indexS")
  <2>1. {"u_dropS", "u_dropR"} \subseteq Locked \cap Unwinding
    BY DEF Locked, Unwinding
  <2>2. ~SelectsRollback(marker[Pair(w)])
    BY <1>3, <1>5, <2>1 DEF DropBackup, At
  <2>3. ASSUME NEW here \in {"u_dropS", "u_dropR"}, NEW k \in Roles, NEW there,
               Onto(here, there, {}, {}, {}, {k}), DropBackup(w, here, Pair(w), k, there)
        PROVE  JInv'
    <3>1. /\ At(w, here) /\ Goto(w, there) /\ backup' = [backup EXCEPT ![Pair(w)][k] = Absent]
          /\ UNCHANGED <<dest, index, marker, clock, left>>
      BY <2>3 DEF DropBackup
    <3>2. Walks(w, there)
      BY <3>1, GotoWalks
    <3> QED
      BY <2>1, <2>2, <2>3, <3>1, <3>2, OwnDropBackupStep
  <2> QED
    BY <1>1, <1>5, <2>3, UnwindingOnto
<1>6. {"u_indexS", "u_indexR"} \subseteq Owning \cap Inactive
  BY DEF Owning, Inactive, Unwinding
<1>7. CASE DropIndex(w, "u_indexS", SummaryOf[Pair(w)], "u_indexR")
  <2>1. /\ At(w, "u_indexS") /\ Goto(w, "u_indexR") /\ UNCHANGED <<dest, backup, marker, clock, left>>
        /\ index' = [index EXCEPT ![Output(Pair(w), "summary")] = None]
    BY <1>7 DEF DropIndex, Output
  <2>2. Walks(w, "u_indexR")
    BY <2>1, GotoWalks
  <2> QED
    BY <1>1, <1>6, <2>1, <2>2, UnwindingOnto, OwnDropIndexStep
<1>8. CASE /\ At(w, "u_indexR") /\ index' = [index EXCEPT ![ReportOf[Pair(w)]] = None]
           /\ Fail(w, "notBegun") /\ UNCHANGED <<dest, backup, marker, clock, left>>
  <2>1. Stops(w)
    BY <1>8, FailStops
  <2>2. index' = [index EXCEPT ![Output(Pair(w), "report")] = None]
    BY <1>8 DEF Output
  <2> QED
    BY <1>1, <1>6, <1>8, <2>1, <2>2, OwnDropIndexStep
<1> QED
  BY <1>2, <1>4, <1>5, <1>7, <1>8 DEF Unwind

(* The control points of a commit and of a roll-back. *)
LEMMA DecidingOnto ==
  /\ Onto("c_link", "c_retire", {}, {"committed"}, {}, {})
  /\ Onto("c_retire", "c_dropS", {"active"}, {}, {}, {})
  /\ Onto("c_dropS", "c_dropR", {}, {}, {}, {"summary"})
  /\ Onto("c_dropR", "c_indexS", {}, {}, {}, {"report"})
  /\ Onto("c_indexS", "c_indexR", {}, {}, {"summary"}, {})
  /\ Onto("c_indexR", "c_rm", {}, {}, {"report"}, {})
  /\ Onto("c_rm", "c_done", {"committed"}, {}, {}, {})
  /\ Onto("r_link", "r_retire", {}, {"rollback"}, {}, {})
  /\ Onto("r_retire", "r_restoreS", {"active"}, {}, {}, {})
  /\ Onto("r_restoreS", "r_restoreR", {}, {}, {}, {})
  /\ Onto("r_restoreR", "r_indexS", {}, {}, {}, {})
  /\ Onto("r_indexS", "r_indexR", {}, {}, {"summary"}, {})
  /\ Onto("r_indexR", "r_dropS", {}, {}, {"report"}, {})
  /\ Onto("r_dropS", "r_dropR", {}, {}, {}, {"summary"})
  /\ Onto("r_dropR", "r_rm", {}, {}, {}, {"report"})
<1>1. /\ Onto("c_link", "c_retire", {}, {"committed"}, {}, {})
      /\ Onto("c_retire", "c_dropS", {"active"}, {}, {}, {})
      /\ Onto("c_dropS", "c_dropR", {}, {}, {}, {"summary"})
  BY DEF Onto, MarksOnto, IndexesOnto, BackupsOnto, Locked, Recovering, Publishing, Inactive, Uncommitted,
         NotReverted, Replacing, IsCommitted, IsReverted, CommitDone, RollBackDone, Unwinding,
         ClearS, ClearR, NamedS, NamedR, Marked, Owning, Unindexed, PairCleanup, Deciding,
         HeldS, HeldR, GoneS, GoneR, NoActive, NoCommitted, NoRollback, Unmarked
<1>2. /\ Onto("c_dropR", "c_indexS", {}, {}, {}, {"report"})
      /\ Onto("c_indexS", "c_indexR", {}, {}, {"summary"}, {})
      /\ Onto("c_indexR", "c_rm", {}, {}, {"report"}, {})
  BY DEF Onto, MarksOnto, IndexesOnto, BackupsOnto, Locked, Recovering, Publishing, Inactive, Uncommitted,
         NotReverted, Replacing, IsCommitted, IsReverted, CommitDone, RollBackDone, Unwinding,
         ClearS, ClearR, NamedS, NamedR, Marked, Owning, Unindexed, PairCleanup, Deciding,
         HeldS, HeldR, GoneS, GoneR, NoActive, NoCommitted, NoRollback, Unmarked
<1>3. /\ Onto("c_rm", "c_done", {"committed"}, {}, {}, {})
      /\ Onto("r_link", "r_retire", {}, {"rollback"}, {}, {})
      /\ Onto("r_retire", "r_restoreS", {"active"}, {}, {}, {})
  BY DEF Onto, MarksOnto, IndexesOnto, BackupsOnto, Locked, Recovering, Publishing, Inactive, Uncommitted,
         NotReverted, Replacing, IsCommitted, IsReverted, CommitDone, RollBackDone, Unwinding,
         ClearS, ClearR, NamedS, NamedR, Marked, Owning, Unindexed, PairCleanup, Deciding,
         HeldS, HeldR, GoneS, GoneR, NoActive, NoCommitted, NoRollback, Unmarked
<1>4. /\ Onto("r_restoreS", "r_restoreR", {}, {}, {}, {})
      /\ Onto("r_restoreR", "r_indexS", {}, {}, {}, {})
      /\ Onto("r_indexS", "r_indexR", {}, {}, {"summary"}, {})
  BY DEF Onto, MarksOnto, IndexesOnto, BackupsOnto, Locked, Recovering, Publishing, Inactive, Uncommitted,
         NotReverted, Replacing, IsCommitted, IsReverted, CommitDone, RollBackDone, Unwinding,
         ClearS, ClearR, NamedS, NamedR, Marked, Owning, Unindexed, PairCleanup, Deciding,
         HeldS, HeldR, GoneS, GoneR, NoActive, NoCommitted, NoRollback, Unmarked
<1>5. /\ Onto("r_indexR", "r_dropS", {}, {}, {"report"}, {})
      /\ Onto("r_dropS", "r_dropR", {}, {}, {}, {"summary"})
      /\ Onto("r_dropR", "r_rm", {}, {}, {}, {"report"})
  BY DEF Onto, MarksOnto, IndexesOnto, BackupsOnto, Locked, Recovering, Publishing, Inactive, Uncommitted,
         NotReverted, Replacing, IsCommitted, IsReverted, CommitDone, RollBackDone, Unwinding,
         ClearS, ClearR, NamedS, NamedR, Marked, Owning, Unindexed, PairCleanup, Deciding,
         HeldS, HeldR, GoneS, GoneR, NoActive, NoCommitted, NoRollback, Unmarked
<1> QED
  BY <1>1, <1>2, <1>3, <1>4, <1>5

(* DropBackup where it leads on. *)
LEMMA OwnDropStep ==
  ASSUME JInv, IInv', NEW w \in Procs, NEW here \in Locked, NEW k \in Roles, NEW there,
         Onto(here, there, {}, {}, {}, {k}), DropBackup(w, here, Pair(w), k, there),
         ~Names(Output(Pair(w), k), Pair(w)) \/ ~SelectsRollback(marker[Pair(w)])
  PROVE  JInv'
<1>1. /\ At(w, here) /\ Goto(w, there) /\ backup' = [backup EXCEPT ![Pair(w)][k] = Absent]
      /\ UNCHANGED <<dest, index, marker, clock, left>>
  BY DEF DropBackup
<1>2. Walks(w, there)
  BY <1>1, GotoWalks
<1> QED
  BY <1>1, <1>2, OwnDropBackupStep

(* DropIndex where it leads on. *)
LEMMA OwnIndexStep ==
  ASSUME JInv, IInv', NEW w \in Procs, NEW here \in Owning \cap Inactive, NEW k \in Roles, NEW there,
         Onto(here, there, {}, {}, {k}, {}), DropIndex(w, here, Output(Pair(w), k), there)
  PROVE  JInv'
<1>1. /\ At(w, here) /\ Goto(w, there) /\ index' = [index EXCEPT ![Output(Pair(w), k)] = None]
      /\ UNCHANGED <<dest, backup, marker, clock, left>>
  BY DEF DropIndex
<1>2. Walks(w, there)
  BY <1>1, GotoWalks
<1> QED
  BY <1>1, <1>2, OwnDropIndexStep

(* commit, and the end of the run. *)
LEMMA CommitStep ==
  ASSUME JInv, IInv', NEW w \in Procs, Commit(w)
  PROVE  JInv'
<1>1. /\ {"c_link", "c_retire", "c_dropS", "c_dropR", "c_indexS", "c_indexR", "c_rm"} \subseteq Locked
      /\ {"c_dropS", "c_dropR", "c_indexS", "c_indexR", "c_rm"} \subseteq Owning \cap Inactive
      /\ {"c_dropS", "c_dropR"} \subseteq NotReverted
      /\ "c_link" \in NoCommitted \cap (NoRollback \cup NotReverted)
      /\ "summary" \in Roles /\ "report" \in Roles /\ "committed" \in Kinds
  BY DEF Locked, Owning, Inactive, Deciding, CommitDone, NotReverted, NoCommitted, NoRollback, Roles, Kinds
<1>2. CASE LinkMarker(w, "c_link", Pair(w), "committed", "c_retire")
  BY <1>1, <1>2, DecidingOnto, OwnChooseStep
<1>3. CASE RetireActive(w, "c_retire", Pair(w), "committed", "c_dropS")
  BY <1>1, <1>3, DecidingOnto, OwnRetireStep
<1>4. ASSUME proc[w].pc \in {"c_dropS", "c_dropR"} PROVE ~SelectsRollback(marker[Pair(w)])
  BY <1>1, <1>4 DEF JInv, Knows, Choice, SelectsRollback
<1>5. CASE DropBackup(w, "c_dropS", Pair(w), "summary", "c_dropR")
  <2>1. ~SelectsRollback(marker[Pair(w)])
    BY <1>4, <1>5 DEF DropBackup, At
  <2> QED
    BY <1>1, <1>5, <2>1, DecidingOnto, OwnDropStep
<1>6. CASE DropBackup(w, "c_dropR", Pair(w), "report", "c_indexS")
  <2>1. ~SelectsRollback(marker[Pair(w)])
    BY <1>4, <1>6 DEF DropBackup, At
  <2> QED
    BY <1>1, <1>6, <2>1, DecidingOnto, OwnDropStep
<1>7. CASE DropIndex(w, "c_indexS", SummaryOf[Pair(w)], "c_indexR")
  <2>1. DropIndex(w, "c_indexS", Output(Pair(w), "summary"), "c_indexR")
    BY <1>7 DEF Output
  <2> QED
    BY <1>1, <2>1, DecidingOnto, OwnIndexStep
<1>8. CASE DropIndex(w, "c_indexR", ReportOf[Pair(w)], "c_rm")
  <2>1. DropIndex(w, "c_indexR", Output(Pair(w), "report"), "c_rm")
    BY <1>8 DEF Output
  <2> QED
    BY <1>1, <2>1, DecidingOnto, OwnIndexStep
<1>9. CASE RemoveMarker(w, "c_rm", Pair(w), "committed", "c_done")
  BY <1>1, <1>9, DecidingOnto, OwnRemoveStep
<1>10. CASE Finish(w)
  <2>1. "idle" \notin Locked /\ IdleProc.pc = "idle" /\ IdleProc.why = "none"
    BY DEF IdleProc, Locked, Recovering, PairCleanup, Publishing, Unwinding, Deciding
  <2>2. proc' = [proc EXCEPT ![w] = IdleProc] => Stops(w)
    BY <2>1 DEF Stops, Fine, JInv, IInv, TypeOK
  <2>3. Fail(w, "preserved") => Stops(w)
    BY FailStops
  <2>4. Stops(w) /\ UNCHANGED <<backup, index, marker>>
    BY <1>10, <2>2, <2>3 DEF Finish, files, JInv
  <2> QED
    BY <2>4, StopStep
<1> QED
  BY <1>2, <1>3, <1>5, <1>6, <1>7, <1>8, <1>9, <1>10 DEF Commit

(* roll_back. *)
LEMMA RollBackStep ==
  ASSUME JInv, IInv', NEW w \in Procs, RollBack(w)
  PROVE  JInv'
<1>1. /\ {"r_link", "r_retire", "r_dropS", "r_dropR", "r_rm"} \subseteq Locked
      /\ {"r_indexS", "r_indexR"} \subseteq Owning \cap Inactive
      /\ {"r_dropS", "r_dropR"} \subseteq ClearS \cap ClearR
      /\ "r_restoreS" \in HeldS /\ "r_restoreR" \in HeldR /\ "r_rm" \in Inactive
      /\ "r_link" \in NoCommitted \cap (NoRollback \cup NotReverted)
      /\ "summary" \in Roles /\ "report" \in Roles /\ "rollback" \in Kinds
  BY DEF Locked, Owning, Inactive, Deciding, RollBackDone, NotReverted, NoCommitted, NoRollback, Roles, Kinds,
         ClearS, ClearR, HeldS, HeldR
<1>2. CASE LinkMarker(w, "r_link", Pair(w), "rollback", "r_retire")
  BY <1>1, <1>2, DecidingOnto, OwnChooseStep
<1>3. CASE RetireActive(w, "r_retire", Pair(w), "rollback", "r_restoreS")
  BY <1>1, <1>3, DecidingOnto, OwnRetireStep
<1>4. CASE Restore(w, "r_restoreS", Pair(w), "summary", Previous(w)["summary"], "r_restoreR")
  BY <1>1, <1>4, DecidingOnto, OwnRestoreStep
<1>5. CASE Restore(w, "r_restoreR", Pair(w), "report", Previous(w)["report"], "r_indexS")
  BY <1>1, <1>5, DecidingOnto, OwnRestoreStep
<1>6. CASE DropIndex(w, "r_indexS", SummaryOf[Pair(w)], "r_indexR")
  <2>1. DropIndex(w, "r_indexS", Output(Pair(w), "summary"), "r_indexR")
    BY <1>6 DEF Output
  <2> QED
    BY <1>1, <2>1, DecidingOnto, OwnIndexStep
<1>7. CASE DropIndex(w, "r_indexR", ReportOf[Pair(w)], "r_dropS")
  <2>1. DropIndex(w, "r_indexR", Output(Pair(w), "report"), "r_dropS")
    BY <1>7 DEF Output
  <2> QED
    BY <1>1, <2>1, DecidingOnto, OwnIndexStep
<1>8. ASSUME proc[w].pc \in {"r_dropS", "r_dropR"}, NEW k \in Roles
      PROVE  ~Names(Output(Pair(w), k), Pair(w))
  BY <1>1, <1>8 DEF JInv, Knows, OwnIndexes, Names, Output
<1>9. CASE DropBackup(w, "r_dropS", Pair(w), "summary", "r_dropR")
  <2>1. ~Names(Output(Pair(w), "summary"), Pair(w))
    BY <1>1, <1>8, <1>9 DEF DropBackup, At
  <2> QED
    BY <1>1, <1>9, <2>1, DecidingOnto, OwnDropStep
<1>10. CASE DropBackup(w, "r_dropR", Pair(w), "report", "r_rm")
  <2>1. ~Names(Output(Pair(w), "report"), Pair(w))
    BY <1>1, <1>8, <1>10 DEF DropBackup, At
  <2> QED
    BY <1>1, <1>10, <2>1, DecidingOnto, OwnDropStep
<1>11. CASE /\ At(w, "r_rm") /\ marker' = [marker EXCEPT ![Pair(w)]["rollback"] = None]
            /\ Fail(w, "rolledBack") /\ UNCHANGED <<dest, backup, index, clock, left>>
  <2>1. Stops(w)
    BY <1>11, FailStops
  <2>2. TypeOK /\ Pair(w) \in Pairs
    BY <1>1, <1>11, OwnMine DEF JInv, IInv, At
  <2>3. /\ \A k \in Kinds : marker'[Pair(w)][k] = IF k = "rollback" THEN None ELSE marker[Pair(w)][k]
        /\ \A p \in Pairs \ {Pair(w)} : marker'[p] = marker[p]
    BY <1>1, <1>11, <2>2, MarkerGone
  <2>4. marker[Pair(w)]["active"] = None
    BY <1>1, <1>11 DEF JInv, Knows, Choice, At
  <2> QED
    BY <1>1, <1>11, <2>1, <2>2, <2>3, <2>4, OwnMarkerStep
<1> QED
  BY <1>2, <1>3, <1>4, <1>5, <1>6, <1>7, <1>9, <1>10, <1>11 DEF RollBack

(* The control points of recover_pair. *)
LEMMA CleanupOnto ==
  /\ Onto("classify", "pr_dropS", {}, {"rollback"}, {}, {})
  /\ Onto("classify", "pc_dropS", {}, {"committed"}, {}, {})
  /\ Onto("classify", "pu_dropS", {"active", "committed", "rollback"}, {}, {}, {})
  /\ Onto("pr_dropS", "pr_dropR", {}, {}, {}, {"summary"})
  /\ Onto("pr_dropR", "pr_rmActive", {}, {}, {}, {"report"})
  /\ Onto("pr_rmActive", "pr_rmRollback", {"active"}, {}, {}, {})
  /\ Onto("pr_rmRollback", "p_leave", {"rollback"}, {}, {}, {})
  /\ Onto("pc_dropS", "pc_dropR", {}, {}, {}, {"summary"})
  /\ Onto("pc_dropR", "pc_rmActive", {}, {}, {}, {"report"})
  /\ Onto("pc_rmActive", "pc_rmCommitted", {"active"}, {}, {}, {})
  /\ Onto("pc_rmCommitted", "p_leave", {"committed"}, {}, {}, {})
  /\ Onto("pu_dropS", "pu_dropR", {}, {}, {}, {"summary"})
  /\ Onto("pu_dropR", "p_leave", {}, {}, {}, {"report"})
  /\ Onto("p_leave", "captureS", {}, {}, {}, {})
<1>1. /\ Onto("classify", "pr_dropS", {}, {"rollback"}, {}, {})
      /\ Onto("classify", "pc_dropS", {}, {"committed"}, {}, {})
      /\ Onto("classify", "pu_dropS", {"active", "committed", "rollback"}, {}, {}, {})
  BY DEF Onto, MarksOnto, IndexesOnto, BackupsOnto, Locked, Recovering, Publishing, Inactive, Uncommitted,
         NotReverted, Replacing, IsCommitted, IsReverted, CommitDone, RollBackDone, Unwinding,
         ClearS, ClearR, NamedS, NamedR, Marked, Owning, Unindexed, PairCleanup, Deciding,
         HeldS, HeldR, GoneS, GoneR, NoActive, NoCommitted, NoRollback, Unmarked
<1>2. /\ Onto("pr_dropS", "pr_dropR", {}, {}, {}, {"summary"})
      /\ Onto("pr_dropR", "pr_rmActive", {}, {}, {}, {"report"})
      /\ Onto("pr_rmActive", "pr_rmRollback", {"active"}, {}, {}, {})
  BY DEF Onto, MarksOnto, IndexesOnto, BackupsOnto, Locked, Recovering, Publishing, Inactive, Uncommitted,
         NotReverted, Replacing, IsCommitted, IsReverted, CommitDone, RollBackDone, Unwinding,
         ClearS, ClearR, NamedS, NamedR, Marked, Owning, Unindexed, PairCleanup, Deciding,
         HeldS, HeldR, GoneS, GoneR, NoActive, NoCommitted, NoRollback, Unmarked
<1>3. /\ Onto("pr_rmRollback", "p_leave", {"rollback"}, {}, {}, {})
      /\ Onto("pc_dropS", "pc_dropR", {}, {}, {}, {"summary"})
      /\ Onto("pc_dropR", "pc_rmActive", {}, {}, {}, {"report"})
  BY DEF Onto, MarksOnto, IndexesOnto, BackupsOnto, Locked, Recovering, Publishing, Inactive, Uncommitted,
         NotReverted, Replacing, IsCommitted, IsReverted, CommitDone, RollBackDone, Unwinding,
         ClearS, ClearR, NamedS, NamedR, Marked, Owning, Unindexed, PairCleanup, Deciding,
         HeldS, HeldR, GoneS, GoneR, NoActive, NoCommitted, NoRollback, Unmarked
<1>4. /\ Onto("pc_rmActive", "pc_rmCommitted", {"active"}, {}, {}, {})
      /\ Onto("pc_rmCommitted", "p_leave", {"committed"}, {}, {}, {})
      /\ Onto("pu_dropS", "pu_dropR", {}, {}, {}, {"summary"})
  BY DEF Onto, MarksOnto, IndexesOnto, BackupsOnto, Locked, Recovering, Publishing, Inactive, Uncommitted,
         NotReverted, Replacing, IsCommitted, IsReverted, CommitDone, RollBackDone, Unwinding,
         ClearS, ClearR, NamedS, NamedR, Marked, Owning, Unindexed, PairCleanup, Deciding,
         HeldS, HeldR, GoneS, GoneR, NoActive, NoCommitted, NoRollback, Unmarked
<1>5. /\ Onto("pu_dropR", "p_leave", {}, {}, {}, {"report"})
      /\ Onto("p_leave", "captureS", {}, {}, {}, {})
  BY DEF Onto, MarksOnto, IndexesOnto, BackupsOnto, Locked, Recovering, Publishing, Inactive, Uncommitted,
         NotReverted, Replacing, IsCommitted, IsReverted, CommitDone, RollBackDone, Unwinding,
         ClearS, ClearR, NamedS, NamedR, Marked, Owning, Unindexed, PairCleanup, Deciding,
         HeldS, HeldR, GoneS, GoneR, NoActive, NoCommitted, NoRollback, Unmarked
<1> QED
  BY <1>1, <1>2, <1>3, <1>4, <1>5

(* The markers of a coherent journal do not contradict each other. *)
LEMMA NoContradiction ==
  ASSUME OneDecision, NEW q \in Pairs, Journal(q)
  PROVE  ~Contradiction(marker[q]) /\ ~Moved(q, marker[q])
<1>1. \A j, k \in Kinds : marker[q][j] # None /\ marker[q][k] # None => marker[q][j] = marker[q][k]
  BY DEF Journal, OneInode
<1>2. marker[q]["committed"] = None \/ marker[q]["rollback"] = None
  BY DEF OneDecision
<1> QED
  BY <1>1, <1>2 DEF Contradiction, Moved, SameFile, Kinds

(* classify finds a coherent journal, and never a marked transaction that  *)
(* is undecided: its indexes were recovered first. *)
LEMMA ClassifyStep ==
  ASSUME JInv, IInv', NEW w \in Procs, Classify(w)
  PROVE  JInv'
<1>1. At(w, "classify") /\ UNCHANGED <<backup, index, marker>>
  BY DEF Classify, files, JInv
<1>2. "classify" \in Locked /\ "classify" \in ClearS
  BY DEF Locked, PairCleanup, ClearS, Unindexed
<1>3. PICK q \in Pairs : q = Pair(w) /\ Journal(q)
  BY <1>1, <1>2, OwnMine DEF JInv, At
<1>4. ~Contradiction(marker[q]) /\ ~Moved(q, marker[q])
  BY <1>3, NoContradiction DEF JInv, IInv
<1>5. CASE Fail(w, "unsafeMarker")
  <2>1. Stops(w)
    BY <1>5, FailStops
  <2> QED
    BY <1>1, <2>1, StopStep
<1>6. ~(marker[q]["active"] # None /\ marker[q]["committed"] = None /\ marker[q]["rollback"] = None)
  <2>1. ~Names(SummaryOf[q], q)
    BY <1>1, <1>2, <1>3 DEF JInv, Knows, OwnIndexes, At, Names
  <2> QED
    BY <1>3, <2>1 DEF Journal, ActiveNamed, OutputsOf
<1>7. ASSUME NEW there, Goto(w, there), NEW gone, NEW made, Onto("classify", there, gone, made, {}, {}),
             \A k \in gone : marker[q][k] = None, \A k \in made : marker[q][k] # None
      PROVE  JInv'
  <2>1. Walks(w, there)
    BY <1>7, GotoWalks
  <2> QED
    BY <1>1, <1>3, <1>7, <2>1, LookStep
<1>8. CASE Goto(w, PairPlan(marker[q]))
  <2>1. CASE marker[q]["rollback"] # None
    BY <1>7, <1>8, <2>1, CleanupOnto DEF PairPlan
  <2>2. CASE marker[q]["rollback"] = None /\ marker[q]["committed"] # None
    BY <1>7, <1>8, <2>2, CleanupOnto DEF PairPlan, SelectsRollback
  <2>3. CASE marker[q]["rollback"] = None /\ marker[q]["committed"] = None
    BY <1>6, <1>7, <1>8, <2>3, CleanupOnto DEF PairPlan, SelectsRollback
  <2> QED
    BY <2>1, <2>2, <2>3
<1> QED
  BY <1>3, <1>4, <1>5, <1>8 DEF Classify

(* Where the pair's indexes are gone its backups go freely. *)
LEMMA CleanupDropStep ==
  ASSUME JInv, IInv', NEW w \in Procs, NEW here, here \in PairCleanup, NEW k \in Roles, NEW there,
         Onto(here, there, {}, {}, {}, {k}), NEW prev, NEW reason,
         \/ DropBackup(w, here, Pair(w), k, there)
         \/ DropOwnBackup(w, here, Pair(w), k, prev, there) /\ (prev \/ backup[Pair(w)][k] = Absent)
         \/ DropStaleBackup(w, here, Pair(w), k, reason, there) /\ reason = "unownedBackup"
  PROVE  JInv'
<1>1. At(w, here) /\ UNCHANGED <<dest, index, marker, clock, left>>
  BY DEF DropBackup, DropOwnBackup, DropStaleBackup
<1>2. here \in Locked /\ here \in ClearS /\ here \in ClearR
  BY DEF Locked, ClearS, ClearR, Unindexed
<1>3. ~Names(Output(Pair(w), k), Pair(w))
  BY <1>1, <1>2 DEF JInv, Knows, OwnIndexes, Names, Output, At
<1>4. CASE Fail(w, "unownedBackup") /\ UNCHANGED backup
  <2>1. Stops(w)
    BY <1>4, FailStops
  <2> QED
    BY <1>1, <1>4, <2>1, StopStep DEF JInv
<1>5. CASE Goto(w, there) /\ backup' = [backup EXCEPT ![Pair(w)][k] = Absent]
  <2>1. Walks(w, there)
    BY <1>5, GotoWalks
  <2> QED
    BY <1>1, <1>2, <1>3, <1>5, <2>1, OwnDropBackupStep
<1> QED
  BY <1>4, <1>5 DEF DropBackup, DropOwnBackup, DropStaleBackup

(* What is left of a decided transaction goes; a backup found against its  *)
(* record does not exist. *)
LEMMA ForgetStep ==
  ASSUME JInv, IInv', NEW w \in Procs, ForgetRolledBack(w) \/ ForgetCommitted(w) \/ SweepUnmarked(w)
  PROVE  JInv'
<1>1. /\ {"pr_dropS", "pr_dropR", "pc_dropS", "pc_dropR", "pu_dropS", "pu_dropR"} \subseteq PairCleanup
      /\ {"pr_rmActive", "pr_rmRollback", "pc_rmActive", "pc_rmCommitted"} \subseteq Locked
      /\ {"pr_rmRollback", "pc_rmCommitted"} \subseteq NoActive
      /\ {"pc_dropS", "pc_dropR"} \subseteq IsCommitted
      /\ "summary" \in Roles /\ "report" \in Roles /\ Kinds = {"active", "committed", "rollback"}
  BY DEF PairCleanup, Locked, NoActive, IsCommitted, Roles, Kinds
<1>2. ASSUME proc[w].pc \in {"pc_dropS", "pc_dropR"}, NEW k \in Roles
      PROVE  marker[Pair(w)]["committed"].prev[k] \/ backup[Pair(w)][k] = Absent
  <2>1. marker[Pair(w)]["committed"] # None
    BY <1>1, <1>2 DEF JInv, Knows, Choice
  <2>2. Pair(w) \in Pairs
    BY <1>2, OwnMine DEF JInv, Locked, PairCleanup
  <2> QED
    BY <1>1, <2>1, <2>2 DEF JInv, Journal, Unbacked
<1>3. CASE \/ DropBackup(w, "pr_dropS", Pair(w), "summary", "pr_dropR")
           \/ DropBackup(w, "pr_dropR", Pair(w), "report", "pr_rmActive")
  BY <1>1, <1>3, CleanupOnto, CleanupDropStep
<1>4. CASE \/ DropStaleBackup(w, "pu_dropS", Pair(w), "summary", "unownedBackup", "pu_dropR")
           \/ DropStaleBackup(w, "pu_dropR", Pair(w), "report", "unownedBackup", "p_leave")
  BY <1>1, <1>4, CleanupOnto, CleanupDropStep
<1>5. CASE DropOwnBackup(w, "pc_dropS", Pair(w), "summary", marker[Pair(w)]["committed"].prev["summary"], "pc_dropR")
  <2>1. marker[Pair(w)]["committed"].prev["summary"] \/ backup[Pair(w)]["summary"] = Absent
    BY <1>1, <1>2, <1>5 DEF DropOwnBackup, At
  <2> QED
    BY <1>1, <1>5, <2>1, CleanupOnto, CleanupDropStep
<1>6. CASE DropOwnBackup(w, "pc_dropR", Pair(w), "report", marker[Pair(w)]["committed"].prev["report"], "pc_rmActive")
  <2>1. marker[Pair(w)]["committed"].prev["report"] \/ backup[Pair(w)]["report"] = Absent
    BY <1>1, <1>2, <1>6 DEF DropOwnBackup, At
  <2> QED
    BY <1>1, <1>6, <2>1, CleanupOnto, CleanupDropStep
<1>7. CASE \/ RemoveMarker(w, "pr_rmActive", Pair(w), "active", "pr_rmRollback")
           \/ RemoveMarker(w, "pr_rmRollback", Pair(w), "rollback", "p_leave")
  BY <1>1, <1>7, CleanupOnto, OwnRemoveStep
<1>8. CASE \/ RemoveMarker(w, "pc_rmActive", Pair(w), "active", "pc_rmCommitted")
           \/ RemoveMarker(w, "pc_rmCommitted", Pair(w), "committed", "p_leave")
  BY <1>1, <1>8, CleanupOnto, OwnRemoveStep
<1> QED
  BY <1>3, <1>4, <1>5, <1>6, <1>7, <1>8 DEF ForgetRolledBack, ForgetCommitted, SweepUnmarked

(* Recovery ends, or the run goes on to begin its transaction. *)
LEMMA LeaveRecoveryStep ==
  ASSUME JInv, IInv', NEW w \in Procs, LeaveRecovery(w)
  PROVE  JInv'
<1>1. At(w, "p_leave") /\ UNCHANGED <<backup, index, marker>>
  BY DEF LeaveRecovery, files, JInv
<1>2. CASE Goto(w, "staged")
  <2>1. "staged" \notin Locked
    BY DEF Locked, Recovering, PairCleanup, Publishing, Unwinding, Deciding
  <2>2. Stops(w)
    BY <1>2, <2>1, GotoWalks DEF Walks, Stops
  <2> QED
    BY <1>1, <2>2, StopStep
<1>3. CASE Goto(w, "captureS")
  <2>1. Walks(w, "captureS")
    BY <1>3, GotoWalks
  <2> QED
    BY <1>1, <2>1, CleanupOnto, PassStep
<1> QED
  BY <1>2, <1>3 DEF LeaveRecovery

(* recover_pair.  A marked and undecided transaction is never met there. *)
LEMMA RecoverPairStep ==
  ASSUME JInv, IInv', NEW w \in Procs, RecoverPair(w)
  PROVE  JInv'
<1>1. ~RestoreMarked(w)
  BY DEF RestoreMarked, Restore, RemoveMarker, DropBackup, At, JInv, Knows, Choice
<1> QED
  BY <1>1, ClassifyStep, ForgetStep, LeaveRecoveryStep DEF RecoverPair

-----------------------------------------------------------------------------
(* recover_destination: the operations on the pair an index names. *)

(* The pair named beside an output of w is one w works on. *)
LEMMA Beside ==
  ASSUME JInv, NEW w \in Procs, proc[w].pc \in WithIndex
  PROVE  \E q \in Pairs : \E o \in Outputs :
           /\ q = IdxPair(w) /\ o = ThisOutput(w) /\ IdxRole(w) = RoleIn(q, o)
           /\ q \in Mine(w) /\ o \in OutputsOf(q) /\ o \in OutputsOf(Pair(w))
           /\ Output(q, RoleIn(q, o)) = o /\ RoleIn(q, o) \in Roles /\ Journal(q)
<1>1. proc[w].pc \in Locked
  BY LocksNeeded
<1>2. Pair(w) \in Pairs /\ proc[w].role \in Roles /\ OutputsOf(Pair(w)) \subseteq Outputs
  BY <1>1, LockedPair, PairOutputs DEF JInv, IInv, ProcState
<1>3. ThisOutput(w) \in OutputsOf(Pair(w))
  BY <1>2, PairOutputs DEF ThisOutput
<1>4. IdxPair(w) \in Pairs /\ ThisOutput(w) \in OutputsOf(IdxPair(w))
  BY DEF JInv, IInv, Local, IndexRead, IdxPair, Index
<1>5. IdxPair(w) \in Mine(w)
  BY DEF Mine
<1>6. Output(IdxPair(w), RoleIn(IdxPair(w), ThisOutput(w))) = ThisOutput(w)
      /\ RoleIn(IdxPair(w), ThisOutput(w)) \in Roles
  BY <1>4, RoleOutput
<1> QED
  BY <1>2, <1>3, <1>4, <1>5, <1>6 DEF IdxRole, JInv

(* The control points after the decision. *)
Acting == {"d_link", "d_retire", "d_restore", "d_dropIndex", "d_dropBackup", "d_keep", "d_sweep", "d_forget",
           "d_peer", "d_rmActive", "d_rmCommitted", "d_rmRollback", "d_leave"}

(* An index of the pair is taken away or stays. *)
Unwrites(w) == index'[SummaryOf[Pair(w)]] \in {index[SummaryOf[Pair(w)]], None}

(* w acts on the index it read with what it knows. *)
LEMMA ActingKnows ==
  ASSUME NEW w \in Procs, proc[w].pc \in Recovering, Knows(w), NEW there \in Acting, Walks(w, there),
         Unwrites(w), IndexKnown(w)'
  PROVE  Knows(w)'
<1>1. proc'[w].pc = there /\ Pair(w)' = Pair(w) /\ proc'[w].role = proc[w].role
  BY DEF Walks, Pair
<1>2. Choice(w)'
  BY <1>1 DEF Choice, Inactive, Uncommitted, NotReverted, Replacing, IsCommitted, IsReverted,
              CommitDone, RollBackDone, Unwinding, Acting
<1>3. OwnIndexes(w)'
  <2>1. there \notin ClearS \cup ClearR \cup NamedS \cup NamedR \cup Owning
    BY DEF ClearS, ClearR, NamedS, NamedR, Owning, Marked, Replacing, Unindexed, Unwinding, Publishing,
           Deciding, PairCleanup, Acting
  <2>2. proc'[w].role = "report" => index'[SummaryOf[Pair(w)]] = None
    BY <1>1 DEF Knows, OwnIndexes, Unwrites
  <2> QED
    BY <1>1, <2>1, <2>2 DEF OwnIndexes
<1>4. OwnBackups(w)'
  BY <1>1 DEF OwnBackups, HeldS, HeldR, GoneS, GoneR, Replacing, Acting
<1>5. ReadMatch(w)'
  BY <1>1 DEF ReadMatch, ReadAt, Acting
<1> QED
  BY <1>2, <1>3, <1>4, <1>5 DEF Knows

(* A step on the pair the index names. *)
LEMMA ActStep ==
  ASSUME JInv, IInv', NEW w \in Procs, proc[w].pc \in WithIndex, NEW there \in Acting, Walks(w, there),
         Unwrites(w), IndexKnown(w)', NEW q \in Pairs, q = IdxPair(w), Only(w, q), Gentle(w, q),
         Journal(q)', left' = left
  PROVE  JInv'
<1>1. proc[w].pc \in Recovering /\ proc[w].pc \in Locked
  BY DEF WithIndex, Locked
<1>2. Knows(w)' /\ Fine(w)'
  BY <1>1, ActingKnows DEF JInv, Walks
<1>3. q \in Mine(w) \cap Pairs
  BY DEF Mine, JInv
<1>4. q # Pair(w) => Gentle(w, q)
  OBVIOUS
<1> QED
  BY <1>1, <1>2, <1>3, <1>4, JournalStep

(* One that changes no sidecar. *)
LEMMA ActLookStep ==
  ASSUME JInv, IInv', NEW w \in Procs, proc[w].pc \in WithIndex, NEW there \in Acting, Walks(w, there),
         UNCHANGED <<backup, index, marker, left>>, IndexKnown(w)'
  PROVE  JInv'
<1>1. Unwrites(w) /\ proc[w].pc \in Recovering
  BY DEF Unwrites, WithIndex
<1>2. Knows(w)' /\ Fine(w)' /\ Calm(w)
  BY <1>1, ActingKnows DEF JInv, Walks, Calm
<1> QED
  BY <1>2, CalmStep DEF JInv

(* Where w goes on, it works on the same index. *)
LEMMA SameIndex ==
  ASSUME NEW w \in Procs, NEW there, Walks(w, there)
  PROVE  /\ proc'[w].pc = there /\ IdxPair(w)' = IdxPair(w) /\ ThisOutput(w)' = ThisOutput(w)
         /\ proc'[w].idx = proc[w].idx /\ Pair(w)' = Pair(w)
BY DEF Walks, IdxPair, ThisOutput, Pair

(* An output's index taken away is taken from the pair it names alone. *)
LEMMA OnlyIndex ==
  ASSUME NEW w \in Procs, NEW q \in Pairs, \A v \in Procs \ {w} : proc'[v] = proc[v],
         UNCHANGED <<backup, marker>>, NEW o \in OutputsOf(Pair(w)), Names(o, q),
         \A x \in Outputs : index'[x] = IF x = o THEN None ELSE index[x]
  PROVE  Only(w, q) /\ Gentle(w, q)
<1>1. \A p \in Pairs \ {q}, x \in Outputs : Names(x, p) \/ Names(x, p)' => index'[x] = index[x]
  BY DEF Names
<1>2. \A x \in Outputs : Names(x, q)' => index'[x] = index[x]
  BY DEF Names
<1>3. Only(w, q)
  BY <1>1 DEF Only
<1>4. Gentle(w, q)
  BY <1>2 DEF Gentle, Copies
<1> QED
  BY <1>3, <1>4

(* Removing the index that was read. *)
LEMMA ActDropIndexStep ==
  ASSUME JInv, IInv', NEW w \in Procs, NEW here, NEW there,
         \/ here = "d_dropIndex" /\ there = "d_dropBackup"
         \/ here = "d_forget" /\ there = "d_peer",
         DropIndex(w, here, ThisOutput(w), there)
  PROVE  JInv'
<1>1. /\ proc[w].pc = here /\ Goto(w, there) /\ index' = [index EXCEPT ![ThisOutput(w)] = None]
      /\ UNCHANGED <<dest, backup, marker, clock, left>>
  BY DEF DropIndex, At
<1>2. proc[w].pc \in WithIndex /\ here \in Indexed /\ there \in Acting /\ there \in Taken
  BY <1>1 DEF WithIndex, Recovering, Indexed, Acting, Taken
<1>3. PICK q \in Pairs : \E o \in Outputs :
           /\ q = IdxPair(w) /\ o = ThisOutput(w) /\ IdxRole(w) = RoleIn(q, o)
           /\ q \in Mine(w) /\ o \in OutputsOf(q) /\ o \in OutputsOf(Pair(w))
           /\ Output(q, RoleIn(q, o)) = o /\ RoleIn(q, o) \in Roles /\ Journal(q)
  BY <1>2, Beside
<1>4. PICK o \in Outputs :
           /\ q = IdxPair(w) /\ o = ThisOutput(w) /\ IdxRole(w) = RoleIn(q, o)
           /\ q \in Mine(w) /\ o \in OutputsOf(q) /\ o \in OutputsOf(Pair(w))
           /\ Output(q, RoleIn(q, o)) = o /\ RoleIn(q, o) \in Roles /\ Journal(q)
  BY <1>3
<1>5. Walks(w, there)
  BY <1>1, GotoWalks
<1>6. \A x \in Outputs : index'[x] = IF x = o THEN None ELSE index[x]
  BY <1>1, <1>4 DEF JInv, IInv, TypeOK
<1>7. Names(o, q)
  <2>1. index[o] = proc[w].idx
    BY <1>1, <1>2, <1>4 DEF JInv, Knows, IndexKnown
  <2>2. proc[w].idx # None
    BY <1>2, NoneAssumption DEF JInv, IInv, Local, IndexRead
  <2> QED
    BY <1>4, <2>1, <2>2 DEF Names, IdxPair
<1>8. Only(w, q) /\ Gentle(w, q)
  <2>1. \A v \in Procs \ {w} : proc'[v] = proc[v]
    BY <1>5 DEF Walks
  <2> QED
    BY <1>1, <1>4, <1>6, <1>7, <2>1, OnlyIndex
<1>9. marker[q]["active"] # None => marker[q]["committed"] # None \/ marker[q]["rollback"] # None
  BY <1>1, <1>4 DEF JInv, Knows, IndexKnown, Kinds
<1>10. Journal(q)'
  <2>1. \A x \in OutputsOf(q) : index'[x] = index[x] \/ index'[x] = None
    BY <1>6, PairOutputs
  <2>2. marker' = marker /\ backup' = backup
    BY <1>1
  <2> QED
    BY <1>4, <1>9, <2>1, <2>2, JournalWithoutIndex
<1>11. IndexKnown(w)'
  <2>1. proc'[w].pc = there /\ ThisOutput(w)' = ThisOutput(w)
    BY <1>5, SameIndex
  <2>2. index'[o] = None
    BY <1>6
  <2> QED
    BY <1>4, <2>1, <2>2 DEF IndexKnown, Indexed, Reading, Removing
<1>12. Unwrites(w)
  <2>1. Pair(w) \in Pairs
    BY <1>2, LocksNeeded, LockedPair DEF JInv, IInv
  <2> QED
    BY <1>6, <2>1, PairOutputs DEF Unwrites
<1>13. q = IdxPair(w) /\ left' = left
  BY <1>1, <1>4
<1> QED
  BY <1>2, <1>5, <1>8, <1>10, <1>11, <1>12, <1>13, ActStep

(* What w knows of the index it read, with names for the pair q it belongs *)
(* to and the output o it is beside. *)
Besides(w, q, o) ==
  /\ q = IdxPair(w) /\ o = ThisOutput(w) /\ IdxRole(w) = RoleIn(q, o)
  /\ q \in Mine(w) /\ o \in OutputsOf(q) /\ o \in OutputsOf(Pair(w))
  /\ Output(q, RoleIn(q, o)) = o /\ RoleIn(q, o) \in Roles /\ Journal(q)

(* There are such a pair and such an output. *)
LEMMA BesidesExist ==
  ASSUME JInv, NEW w \in Procs, proc[w].pc \in WithIndex
  PROVE  \E q \in Pairs : \E o \in Outputs : Besides(w, q, o)
BY Beside DEF Besides

(* The index read is the one beside o, and names q. *)
LEMMA BesidesIndex ==
  ASSUME JInv, NEW w \in Procs, proc[w].pc \in WithIndex, proc[w].pc \in Indexed,
         NEW q \in Pairs, NEW o \in Outputs, Besides(w, q, o)
  PROVE  Names(o, q) /\ index[o] = proc[w].idx /\ proc[w].idx # None
<1>1. index[o] = proc[w].idx
  BY DEF JInv, Knows, IndexKnown, Besides
<1>2. proc[w].idx # None
  BY NoneAssumption DEF JInv, IInv, Local, IndexRead
<1> QED
  BY <1>1, <1>2 DEF Names, IdxPair, Besides

(* A backup whose record is absent is absent, if a marker is there. *)
LEMMA RecordedBackup ==
  ASSUME NEW q \in Pairs, Journal(q), NEW o \in OutputsOf(q), Names(o, q), ~index[o].prev,
         NEW k \in Kinds, marker[q][k] # None
  PROVE  backup[q][RoleIn(q, o)] = Absent
<1>1. marker[q][k].prev[RoleIn(q, o)] = index[o].prev /\ RoleIn(q, o) \in Roles
  BY RoleOutput DEF Journal, Agree
<1> QED
  BY <1>1 DEF Journal, Unbacked

(* Removing the backup of the output that was recovered. *)
LEMMA ActDropBackupStep ==
  ASSUME JInv, IInv', NEW w \in Procs, NEW here, NEW there,
         \/ here = "d_dropBackup" /\ there = "d_peer"
         \/ here = "d_keep" /\ there = "d_forget"
         \/ here = "d_sweep" /\ there = "d_forget",
         At(w, here), Goto(w, there), backup' = [backup EXCEPT ![IdxPair(w)][IdxRole(w)] = Absent],
         UNCHANGED <<dest, index, marker, clock, left>>
  PROVE  JInv'
<1>1. proc[w].pc = here
  BY DEF At
<1>2. proc[w].pc \in WithIndex /\ there \in Acting
  BY <1>1 DEF WithIndex, Recovering, Acting
<1>3. PICK q \in Pairs : \E o \in Outputs : Besides(w, q, o)
  BY <1>2, BesidesExist
<1>4. PICK o \in Outputs : Besides(w, q, o)
  BY <1>3
<1>5. PICK k \in Roles : k = RoleIn(q, o)
  BY <1>4 DEF Besides
<1>6. Walks(w, there)
  BY GotoWalks
<1>7. /\ \A j \in Roles : backup'[q][j] = IF j = k THEN Absent ELSE backup[q][j]
      /\ \A p \in Pairs \ {q} : backup'[p] = backup[p]
  <2>1. backup' = [backup EXCEPT ![q][k] = Absent]
    BY <1>4, <1>5 DEF Besides
  <2> QED
    BY <2>1, BackupGone DEF JInv, IInv
<1>8. Only(w, q) /\ Gentle(w, q)
  BY <1>6, <1>7, OnlyBackup DEF Walks
<1>9. CASE here = "d_dropBackup" /\ there = "d_peer"
  <2>1. index[o] = None
    BY <1>1, <1>4, <1>9 DEF JInv, Knows, IndexKnown, Taken, Besides
  <2>2. ~Names(Output(q, k), q)
    BY <1>4, <1>5, <2>1 DEF Besides, Names
  <2>3. Journal(q) /\ marker' = marker /\ index' = index
    BY <1>4 DEF Besides
  <2>4. Journal(q)'
    BY <1>7, <2>2, <2>3, JournalWithoutBackup
  <2>5. IndexKnown(w)'
    BY <1>4, <1>6, <1>9, <2>1, SameIndex DEF IndexKnown, Indexed, Reading, Removing, Besides
  <2> QED
    BY <1>2, <1>4, <1>6, <1>8, <2>4, <2>5, ActStep DEF Besides, Unwrites
<1>10. CASE here = "d_keep" /\ there = "d_forget"
  <2>1. index[o] = proc[w].idx /\ marker[q]["committed"] # None
    BY <1>1, <1>4, <1>10 DEF JInv, Knows, IndexKnown, Indexed, Besides
  <2>2. ~SelectsRollback(marker[q])
    BY <2>1 DEF JInv, IInv, OneDecision, SelectsRollback
  <2>3. Journal(q) /\ marker' = marker /\ index' = index
    BY <1>4 DEF Besides
  <2>4. Journal(q)'
    BY <1>7, <2>2, <2>3, JournalWithoutBackup
  <2>5. IndexKnown(w)'
    BY <1>4, <1>6, <1>10, <2>1, SameIndex DEF IndexKnown, Indexed, Reading, Removing, Taken, Besides
  <2> QED
    BY <1>2, <1>4, <1>6, <1>8, <2>4, <2>5, ActStep DEF Besides, Unwrites
<1>11. CASE here = "d_sweep" /\ there = "d_forget"
  <2>1. index[o] = proc[w].idx /\ \A j \in Kinds : marker[q][j] = None
    BY <1>1, <1>4, <1>11 DEF JInv, Knows, IndexKnown, Indexed, Besides
  <2>2. \A j \in Kinds : marker'[q][j] = None
    BY <2>1
  <2>3. Journal(q)'
    BY <2>2, BlankJournal
  <2>4. IndexKnown(w)'
    BY <1>4, <1>6, <1>11, <2>1, SameIndex DEF IndexKnown, Indexed, Reading, Removing, Taken, Besides
  <2> QED
    BY <1>2, <1>4, <1>6, <1>8, <2>3, <2>4, ActStep DEF Besides, Unwrites
<1> QED
  BY <1>9, <1>10, <1>11

(* What is done with the backup of an output whose transaction was         *)
(* committed, or never marked. *)
LEMMA KeepStep ==
  ASSUME JInv, IInv', NEW w \in Procs, KeepDestination(w)
  PROVE  JInv'
<1>1. CASE DropOwnBackup(w, "d_keep", IdxPair(w), IdxRole(w), proc[w].idx.prev, "d_forget")
  <2>1. proc[w].pc = "d_keep" /\ At(w, "d_keep") /\ UNCHANGED <<dest, index, marker, clock, left>>
    BY <1>1 DEF DropOwnBackup, At
  <2>2. proc[w].pc \in WithIndex /\ proc[w].pc \in Indexed
    BY <2>1 DEF WithIndex, Recovering, Indexed
  <2>3. PICK q \in Pairs, o \in Outputs : Besides(w, q, o)
    BY <2>2, BesidesExist
  <2>4. Names(o, q) /\ index[o] = proc[w].idx
    BY <2>2, <2>3, BesidesIndex
  <2>5. marker[q]["committed"] # None /\ "committed" \in Kinds
    BY <2>1, <2>3 DEF JInv, Knows, IndexKnown, Besides, Kinds
  <2>6. ~index[o].prev => backup[q][RoleIn(q, o)] = Absent
    BY <2>3, <2>4, <2>5, RecordedBackup DEF Besides
  <2>7. proc[w].idx.prev \/ backup[IdxPair(w)][IdxRole(w)] = Absent
    BY <2>3, <2>4, <2>6 DEF Besides
  <2>8. Goto(w, "d_forget") /\ backup' = [backup EXCEPT ![IdxPair(w)][IdxRole(w)] = Absent]
    BY <1>1, <2>7 DEF DropOwnBackup
  <2> QED
    BY <2>1, <2>8, ActDropBackupStep
<1>2. CASE DropStaleBackup(w, "d_sweep", IdxPair(w), IdxRole(w), "uncommittedBackup", "d_forget")
  <2>1. At(w, "d_sweep") /\ UNCHANGED <<dest, index, marker, clock, left>>
    BY <1>2 DEF DropStaleBackup
  <2>2. CASE Fail(w, "uncommittedBackup") /\ UNCHANGED backup
    <3>1. Stops(w)
      BY <2>2, FailStops
    <3> QED
      BY <2>1, <2>2, <3>1, StopStep DEF JInv
  <2>3. CASE Goto(w, "d_forget") /\ backup' = [backup EXCEPT ![IdxPair(w)][IdxRole(w)] = Absent]
    BY <2>1, <2>3, ActDropBackupStep
  <2> QED
    BY <1>2, <2>2, <2>3 DEF DropStaleBackup
<1>3. CASE DropIndex(w, "d_forget", ThisOutput(w), "d_peer")
  BY <1>3, ActDropIndexStep
<1> QED
  BY <1>1, <1>2, <1>3 DEF KeepDestination

(* transition_child_marker of the pair the index names: the choice to roll *)
(* back is linked. *)
LEMMA ActLinkStep ==
  ASSUME JInv, IInv', NEW w \in Procs, LinkMarker(w, "d_link", IdxPair(w), "rollback", "d_retire")
  PROVE  JInv'
<1>1. proc[w].pc = "d_link" /\ UNCHANGED <<dest, backup, index, clock, left>>
  BY DEF LinkMarker, At
<1>2. proc[w].pc \in WithIndex /\ proc[w].pc \in Indexed /\ "d_retire" \in Acting /\ "rollback" \in Kinds
  BY <1>1 DEF WithIndex, Recovering, Acting, Indexed, Kinds
<1>3. PICK q \in Pairs : \E o \in Outputs : Besides(w, q, o)
  BY <1>2, BesidesExist
<1>4. PICK o \in Outputs : Besides(w, q, o)
  BY <1>3
<1>5. marker[q]["committed"] = None
  BY <1>1, <1>4 DEF JInv, IInv, Local, ReadMarks, Besides
<1>6. index[o] = proc[w].idx
  BY <1>2, <1>4, BesidesIndex
<1>7. CASE Fail(w, "raced") /\ UNCHANGED marker
  <2>1. Stops(w)
    BY <1>7, FailStops
  <2> QED
    BY <1>1, <1>7, <2>1, StopStep DEF JInv
<1>8. CASE Goto(w, "d_retire") /\ UNCHANGED marker /\ marker[q]["rollback"] # None
  <2>1. Walks(w, "d_retire")
    BY <1>8, GotoWalks
  <2>2. IndexKnown(w)'
    BY <1>1, <1>4, <1>6, <1>8, <2>1, SameIndex DEF IndexKnown, Taken, Removing, Besides
  <2> QED
    BY <1>1, <1>2, <1>8, <2>1, <2>2, ActLookStep
<1>9. CASE /\ marker[q]["rollback"] = None /\ marker[q]["active"] # None /\ Goto(w, "d_retire")
           /\ marker' = [marker EXCEPT ![IdxPair(w)]["rollback"] = marker[IdxPair(w)]["active"]]
  <2>1. Walks(w, "d_retire")
    BY <1>9, GotoWalks
  <2>2. PICK m : m = marker[q]["active"]
    OBVIOUS
  <2>3. /\ \A k \in Kinds : marker'[q][k] = IF k = "rollback" THEN m ELSE marker[q][k]
        /\ \A p \in Pairs \ {q} : marker'[p] = marker[p]
    <3>1. marker' = [marker EXCEPT ![q]["rollback"] = m]
      BY <1>4, <1>9, <2>2 DEF Besides
    <3>0. TypeOK
      BY DEF JInv, IInv
    <3> QED
      BY <1>2, <3>1, <3>0, MarkerSet
  <2>4. Only(w, q)
    BY <1>1, <2>1, <2>3, OnlyMarkers DEF Walks
  <2>5. Gentle(w, q)
    <3>1. Copies(q)
      BY <2>2, <2>3 DEF Copies, Kinds
    <3>2. \A x \in Outputs : index'[x] = index[x]
      BY <1>1
    <3> QED
      BY <1>9, <2>2, <2>3, <3>1, <3>2 DEF Gentle, Kinds
  <2>6. Journal(q)'
    <3>1. \A k \in Kinds : marker'[q][k] = IF k = "rollback" THEN marker[q]["active"] ELSE marker[q][k]
      BY <2>2, <2>3
    <3>2. Journal(q) /\ backup' = backup /\ index' = index /\ marker[q]["active"] # None
      BY <1>1, <1>4, <1>9 DEF Besides
    <3>3. "rollback" \in {"committed", "rollback"}
      OBVIOUS
    <3> QED
      BY <1>5, <3>1, <3>2, <3>3, JournalWithChoice
  <2>7. marker'[q]["rollback"] # None
    BY <1>2, <1>9, <2>2, <2>3
  <2>8. IndexKnown(w)'
    BY <1>1, <1>4, <1>6, <2>1, <2>7, SameIndex DEF IndexKnown, Taken, Removing, Besides
  <2>9. q = IdxPair(w) /\ left' = left /\ Unwrites(w)
    BY <1>1, <1>4 DEF Besides, Unwrites
  <2> QED
    BY <1>2, <2>1, <2>4, <2>5, <2>6, <2>8, <2>9, ActStep
<1>10. q = IdxPair(w)
  BY <1>4 DEF Besides
<1> QED
  BY <1>7, <1>8, <1>9, <1>10 DEF LinkMarker

(* A marker of the pair the index names goes. *)
LEMMA ActRemoveStep ==
  ASSUME JInv, IInv', NEW w \in Procs, NEW here, NEW there, NEW kind \in Kinds,
         \/ here = "d_retire" /\ there = "d_restore" /\ kind = "active"
         \/ here = "d_rmActive" /\ there = "d_rmCommitted" /\ kind = "active"
         \/ here = "d_rmCommitted" /\ there = "d_rmRollback" /\ kind = "committed"
         \/ here = "d_rmRollback" /\ there = "d_leave" /\ kind = "rollback",
         At(w, here), Goto(w, there), marker' = [marker EXCEPT ![IdxPair(w)][kind] = None],
         UNCHANGED <<dest, backup, index, clock, left>>
  PROVE  JInv'
<1>1. proc[w].pc = here
  BY DEF At
<1>2. proc[w].pc \in WithIndex /\ there \in Acting
  BY <1>1 DEF WithIndex, Recovering, Acting
<1>3. PICK q \in Pairs : \E o \in Outputs : Besides(w, q, o)
  BY <1>2, BesidesExist
<1>4. PICK o \in Outputs : Besides(w, q, o)
  BY <1>3
<1>5. Walks(w, there)
  BY GotoWalks
<1>6. /\ \A k \in Kinds : marker'[q][k] = IF k = kind THEN None ELSE marker[q][k]
      /\ \A p \in Pairs \ {q} : marker'[p] = marker[p]
  <2>1. marker' = [marker EXCEPT ![q][kind] = None]
    BY <1>4 DEF Besides
  <2>0. TypeOK
    BY DEF JInv, IInv
  <2> QED
    BY <2>1, <2>0, MarkerGone
<1>7. Only(w, q)
  BY <1>5, <1>6, OnlyMarkers DEF Walks
<1>8. here \in {"d_rmActive", "d_rmCommitted", "d_rmRollback"} =>
        index[o] = None /\ ~Names(Peer(q, o), q)
  BY <1>1, <1>4 DEF JInv, Knows, IndexKnown, Taken, Removing, Besides
<1>9. kind = "active" \/ marker[q]["active"] = None
  BY <1>1, <1>4 DEF JInv, Knows, IndexKnown, Besides
<1>10. Gentle(w, q)
  <2>1. Copies(q)
    BY <1>6 DEF Copies
  <2>2. here # "d_retire" => \A x \in OutputsOf(q) \ OutputsOf(Pair(w)) : ~Names(x, q)
    BY <1>4, <1>8, RoleOutput DEF Besides
  <2>3. here = "d_retire" => \A k \in {"committed", "rollback"} : marker'[q][k] = marker[q][k]
    BY <1>6 DEF Kinds
  <2>4. \A k \in Kinds : marker[q][k] = None => marker'[q][k] = None
    BY <1>6
  <2> QED
    BY <2>1, <2>2, <2>3, <2>4 DEF Gentle, Kinds
<1>11. Journal(q)'
  <2>1. Journal(q) /\ backup' = backup /\ index' = index
    BY <1>4 DEF Besides
  <2> QED
    BY <1>6, <1>9, <2>1, JournalWithoutMarker
<1>12. IndexKnown(w)'
  <2>1. /\ proc'[w].pc = there /\ IdxPair(w)' = q /\ ThisOutput(w)' = o /\ proc'[w].idx = proc[w].idx
    BY <1>4, <1>5, SameIndex DEF Besides
  <2>2. CASE here = "d_retire"
    <3>1. index[o] = proc[w].idx /\ marker[q]["rollback"] # None
      BY <1>1, <1>4, <2>2 DEF JInv, Knows, IndexKnown, Indexed, Besides
    <3> QED
      BY <1>6, <2>1, <2>2, <3>1 DEF IndexKnown, Taken, Removing, Kinds
  <2>3. CASE here # "d_retire"
    <3>1. index'[o] = None /\ ~Names(Peer(q, o), q)'
      BY <1>8, <2>3 DEF Names
    <3>2. there \notin Indexed /\ (there = "d_rmCommitted" => kind = "active")
      BY <2>3 DEF Indexed, Reading
    <3>3. there = "d_rmRollback" => kind = "committed" /\ marker[q]["active"] = None
      BY <1>9, <2>3
    <3>4. there \in {"d_rmCommitted", "d_rmRollback", "d_leave"}
      BY <2>3
    <3> QED
      BY <1>6, <2>1, <3>1, <3>2, <3>3, <3>4 DEF IndexKnown, Kinds
  <2> QED
    BY <2>2, <2>3
<1>13. q = IdxPair(w) /\ left' = left /\ Unwrites(w)
  BY <1>4 DEF Besides, Unwrites
<1> QED
  BY <1>2, <1>5, <1>7, <1>10, <1>11, <1>12, <1>13, ActStep

(* The active name of a transaction that is rolled back goes. *)
LEMMA ActRetireStep ==
  ASSUME JInv, IInv', NEW w \in Procs, RetireActive(w, "d_retire", IdxPair(w), "rollback", "d_restore")
  PROVE  JInv'
<1>1. At(w, "d_retire") /\ UNCHANGED <<dest, backup, index, clock, left>> /\ "active" \in Kinds
  BY DEF RetireActive, Kinds
<1>2. CASE Fail(w, "raced") /\ UNCHANGED marker
  <2>1. Stops(w)
    BY <1>2, FailStops
  <2> QED
    BY <1>1, <1>2, <2>1, StopStep DEF JInv
<1>3. CASE Goto(w, "d_restore") /\ marker' = [marker EXCEPT ![IdxPair(w)]["active"] = None]
  BY <1>1, <1>3, ActRemoveStep
<1> QED
  BY <1>2, <1>3 DEF RetireActive

(* OutputBackup::restore of the output the index asks to roll back: the    *)
(* backup is there if the index says so, and only then. *)
LEMMA ActRestoreStep ==
  ASSUME JInv, IInv', NEW w \in Procs,
         Restore(w, "d_restore", IdxPair(w), IdxRole(w), proc[w].idx.prev, "d_dropIndex")
  PROVE  JInv'
<1>1. proc[w].pc = "d_restore" /\ UNCHANGED <<backup, index, marker, clock, left>>
  BY DEF Restore, At
<1>2. proc[w].pc \in WithIndex /\ proc[w].pc \in Indexed /\ "d_dropIndex" \in Acting /\ "rollback" \in Kinds
  BY <1>1 DEF WithIndex, Recovering, Acting, Indexed, Kinds
<1>3. PICK q \in Pairs, o \in Outputs : Besides(w, q, o)
  BY <1>2, BesidesExist
<1>4. Names(o, q) /\ index[o] = proc[w].idx
  BY <1>2, <1>3, BesidesIndex
<1>5. marker[q]["rollback"] # None
  BY <1>1, <1>3 DEF JInv, Knows, IndexKnown, Besides
<1>6. proc[w].idx.prev => backup[q][RoleIn(q, o)] # Absent
  BY <1>3, <1>4, <1>5 DEF Besides, Journal, Backed, SelectsRollback
<1>7. ~proc[w].idx.prev => backup[q][RoleIn(q, o)] = Absent
  BY <1>2, <1>3, <1>4, <1>5, RecordedBackup DEF Besides
<1>8. Goto(w, "d_dropIndex")
  <2>1. q = IdxPair(w) /\ IdxRole(w) = RoleIn(q, o)
    BY <1>3 DEF Besides
  <2> QED
    BY <1>6, <1>7, <2>1 DEF Restore
<1>9. Walks(w, "d_dropIndex")
  BY <1>8, GotoWalks
<1>10. IndexKnown(w)'
  BY <1>1, <1>3, <1>4, <1>5, <1>9, SameIndex DEF IndexKnown, Taken, Removing, Besides
<1> QED
  BY <1>1, <1>2, <1>9, <1>10, ActLookStep

(* recover_destination of an interrupted or rolled back transaction. *)
LEMMA RollBackDestinationStep ==
  ASSUME JInv, IInv', NEW w \in Procs, RollBackDestination(w)
  PROVE  JInv'
<1>1. CASE DropIndex(w, "d_dropIndex", ThisOutput(w), "d_dropBackup")
  BY <1>1, ActDropIndexStep
<1>2. CASE DropBackup(w, "d_dropBackup", IdxPair(w), IdxRole(w), "d_peer")
  BY <1>2, ActDropBackupStep DEF DropBackup
<1> QED
  BY <1>1, <1>2, ActLinkStep, ActRetireStep, ActRestoreStep DEF RollBackDestination

(* The markers go after the last index that names them. *)
LEMMA RetireMarkersStep ==
  ASSUME JInv, IInv', NEW w \in Procs, RetireMarkers(w)
  PROVE  JInv'
<1>1. ASSUME NEW here, NEW there, NEW kind \in Kinds,
             \/ here = "d_rmActive" /\ there = "d_rmCommitted" /\ kind = "active"
             \/ here = "d_rmCommitted" /\ there = "d_rmRollback" /\ kind = "committed"
             \/ here = "d_rmRollback" /\ there = "d_leave" /\ kind = "rollback",
             RemoveMarker(w, here, IdxPair(w), kind, there)
      PROVE  JInv'
  BY <1>1, ActRemoveStep DEF RemoveMarker
<1> QED
  BY <1>1 DEF RetireMarkers, Kinds

(* The markers stay while the other output's index names them. *)
LEMMA CheckPeerStep ==
  ASSUME JInv, IInv', NEW w \in Procs, CheckPeer(w)
  PROVE  JInv'
<1>1. proc[w].pc = "d_peer" /\ UNCHANGED <<backup, index, marker, left>>
  BY DEF CheckPeer, At, files
<1>2. proc[w].pc \in WithIndex /\ {"d_leave", "d_rmActive"} \subseteq Acting
  BY <1>1 DEF WithIndex, Recovering, Acting
<1>3. PICK q \in Pairs, o \in Outputs : Besides(w, q, o)
  BY <1>2, BesidesExist
<1>4. index[o] = None /\ q = IdxPair(w) /\ o = ThisOutput(w)
  BY <1>1, <1>3 DEF JInv, Knows, IndexKnown, Taken, Besides
<1>5. CASE Fail(w, "unsafeIndex")
  <2>1. Stops(w)
    BY <1>5, FailStops
  <2> QED
    BY <1>1, <2>1, StopStep DEF JInv
<1>6. ASSUME NEW there \in {"d_leave", "d_rmActive"}, Goto(w, there),
             there = "d_rmActive" => ~Names(Peer(q, o), q)
      PROVE  JInv'
  <2>1. Walks(w, there)
    BY <1>6, GotoWalks
  <2>2. IndexKnown(w)'
    <3>1. /\ proc'[w].pc = there /\ IdxPair(w)' = q /\ ThisOutput(w)' = o
      BY <1>4, <2>1, SameIndex
    <3>2. index'[o] = None /\ (there = "d_rmActive" => ~Names(Peer(q, o), q)')
      BY <1>1, <1>4, <1>6 DEF Names
    <3>3. /\ there \notin Indexed /\ (there \in Removing => there = "d_rmActive")
          /\ there \notin {"d_retire", "d_restore", "d_dropIndex", "d_keep", "d_sweep", "d_forget",
                         "d_rmCommitted", "d_rmRollback"}
      BY DEF Indexed, Reading, Removing
    <3> QED
      BY <3>1, <3>2, <3>3 DEF IndexKnown
  <2> QED
    BY <1>1, <1>2, <2>1, <2>2, ActLookStep
<1>7. CASE Names(Peer(q, o), q)
  <2>1. Fail(w, "unsafeIndex") \/ Goto(w, "d_leave")
    BY <1>4, <1>7 DEF CheckPeer, Names
  <2> QED
    BY <1>5, <1>6, <2>1
<1>8. CASE ~Names(Peer(q, o), q)
  <2>1. Fail(w, "unsafeIndex") \/ Goto(w, "d_rmActive")
    BY <1>4, <1>8 DEF CheckPeer, Names
  <2> QED
    BY <1>5, <1>6, <1>8, <2>1
<1> QED
  BY <1>7, <1>8

(* What was read does not contradict itself. *)
LEMMA ReadCoherent ==
  ASSUME JInv, NEW w \in Procs, proc[w].pc = "decide"
  PROVE  ~Contradiction(proc[w].marks) /\ ~Disagreement(proc[w].marks, IdxRole(w), proc[w].idx.prev)
<1>1. ReadMatch(w) /\ ReadAt("decide") = Kinds
  BY DEF JInv, Knows, ReadAt
<1>2. ASSUME NEW k \in Kinds, proc[w].marks[k] # None
      PROVE  /\ proc[w].marks[k].prev[IdxRole(w)] = proc[w].idx.prev
             /\ \A j \in Kinds : proc[w].marks[j] # None => proc[w].marks[j].prev = proc[w].marks[k].prev
  BY <1>1, <1>2 DEF ReadMatch
<1>3. proc[w].marks["committed"] = None \/ proc[w].marks["rollback"] = None
  <2>1. IdxPair(w) \in Pairs
    BY DEF JInv, IInv, Local, IndexRead, IdxPair, Index, WithIndex, Recovering
  <2> QED
    BY <1>1, <2>1 DEF ReadMatch, Kinds, JInv, IInv, OneDecision
<1> QED
  BY <1>2, <1>3 DEF Contradiction, Disagreement

(* The decision rests on what was read. *)
LEMMA DecideStep ==
  ASSUME JInv, IInv', NEW w \in Procs, Decide(w)
  PROVE  JInv'
<1>1. proc[w].pc = "decide" /\ UNCHANGED <<backup, index, marker, left>>
  BY DEF Decide, At, files
<1>2. proc[w].pc \in WithIndex /\ proc[w].pc \in Indexed
      /\ {"d_link", "d_restore", "d_keep", "d_sweep"} \subseteq Acting \cap Indexed
  BY <1>1 DEF WithIndex, Recovering, Acting, Indexed, Reading
<1>3. PICK q \in Pairs, o \in Outputs : Besides(w, q, o)
  BY <1>2, BesidesExist
<1>4. index[o] = proc[w].idx /\ q = IdxPair(w) /\ o = ThisOutput(w)
  BY <1>2, <1>3, BesidesIndex DEF Besides
<1>5. PICK r : r = proc[w].marks
  OBVIOUS
<1>6. Fail(w, "raced") \/ Goto(w, DestinationPlan(r))
  BY <1>1, <1>5, ReadCoherent DEF Decide
<1>7. CASE Fail(w, "raced")
  <2>1. Stops(w)
    BY <1>7, FailStops
  <2> QED
    BY <1>1, <2>1, StopStep DEF JInv
<1>8. /\ r["active"] = None => marker[q]["active"] = None
      /\ r["committed"] # None => marker[q]["committed"] # None
      /\ r["rollback"] # None => marker[q]["rollback"] # None
      /\ r["rollback"] = None /\ r["active"] = None => marker[q]["rollback"] = None
      /\ r["committed"] = None => marker[q]["committed"] = None
  <2>1. ReadMatch(w) /\ ReadAt("decide") = Kinds
    BY DEF JInv, Knows, ReadAt
  <2>2. r["committed"] = None => marker[q]["committed"] = None
    BY <1>1, <1>4, <1>5 DEF JInv, IInv, Local, ReadMarks
  <2> QED
    BY <1>1, <1>4, <1>5, <2>1, <2>2 DEF ReadMatch, Kinds
<1>9. ASSUME NEW there \in {"d_link", "d_restore", "d_keep", "d_sweep"}, Goto(w, there),
             there = "d_restore" => marker[q]["rollback"] # None,
             there = "d_keep" => marker[q]["committed"] # None,
             there = "d_sweep" => \A k \in Kinds : marker[q][k] = None
      PROVE  JInv'
  <2>1. Walks(w, there)
    BY <1>9, GotoWalks
  <2>2. IndexKnown(w)'
    <3>1. /\ proc'[w].pc = there /\ IdxPair(w)' = q /\ ThisOutput(w)' = o /\ proc'[w].idx = proc[w].idx
      BY <1>4, <2>1, SameIndex
    <3>2. there \notin Taken \cup Removing \cup {"d_retire", "d_dropIndex", "d_forget", "d_rmCommitted", "d_rmRollback"}
      BY DEF Taken, Removing
    <3> QED
      BY <1>1, <1>4, <1>9, <3>1, <3>2 DEF IndexKnown
  <2> QED
    BY <1>1, <1>2, <2>1, <2>2, ActLookStep
<1>10. CASE Goto(w, DestinationPlan(r))
  <2>1. CASE r["rollback"] # None
    <3>1. DestinationPlan(r) = "d_restore"
      BY <2>1 DEF DestinationPlan, SelectsRollback
    <3> QED
      BY <1>8, <1>9, <1>10, <2>1, <3>1
  <2>2. CASE r["rollback"] = None /\ r["active"] # None /\ r["committed"] = None
    <3>1. DestinationPlan(r) = "d_link"
      BY <2>2 DEF DestinationPlan, SelectsRollback
    <3> QED
      BY <1>9, <1>10, <3>1
  <2>3. CASE r["rollback"] = None /\ r["committed"] # None
    <3>1. DestinationPlan(r) = "d_keep"
      BY <2>3 DEF DestinationPlan, SelectsRollback
    <3> QED
      BY <1>8, <1>9, <1>10, <2>3, <3>1
  <2>4. CASE r["rollback"] = None /\ r["active"] = None /\ r["committed"] = None
    <3>1. DestinationPlan(r) = "d_sweep"
      BY <2>4 DEF DestinationPlan, SelectsRollback
    <3>2. \A k \in Kinds : marker[q][k] = None
      BY <1>8, <2>4 DEF Kinds
    <3> QED
      BY <1>9, <1>10, <3>1, <3>2
  <2> QED
    BY <2>1, <2>2, <2>3, <2>4
<1> QED
  BY <1>6, <1>7, <1>10

(* A process still reading knows its pair as well as before. *)
LEMMA ReadingKnows ==
  ASSUME NEW w \in Procs, proc[w].pc \in Recovering, Knows(w), proc'[w].pc \in Reading,
         proc'[w].pair = proc[w].pair, proc'[w].role = proc[w].role, index' = index,
         ReadMatch(w)', IndexKnown(w)'
  PROVE  Knows(w)'
<1>1. Pair(w)' = Pair(w)
  BY DEF Pair
<1>2. Choice(w)'
  BY DEF Choice, Inactive, Uncommitted, NotReverted, Replacing, IsCommitted, IsReverted,
         CommitDone, RollBackDone, Unwinding, Reading
<1>3. OwnIndexes(w)'
  <2>1. proc'[w].pc \notin ClearS \cup ClearR \cup NamedS \cup NamedR \cup Owning
    BY DEF ClearS, ClearR, NamedS, NamedR, Owning, Marked, Replacing, Unindexed, Unwinding, Publishing,
           Deciding, PairCleanup, Reading
  <2> QED
    BY <1>1, <2>1 DEF Knows, OwnIndexes
<1>4. OwnBackups(w)'
  BY DEF OwnBackups, HeldS, HeldR, GoneS, GoneR, Replacing, Reading
<1> QED
  BY <1>2, <1>3, <1>4 DEF Knows

(* A marker is read: what it says agrees with the index and the others. *)
LEMMA ReadMarkerStep ==
  ASSUME JInv, IInv', NEW w \in Procs, NEW here, NEW kind \in Kinds, NEW there,
         \/ here = "readActive" /\ kind = "active" /\ there = "readCommitted"
         \/ here = "readCommitted" /\ kind = "committed" /\ there = "readRollback"
         \/ here = "readRollback" /\ kind = "rollback" /\ there = "decide",
         ReadMarker(w, here, kind, there)
  PROVE  JInv'
<1>1. proc[w].pc = here /\ UNCHANGED <<backup, index, marker, left>>
  BY DEF ReadMarker, At, files
<1>2. /\ proc[w].pc \in WithIndex /\ proc[w].pc \in Indexed /\ proc[w].pc \in Recovering
      /\ there \in Reading /\ there \in Indexed
  BY <1>1 DEF WithIndex, Recovering, Indexed, Reading
<1>3. PICK q \in Pairs : \E o \in Outputs : Besides(w, q, o)
  BY <1>2, BesidesExist
<1>4. PICK o \in Outputs : Besides(w, q, o)
  BY <1>3
<1>5. index[o] = proc[w].idx /\ q = IdxPair(w) /\ o = ThisOutput(w) /\ Names(o, q)
  BY <1>2, <1>4, BesidesIndex DEF Besides
<1>6. CASE Fail(w, "unsafeMarker")
  <2>1. Stops(w)
    BY <1>6, FailStops
  <2> QED
    BY <1>1, <2>1, StopStep DEF JInv
<1>7. CASE proc' = [proc EXCEPT ![w].pc = there, ![w].marks = [@ EXCEPT ![kind] = marker[IdxPair(w)][kind]]]
  <2>1. PICK r : r = [proc[w].marks EXCEPT ![kind] = marker[IdxPair(w)][kind]]
    OBVIOUS
  <2>2. proc' = [proc EXCEPT ![w] = [proc[w] EXCEPT !.pc = there, !.marks = r]]
    BY <1>7, <2>1
  <2>3. proc \in [Procs -> ProcState] /\ proc[w] \in ProcState /\ Fine(w) /\ Knows(w)
    BY DEF JInv, IInv, TypeOK
  <2>4. /\ proc'[w].pc = there /\ proc'[w].pair = proc[w].pair /\ proc'[w].role = proc[w].role
        /\ proc'[w].idx = proc[w].idx /\ proc'[w].marks = r /\ proc'[w].why = proc[w].why
        /\ \A v \in Procs \ {w} : proc'[v] = proc[v]
    BY <2>2, <2>3 DEF ProcState
  <2>5. IdxPair(w)' = q /\ ThisOutput(w)' = o /\ IdxRole(w)' = RoleIn(q, o) /\ IdxRole(w) = RoleIn(q, o)
    BY <1>4, <1>5, <2>4 DEF IdxPair, ThisOutput, Pair, IdxRole, Besides
  <2>6. \A k \in Kinds : r[k] = IF k = kind THEN marker[q][k] ELSE proc[w].marks[k]
    BY <1>5, <2>1, <2>3 DEF ProcState
  <2>7. \A k \in Kinds : k \in ReadAt(there) <=> k = kind \/ k \in ReadAt(here)
    BY DEF ReadAt, Kinds
  <2>8. "active" \in ReadAt(there) /\ ("rollback" \in ReadAt(here) => FALSE)
    BY DEF ReadAt, Kinds
  <2>9. ASSUME NEW k \in Kinds, k \in ReadAt(here), proc[w].marks[k] # None
        PROVE  /\ proc[w].marks[k].prev[RoleIn(q, o)] = proc[w].idx.prev
               /\ \A j \in Kinds : marker[q][j] # None => marker[q][j].prev = proc[w].marks[k].prev
               /\ \A j \in ReadAt(here) : proc[w].marks[j] # None => proc[w].marks[j].prev = proc[w].marks[k].prev
    BY <1>1, <1>5, <2>3, <2>5, <2>9 DEF Knows, ReadMatch
  <2>10. ASSUME marker[q][kind] # None
         PROVE  /\ marker[q][kind].prev[RoleIn(q, o)] = proc[w].idx.prev
                /\ \A j \in Kinds : marker[q][j] # None => marker[q][j].prev = marker[q][kind].prev
    BY <1>4, <1>5, <2>10 DEF Besides, Journal, Agree, OneInode
  <2>11. ReadMatch(w)'
    <3>1. /\ "active" \in ReadAt(there) /\ r["active"] = None => marker[q]["active"] = None
          /\ "committed" \in ReadAt(there) /\ r["committed"] # None => marker[q]["committed"] # None
          /\ "rollback" \in ReadAt(there) /\ r["rollback"] # None => marker[q]["rollback"] # None
          /\ "rollback" \in ReadAt(there) /\ r["rollback"] = None /\ r["active"] = None =>
               marker[q]["rollback"] = None
      BY <1>1, <1>5, <2>3, <2>6, <2>7, <2>8 DEF Knows, ReadMatch, Kinds
    <3>2. ASSUME NEW k \in ReadAt(there), r[k] # None
          PROVE  /\ r[k].prev[RoleIn(q, o)] = proc[w].idx.prev
                 /\ \A j \in Kinds : marker[q][j] # None => marker[q][j].prev = r[k].prev
                 /\ \A j \in ReadAt(there) : r[j] # None => r[j].prev = r[k].prev
      <4>1. \A j \in ReadAt(there) : j \in Kinds /\ (j = kind \/ j \in ReadAt(here))
        BY <2>7 DEF ReadAt
      <4>2. CASE k = kind
        BY <2>6, <2>9, <2>10, <3>2, <4>1, <4>2
      <4>3. CASE k # kind /\ k \in ReadAt(here)
        BY <2>6, <2>9, <3>2, <4>1, <4>3
      <4> QED
        BY <4>1, <4>2, <4>3
    <3> QED
      BY <1>1, <2>4, <2>5, <3>1, <3>2 DEF ReadMatch
  <2>12. IndexKnown(w)'
    BY <1>1, <1>2, <1>5, <2>4, <2>5 DEF IndexKnown, Reading, Taken, Removing
  <2>13. Knows(w)'
    BY <1>1, <1>2, <2>3, <2>4, <2>11, <2>12, ReadingKnows
  <2>14. Calm(w) /\ Fine(w)'
    BY <1>1, <2>3, <2>4 DEF Calm, Fine, JInv
  <2> QED
    BY <2>13, <2>14, CalmStep
<1> QED
  BY <1>6, <1>7 DEF ReadMarker

(* An output without an index is recovered; after both, so is the pair. *)
LEMMA LeaveDestinationStep ==
  ASSUME JInv, IInv', NEW w \in Procs, proc[w].pc \in Recovering, index[ThisOutput(w)] = None,
         LeaveDestination(w), UNCHANGED <<backup, index, marker, left>>
  PROVE  JInv'
<1>1. proc \in [Procs -> ProcState] /\ proc[w] \in ProcState /\ Fine(w) /\ OwnIndexes(w)
  BY DEF JInv, IInv, TypeOK, Knows
<1>2. PICK there \in {"readIndex", "classify"} :
        there = IF proc[w].role = "summary" THEN "readIndex" ELSE "classify"
  OBVIOUS
<1>3. proc' = [proc EXCEPT ![w] = [proc[w] EXCEPT !.pc = there, !.role = "report", !.idx = None, !.marks = NoMarks]]
  BY <1>2 DEF LeaveDestination
<1>4. /\ proc'[w].pc = there /\ proc'[w].pair = proc[w].pair /\ proc'[w].role = "report"
      /\ proc'[w].why = proc[w].why
      /\ \A v \in Procs \ {w} : proc'[v] = proc[v]
  BY <1>1, <1>3 DEF ProcState
<1>5. Pair(w)' = Pair(w) /\ proc[w].role \in Roles
  BY <1>1, <1>4 DEF Pair, ProcState
<1>6. Choice(w)'
  BY <1>4 DEF Choice, Inactive, Uncommitted, NotReverted, Replacing, IsCommitted, IsReverted,
              CommitDone, RollBackDone, Unwinding
<1>7. OwnIndexes(w)'
  <2>1. there \notin NamedS \cup NamedR \cup Owning
    BY DEF NamedS, NamedR, Owning, Marked, Replacing, Unwinding, Publishing, Deciding
  <2>2. index'[SummaryOf[Pair(w)]] = None
    BY <1>1, <1>5 DEF OwnIndexes, ThisOutput, Output, Roles
  <2>3. there = "classify" => index'[ReportOf[Pair(w)]] = None
    BY <1>2, <1>5 DEF ThisOutput, Output, Roles
  <2>4. there = "readIndex" => there \notin ClearR
    BY DEF ClearR, Unindexed, PairCleanup
  <2> QED
    BY <1>4, <1>5, <2>1, <2>2, <2>3, <2>4 DEF OwnIndexes
<1>8. OwnBackups(w)'
  BY <1>4 DEF OwnBackups, HeldS, HeldR, GoneS, GoneR, Replacing
<1>9. ReadMatch(w)' /\ IndexKnown(w)'
  BY <1>4 DEF ReadMatch, IndexKnown, ReadAt, Indexed, Reading, Taken, Removing
<1>10. Knows(w)' /\ Fine(w)' /\ Calm(w)
  BY <1>1, <1>4, <1>6, <1>7, <1>8, <1>9 DEF Knows, Fine, Calm, JInv
<1> QED
  BY <1>10, CalmStep

(* An index is read. *)
LEMMA ReadIndexStep ==
  ASSUME JInv, IInv', NEW w \in Procs, ReadIndex(w)
  PROVE  JInv'
<1>1. proc[w].pc = "readIndex" /\ UNCHANGED <<backup, index, marker, left>> /\ proc[w].pc \in Recovering
  BY DEF ReadIndex, At, files, Recovering
<1>2. CASE index[ThisOutput(w)] = None
  <2>1. LeaveDestination(w)
    BY <1>2 DEF ReadIndex
  <2> QED
    BY <1>1, <1>2, <2>1, LeaveDestinationStep
<1>3. CASE Fail(w, "unsafeIndex")
  <2>1. Stops(w)
    BY <1>3, FailStops
  <2> QED
    BY <1>1, <2>1, StopStep DEF JInv
<1>4. CASE proc' = [proc EXCEPT ![w].pc = "readActive", ![w].idx = index[ThisOutput(w)]]
  <2>1. PICK i : i = index[ThisOutput(w)]
    OBVIOUS
  <2>2. proc' = [proc EXCEPT ![w] = [proc[w] EXCEPT !.pc = "readActive", !.idx = i]]
    BY <1>4, <2>1
  <2>3. proc \in [Procs -> ProcState] /\ proc[w] \in ProcState /\ Fine(w) /\ Knows(w)
    BY DEF JInv, IInv, TypeOK
  <2>4. /\ proc'[w].pc = "readActive" /\ proc'[w].pair = proc[w].pair /\ proc'[w].role = proc[w].role
        /\ proc'[w].idx = i /\ proc'[w].why = proc[w].why
        /\ \A v \in Procs \ {w} : proc'[v] = proc[v]
    BY <2>2, <2>3 DEF ProcState
  <2>5. ReadMatch(w)'
    BY <2>4 DEF ReadMatch, ReadAt
  <2>6. IndexKnown(w)'
    <3>1. ThisOutput(w)' = ThisOutput(w)
      BY <2>4 DEF ThisOutput, Pair
    <3> QED
      BY <1>1, <2>1, <2>4, <3>1 DEF IndexKnown, Taken, Removing
  <2>7. Knows(w)'
    BY <1>1, <2>3, <2>4, <2>5, <2>6, ReadingKnows DEF Reading
  <2>8. Calm(w) /\ Fine(w)'
    BY <1>1, <2>3, <2>4 DEF Calm, Fine, JInv
  <2> QED
    BY <2>7, <2>8, CalmStep
<1>5. index[ThisOutput(w)] # None =>
        \/ Fail(w, "unsafeIndex")
        \/ proc' = [proc EXCEPT ![w].pc = "readActive", ![w].idx = index[ThisOutput(w)]]
  BY DEF ReadIndex
<1> QED
  BY <1>2, <1>3, <1>4, <1>5

(* recover_destination goes on to the next output. *)
LEMMA NextDestinationStep ==
  ASSUME JInv, IInv', NEW w \in Procs, NextDestination(w)
  PROVE  JInv'
<1>1. proc[w].pc = "d_leave" /\ UNCHANGED <<backup, index, marker, left>> /\ LeaveDestination(w)
  BY DEF NextDestination, At, files
<1>2. proc[w].pc \in Recovering /\ index[ThisOutput(w)] = None
  BY <1>1 DEF Recovering, JInv, Knows, IndexKnown, Taken
<1> QED
  BY <1>1, <1>2, LeaveDestinationStep

(* Every step of recover_destination. *)
LEMMA RecoverDestinationStep ==
  ASSUME JInv, IInv', NEW w \in Procs, RecoverDestination(w)
  PROVE  JInv'
<1>1. ASSUME NEW here, NEW kind \in Kinds, NEW there,
             \/ here = "readActive" /\ kind = "active" /\ there = "readCommitted"
             \/ here = "readCommitted" /\ kind = "committed" /\ there = "readRollback"
             \/ here = "readRollback" /\ kind = "rollback" /\ there = "decide",
             ReadMarker(w, here, kind, there)
      PROVE  JInv'
  BY <1>1, ReadMarkerStep
<1>2. CASE \/ ReadMarker(w, "readActive", "active", "readCommitted")
           \/ ReadMarker(w, "readCommitted", "committed", "readRollback")
           \/ ReadMarker(w, "readRollback", "rollback", "decide")
  BY <1>1, <1>2 DEF Kinds
<1> QED
  BY <1>2, ReadIndexStep, DecideStep, RollBackDestinationStep, KeepStep, CheckPeerStep,
     RetireMarkersStep, NextDestinationStep DEF RecoverDestination

-----------------------------------------------------------------------------
(* Taking and leaving the locks. *)

(* A process that begins to recover, or stays outside the locks, knows     *)
(* what it must, and no sidecar changes. *)
LEMMA OutsideStep ==
  ASSUME JInv, IInv', NEW w \in Procs, NEW p, proc' = [proc EXCEPT ![w] = p], p.why = proc[w].why \/ p.why = "none",
         p.pc \notin Locked \/ (p.pc = "readIndex" /\ p.role = "summary"),
         UNCHANGED <<backup, index, marker>>
  PROVE  JInv'
<1>1. proc'[w] = p /\ Calm(w) /\ Fine(w)'
  BY DEF JInv, IInv, TypeOK, Calm, Fine
<1>2. Knows(w)'
  <2>1. CASE p.pc \notin Locked
    BY <1>1, <2>1, Unaware
  <2>2. CASE p.pc = "readIndex" /\ p.role = "summary"
    <3>1. Choice(w)'
      BY <1>1, <2>2 DEF Choice, Inactive, Uncommitted, NotReverted, Replacing, IsCommitted, IsReverted,
                        CommitDone, RollBackDone, Unwinding
    <3>2. OwnIndexes(w)'
      BY <1>1, <2>2 DEF OwnIndexes, ClearS, ClearR, NamedS, NamedR, Owning, Marked, Replacing, Unindexed,
                        Unwinding, Publishing, Deciding, PairCleanup
    <3>3. OwnBackups(w)' /\ ReadMatch(w)' /\ IndexKnown(w)'
      BY <1>1, <2>2 DEF OwnBackups, HeldS, HeldR, GoneS, GoneR, Replacing, ReadMatch, IndexKnown, ReadAt,
                        Indexed, Reading, Taken, Removing
    <3> QED
      BY <3>1, <3>2, <3>3 DEF Knows
  <2> QED
    BY <2>1, <2>2
<1> QED
  BY <1>1, <1>2, CalmStep

(* Start, Stage, Publish, and the end of a run. *)
LEMMA RunStep ==
  ASSUME JInv, IInv', NEW w \in Procs,
         (\E p \in Pairs : Start(w, p)) \/ Stage(w) \/ Publish(w) \/ Exit(w) \/ Crash(w)
  PROVE  JInv'
<1>1. proc[w] \in ProcState
  BY DEF JInv, IInv, TypeOK
<1>2. "idle" \notin Locked /\ "staged" \notin Locked
  BY DEF Locked, Recovering, PairCleanup, Publishing, Unwinding, Deciding
<1>3. ASSUME NEW p \in Pairs, Start(w, p) PROVE JInv'
  <2>1. PICK s : s = [IdleProc EXCEPT !.pc = "readIndex", !.pair = p]
    OBVIOUS
  <2>2. s.pc = "readIndex" /\ s.role = "summary" /\ s.why = "none"
    BY <2>1 DEF IdleProc
  <2> QED
    BY <1>1, <1>3, <2>1, <2>2, OutsideStep DEF Start, files
<1>4. CASE Stage(w)
  <2>1. PICK s : s = [proc[w] EXCEPT !.txn = clock + 1]
    OBVIOUS
  <2>2. s.pc = "staged" /\ s.why = proc[w].why /\ proc' = [proc EXCEPT ![w] = s]
    BY <1>1, <1>4, <2>1 DEF Stage, At, ProcState
  <2> QED
    BY <1>1, <1>2, <1>4, <2>2, OutsideStep DEF Stage, files
<1>5. CASE Publish(w)
  <2>1. PICK s : s = [proc[w] EXCEPT !.pc = "readIndex", !.role = "summary"]
    OBVIOUS
  <2>2. s.pc = "readIndex" /\ s.role = "summary" /\ s.why = proc[w].why /\ proc' = [proc EXCEPT ![w] = s]
    BY <1>1, <1>5, <2>1 DEF Publish, ProcState
  <2> QED
    BY <1>1, <1>5, <2>2, OutsideStep DEF Publish, files
<1>6. CASE Exit(w) \/ Crash(w)
  <2>1. /\ proc' = [proc EXCEPT ![w] = IdleProc] /\ UNCHANGED <<backup, index, marker>>
    BY <1>1, <1>6 DEF Exit, Crash, files
  <2>2. IdleProc.pc = "idle" /\ IdleProc.why = "none"
    BY DEF IdleProc
  <2> QED
    BY <1>2, <2>1, <2>2, OutsideStep
<1> QED
  BY <1>3, <1>4, <1>5, <1>6

-----------------------------------------------------------------------------
(* If no process and no sidecar changes, nothing does. *)
LEMMA StillStep ==
  ASSUME JInv, IInv', UNCHANGED <<backup, index, marker, proc>>
  PROVE  JInv'
<1>1. ASSUME NEW v \in Procs PROVE Knows(v)' /\ Fine(v)'
  BY DEF JInv, Knows, Fine, Choice, OwnIndexes, OwnBackups, ReadMatch, IndexKnown, Pair, Names,
         ThisOutput, IdxPair, IdxRole
<1>2. ASSUME NEW q \in Pairs PROVE Journal(q)'
  BY JournalKept DEF JInv
<1> QED
  BY <1>1, <1>2 DEF JInv

(* No run has begun: there is no sidecar. *)
LEMMA JInit == Init => JInv
<1> SUFFICES ASSUME Init PROVE JInv
  OBVIOUS
<1>1. IInv
  BY InitSafe DEF Init
<1>2. ASSUME NEW q \in Pairs PROVE Journal(q)
  <2>1. \A k \in Kinds : marker[q][k] = None
    BY DEF Init, NoMarks
  <2> QED
    BY <2>1 DEF Journal, OneInode, Agree, Backed, Unbacked, ActiveNamed, SelectsRollback, Kinds
<1>3. ASSUME NEW w \in Procs PROVE Knows(w) /\ Fine(w)
  <2>1. proc[w].pc = "idle" /\ proc[w].why = "none"
    BY DEF Init, IdleProc
  <2>2. Choice(w)
    BY <2>1 DEF Choice, Inactive, Uncommitted, NotReverted, Replacing, IsCommitted, IsReverted,
                CommitDone, RollBackDone, Unwinding
  <2>3. OwnIndexes(w)
    BY <2>1 DEF OwnIndexes, ClearS, ClearR, NamedS, NamedR, Owning, Marked, Replacing, Unindexed,
                Unwinding, Publishing, Deciding, PairCleanup, Recovering
  <2>4. OwnBackups(w) /\ ReadMatch(w) /\ IndexKnown(w)
    BY <2>1 DEF OwnBackups, HeldS, HeldR, GoneS, GoneR, Replacing, ReadMatch, IndexKnown, ReadAt,
                Indexed, Reading, Taken, Removing
  <2> QED
    BY <2>1, <2>2, <2>3, <2>4 DEF Knows, Fine
<1> QED
  BY <1>1, <1>2, <1>3 DEF JInv

(* Every action keeps the journal coherent, unless two calls fail in it. *)
LEMMA JNext == JInv /\ [Next]_vars /\ [OneFaultAtATime]_vars => JInv'
<1> SUFFICES ASSUME JInv, [Next]_vars, [OneFaultAtATime]_vars PROVE JInv'
  OBVIOUS
<1>1. IInv'
  BY NextSafe DEF JInv
<1>2. CASE UNCHANGED vars
  BY <1>1, <1>2, StillStep DEF vars, JInv
<1>3. ASSUME NEW o \in Outputs, Edit(o) PROVE JInv'
  BY <1>1, <1>3, StillStep DEF Edit
<1>4. ASSUME NEW w \in Procs, Step(w) PROVE JInv'
  BY <1>1, <1>4, RecoverDestinationStep, RecoverPairStep, BeginStep, UnwindStep, ReplaceStep,
     CommitStep, RollBackStep DEF Step
<1>5. ASSUME NEW w \in Procs, FailMarker(w), OneFaultAtATime PROVE JInv'
  BY <1>1, <1>5, FailMarkerStep
<1> QED
  BY <1>1, <1>2, <1>3, <1>4, <1>5, RunStep, FailCaptureStep, FailIndexStep, ReplaceStep DEF Next

(* The journal is coherent in every execution in which no two system calls *)
(* of a beginning transaction fail at once. *)
THEOREM JournalInvariant == SingleFaults => []JInv
<1>1. Init => JInv
  BY JInit
<1> QED
  BY <1>1, JNext, PTL DEF SingleFaults, Spec

(* RollbackIsPossible: whatever crashes, and whichever runs share an       *)
(* output, the backup a roll-back of an output needs is there. *)
THEOREM RollbackStaysPossible == SingleFaults => []RollbackIsPossible
<1>1. JInv => RollbackIsPossible
  <2> SUFFICES ASSUME JInv, NEW o \in Outputs, index[o] # None, index[o].prev,
                      SelectsRollback(marker[index[o].pair])
               PROVE  backup[index[o].pair][RoleIn(index[o].pair, o)] # Absent
    BY DEF RollbackIsPossible
  <2>1. PICK q \in Pairs : q = index[o].pair
    BY DEF JInv, IInv, TypeOK, Index
  <2>2. o \in OutputsOf(q) /\ Names(o, q) /\ Journal(q)
    BY <2>1 DEF JInv, IInv, IndexOwned, Names
  <2> QED
    BY <2>1, <2>2 DEF Journal, Backed
<1> QED
  BY <1>1, JournalInvariant, PTL

-----------------------------------------------------------------------------
(* What a reader relies on, in these words. *)
LEMMA LogicalIs ==
  ASSUME NEW o
  PROVE  Logical(o) = IF Chosen(o) THEN IF index[o].prev THEN Kept(o) ELSE Absent ELSE dest[o]
BY DEF Logical, Chosen, Kept

(* Both an output and its index stay as they are away from the focus. *)
LEMMA Bystander ==
  ASSUME JInv, NEW w \in Procs, Within(w), NEW o \in Outputs \ Focus(w), Whole(o), Shown(o)
  PROVE  /\ Settled(o) /\ dest'[o] = dest[o] /\ index'[o] = index[o]
         /\ index[o] # None => Kept(o)' = Kept(o)
<1>1. dest'[o] = dest[o] /\ index'[o] = index[o]
  BY DEF Within
<1>2. CASE index[o] = None
  BY <1>1, <1>2 DEF Settled, Whole, Shown, Logical, Open, Chosen
<1>3. CASE index[o] # None
  <2>1. PICK q \in Pairs : q = index[o].pair
    BY <1>3 DEF JInv, IInv, TypeOK, Index
  <2>2. o \in OutputsOf(q)
    BY <1>3, <2>1 DEF JInv, IInv, IndexOwned
  <2>3. RoleIn(q, o) \in Roles /\ Output(q, RoleIn(q, o)) = o
    BY <2>2 DEF RoleIn, Roles, Output, OutputsOf
  <2>4. backup'[q][RoleIn(q, o)] = backup[q][RoleIn(q, o)]
    BY <2>3 DEF Within
  <2>5. marker'[q] = marker[q] \/ Decided(q)
    BY <1>3, <2>1 DEF Within, Names
  <2>6. Kept(o) = backup[q][RoleIn(q, o)] /\ Kept(o)' = backup'[q][RoleIn(q, o)]
    BY <1>1, <2>1 DEF Kept
  <2>7. Chosen(o)' <=> Chosen(o)
    BY <1>1, <2>1, <2>5 DEF Chosen, Decided
  <2>8. Open(o)' => Open(o)
    BY <1>1, <2>1, <2>5 DEF Open, Decided
  <2>9. Logical(o)' = Logical(o)
    BY <1>1, <2>4, <2>6, <2>7 DEF Logical, Chosen, Kept
  <2> QED
    BY <1>1, <2>4, <2>6, <2>7, <2>8, <2>9 DEF Settled, Whole, Shown
<1> QED
  BY <1>2, <1>3

(* Versions stay fresh. *)
LEMMA FreshStep ==
  ASSUME TypeOK, TypeOK', Stamped, \A v \in Procs : Fresh(v), NEW w \in Procs, Copying(w), Proceeds(w)
  PROVE  Stamped' /\ \A v \in Procs : Fresh(v)'
<1>1. \A x \in Present(w) : x <= clock
  BY DEF Present, Stamped, Fresh, TypeOK, Absent
<1>2. Stamped'
  BY <1>1 DEF Stamped, Copying, Proceeds
<1>3. ASSUME NEW v \in Procs \ {w} PROVE Fresh(v)'
  <2>1. proc'[v] = proc[v] /\ clock' = clock /\ proc'[w].txn \in {proc[w].txn, 0}
    BY DEF Proceeds
  <2>2. proc[v].txn # 0 => proc[w].txn # proc[v].txn
    BY DEF Fresh
  <2>3. proc[v].txn # 0 => \A u \in Procs \ {v} : proc'[u].txn # proc[v].txn
    <3>1. \A u \in Procs \ {v, w} : proc'[u].txn = proc[u].txn
      BY DEF Proceeds
    <3> QED
      BY <2>1, <2>2, <3>1 DEF Fresh
  <2>4. proc[v].txn # 0 /\ proc[v].pc \in Unput => proc[v].txn \notin Present(w)
    BY <2>2 DEF Fresh, Present, Absent
  <2> QED
    BY <2>1, <2>3, <2>4 DEF Fresh, Copying
<1>4. Fresh(w)'
  <2>1. proc'[w].txn <= clock' /\ \A k \in Roles : proc'[w].seen[k] <= clock'
    <3>1. clock' = clock /\ clock \in Nat /\ proc'[w].txn \in {proc[w].txn, 0}
      BY DEF Proceeds, TypeOK
    <3>2. proc[w].txn <= clock /\ \A k \in Roles : proc[w].seen[k] <= clock
      BY DEF Fresh
    <3>3. ASSUME NEW k \in Roles PROVE proc'[w].seen[k] <= clock
      <4>1. \/ proc'[w].seen[k] \in {proc[w].seen[k], 0}
            \/ \E o \in Outputs : proc'[w].seen[k] = dest[o]
        BY DEF Proceeds, Absent
      <4> QED
        BY <3>1, <3>2, <4>1 DEF Stamped
    <3> QED
      BY <3>1, <3>2, <3>3
  <2>2. ASSUME proc'[w].txn # 0 PROVE \A k \in Roles : proc'[w].seen[k] # proc'[w].txn
    BY <2>2 DEF Proceeds, Fresh, Absent
  <2>3. ASSUME proc'[w].txn # 0 PROVE \A v \in Procs \ {w} : proc'[v].txn # proc'[w].txn
    BY <2>3 DEF Proceeds, Fresh
  <2>4. ASSUME proc'[w].txn # 0, proc'[w].pc \in Unput PROVE proc'[w].txn \notin Present(w)
    <3>1. proc'[w].txn = proc[w].txn /\ proc[w].pc \in Unput \ {"putS"}
      BY <2>4 DEF Proceeds
    <3>2. proc[w].pc # "putR"
      BY <3>1 DEF Unput, BeforePut, Recovering, PairCleanup
    <3> QED
      BY <2>4, <3>1, <3>2 DEF Present, Fresh, Absent
  <2> QED
    BY <2>1, <2>2, <2>3, <2>4 DEF Proceeds, Fresh, Copying
<1> QED
  BY <1>2, <1>3, <1>4

-----------------------------------------------------------------------------
(* What can happen to an output in focus.                                  *)

(* The index beside o, if any, is of the pair q, in which o has role k. *)
PartOf(o, q, k) == index[o] # None => index[o].pair = q /\ RoleIn(q, o) = k

Chooses(q) == SelectsRollback(marker[q])

(* The backup of an output that is still in place is that output. *)
Exact(o, q, k) ==
  index[o] # None => backup[q][k] = dest[o] /\ (index[o].prev <=> dest[o] # Absent)

(* The index beside o is there as before, or not. *)
SameBeside(o) ==
  /\ index[o] = None <=> index'[o] = None
  /\ index[o] # None => index'[o].pair = index[o].pair /\ (index'[o].prev <=> index[o].prev)

(* What an index means, by the pair it leads to. *)
LEMMA Led ==
  ASSUME NEW o, NEW q \in Pairs, NEW k \in Roles, PartOf(o, q, k)
  PROVE  /\ Chosen(o) <=> index[o] # None /\ Chooses(q)
         /\ Open(o) <=> index[o] # None /\ \A j \in Kinds : marker[q][j] = None
         /\ index[o] # None => Kept(o) = backup[q][k]
BY DEF PartOf, Chosen, Open, Kept, Chooses

(* ... and after a step. *)
LEMMA LedThen ==
  ASSUME NEW o, NEW q \in Pairs, NEW k \in Roles, PartOf(o, q, k)'
  PROVE  /\ Chosen(o)' <=> index'[o] # None /\ Chooses(q)'
         /\ Open(o)' <=> index'[o] # None /\ \A j \in Kinds : marker'[q][j] = None
         /\ index'[o] # None => Kept(o)' = backup'[q][k]
BY DEF PartOf, Chosen, Open, Kept, Chooses

(* No index, before and after: the output is what it is. *)
LEMMA Bare ==
  ASSUME NEW o, index[o] = None, index'[o] = None, dest'[o] = dest[o]
  PROVE  Settled(o)
BY DEF Settled, Whole, Shown, Logical, Open, Chosen

(* The index goes when the output is what the reader relies on. *)
LEMMA Forgotten ==
  ASSUME NEW o, index'[o] = None, dest'[o] = dest[o], Logical(o) = dest[o]
  PROVE  Settled(o)
BY DEF Settled, Whole, Shown, Logical, Open, Chosen

(* The index stays, and what it leads to is the same or says the same. *)
LEMMA Unmoved ==
  ASSUME NEW o, NEW q \in Pairs, NEW k \in Roles, PartOf(o, q, k), SameBeside(o), Whole(o), Shown(o),
         dest'[o] = dest[o], backup'[q][k] = backup[q][k], marker'[q] = marker[q] \/ Decided(q)
  PROVE  Settled(o)
<1>1. PartOf(o, q, k)'
  BY DEF PartOf, SameBeside
<1>2. /\ Chosen(o)' <=> Chosen(o)
      /\ Open(o)' => Open(o)
      /\ index'[o] # None => Kept(o)' = Kept(o) /\ (index'[o].prev <=> index[o].prev)
  BY <1>1 DEF PartOf, SameBeside, Chosen, Open, Kept, Decided
<1>3. Logical(o)' = Logical(o)
  BY <1>2 DEF Logical, Chosen, Kept
<1> QED
  BY <1>2, <1>3 DEF Settled, Whole, Shown, Chosen, Open

(* A backup goes that nobody is to restore. *)
LEMMA Released ==
  ASSUME NEW o, NEW q \in Pairs, NEW k \in Roles, PartOf(o, q, k), SameBeside(o), Whole(o),
         dest'[o] = dest[o], backup'[q][k] \in {backup[q][k], Absent}, marker'[q] = marker[q],
         ~Chooses(q)
  PROVE  Settled(o)
<1>1. PartOf(o, q, k)'
  BY DEF PartOf, SameBeside
<1>2. /\ ~Chosen(o) /\ ~Chosen(o)'
      /\ Open(o)' => Open(o)
      /\ index'[o] # None => Kept(o)' \in {Kept(o), Absent}
  BY <1>1 DEF PartOf, SameBeside, Chosen, Open, Kept, Chooses
<1>3. Logical(o)' = Logical(o)
  BY <1>2 DEF Logical, Chosen, Kept
<1> QED
  BY <1>2, <1>3 DEF Settled, Whole, Shown, Chosen, Open

(* The output changes while its backup counts. *)
LEMMA Replaced ==
  ASSUME NEW o, NEW q \in Pairs, NEW k \in Roles, PartOf(o, q, k), SameBeside(o), Chooses(q),
         backup'[q][k] = backup[q][k], marker'[q] = marker[q], index[o] # None,
         index[o].prev => dest'[o] # Absent
  PROVE  Settled(o)
<1>1. PartOf(o, q, k)'
  BY DEF PartOf, SameBeside
<1>2. /\ Chosen(o) /\ Chosen(o)' /\ ~Open(o)'
      /\ Kept(o)' = Kept(o) /\ (index'[o].prev <=> index[o].prev)
  <2>1. /\ Chooses(q)' /\ index'[o] # None /\ (index'[o].prev <=> index[o].prev)
        /\ ~(\A j \in Kinds : marker'[q][j] = None)
    BY DEF SameBeside, Chooses, SelectsRollback, Kinds
  <2>2. Chosen(o) /\ Kept(o) = backup[q][k]
    BY Led
  <2>3. Chosen(o)' /\ ~Open(o)' /\ Kept(o)' = backup'[q][k]
    BY <1>1, <2>1, LedThen
  <2> QED
    BY <2>1, <2>2, <2>3
<1>3. Logical(o)' = Logical(o)
  BY <1>2 DEF Logical, Chosen, Kept
<1> QED
  BY <1>2, <1>3 DEF Settled, Whole, Shown, Chosen

(* The backup is the output: whatever an index or a marker says, a reader  *)
(* relies on that version. *)
LEMMA ExactIs ==
  ASSUME NEW o, NEW q \in Pairs, NEW k \in Roles, PartOf(o, q, k), Exact(o, q, k)
  PROVE  Logical(o) = dest[o] /\ Whole(o) /\ Shown(o)
<1>1. Logical(o) = dest[o]
  BY Led DEF Exact, Logical, Chosen, Kept, Absent
<1>2. Whole(o)
  BY Led DEF Exact, Whole, Open
<1>3. Shown(o)
  BY DEF Exact, Shown, Chosen
<1> QED
  BY <1>1, <1>2, <1>3

(* ... and after a step. *)
LEMMA ExactThen ==
  ASSUME NEW o, NEW q \in Pairs, NEW k \in Roles, PartOf(o, q, k)', Exact(o, q, k)'
  PROVE  Logical(o)' = dest'[o] /\ Whole(o)' /\ Shown(o)'
<1>1. Logical(o)' = dest'[o]
  BY LedThen DEF Exact, Logical, Chosen, Kept, Absent
<1>2. Whole(o)'
  BY LedThen DEF Exact, Whole, Open
<1>3. Shown(o)'
  BY DEF Exact, Shown, Chosen
<1> QED
  BY <1>1, <1>2, <1>3

(* The backup is the output before and after. *)
LEMMA InPreparation ==
  ASSUME NEW o, NEW q \in Pairs, NEW k \in Roles, PartOf(o, q, k), Exact(o, q, k),
         PartOf(o, q, k)', Exact(o, q, k)', dest'[o] = dest[o]
  PROVE  Settled(o)
BY ExactIs, ExactThen DEF Settled

-----------------------------------------------------------------------------
(* One step of w, put together.                                            *)

(* The outputs in focus are w's own. *)
LEMMA FocusOwn ==
  ASSUME IInv, NEW w \in Procs, proc[w].pc \in Locked
  PROVE  Focus(w) \subseteq OutputsOf(Pair(w)) /\ OutputsOf(Pair(w)) \subseteq Outputs
<1>1. Pair(w) \in Pairs /\ proc[w].role \in Roles
  BY LockedPair DEF IInv, ProcState
<1> QED
  BY <1>1, PairOutputs DEF Focus, ThisOutput

(* The versions another process knows to be in place still are. *)
LEMMA OthersHold ==
  ASSUME VInv, NEW w \in Procs, proc[w].pc \in Locked, Within(w), NEW v \in Procs \ {w}, proc'[v] = proc[v]
  PROVE  Holds(v)'
<1>1. CASE proc[v].pc \notin Locked
  BY <1>1 DEF Holds, SameS, SameR, PutS, PutR, BeforePut, CommitDone, Locked, Recovering, Publishing,
              Unwinding, Deciding
<1>2. CASE proc[v].pc \in Locked
  <2>1. IInv /\ JInv
    BY DEF VInv, JInv
  <2>2. OutputsOf(Pair(v)) \cap OutputsOf(Pair(w)) = {}
    BY <1>2, <2>1, Disjoint
  <2>3. Pair(v) \in Pairs /\ proc[v].role \in Roles
    BY <1>2, <2>1, LockedPair DEF IInv, ProcState
  <2>4. OutputsOf(Pair(v)) \subseteq Outputs \ Focus(w)
    BY <2>1, <2>2, <2>3, FocusOwn, PairOutputs
  <2>5. ASSUME NEW o \in OutputsOf(Pair(v))
        PROVE  dest'[o] = dest[o] /\ (index[o] # None => Kept(o)' = Kept(o)) /\ index'[o] = index[o]
    BY <2>1, <2>4, Bystander DEF VInv
  <2>6. SummaryOf[Pair(v)] \in OutputsOf(Pair(v)) /\ ReportOf[Pair(v)] \in OutputsOf(Pair(v))
        /\ ThisOutput(v) \in OutputsOf(Pair(v))
    BY <2>3, PairOutputs DEF ThisOutput
  <2>7. CASE proc[v].pc = "d_dropIndex"
    <3>1. index[ThisOutput(v)] = proc[v].idx /\ proc[v].idx # None
      <4>1. proc[v].pc \in Indexed /\ proc[v].pc \in WithIndex
        BY <2>7 DEF Indexed, WithIndex, Recovering
      <4> QED
        BY <2>1, <4>1, NoneAssumption DEF JInv, IInv, Knows, IndexKnown, Local, IndexRead
    <3>2. Kept(ThisOutput(v)) = backup[IdxPair(v)][IdxRole(v)]
      BY <3>1 DEF Kept, IdxPair, IdxRole
    <3>3. Kept(ThisOutput(v))' = backup'[IdxPair(v)][IdxRole(v)]
      BY <2>5, <2>6, <3>1 DEF Kept, IdxPair, IdxRole, ThisOutput, Pair
    <3>4. backup'[IdxPair(v)][IdxRole(v)] = backup[IdxPair(v)][IdxRole(v)]
      <4>1. PICK o \in OutputsOf(Pair(v)) : o = ThisOutput(v)
        BY <2>6
      <4>2. Kept(o)' = Kept(o)
        BY <2>5, <3>1, <4>1
      <4>3. Kept(o) = Kept(ThisOutput(v))
        BY <4>1
      <4>4. Kept(o)' = Kept(ThisOutput(v))'
        BY <4>1 DEF ThisOutput, Pair
      <4> QED
        BY <3>2, <3>3, <4>2, <4>3, <4>4
    <3>5. dest[ThisOutput(v)] = IF proc[v].idx.prev THEN backup[IdxPair(v)][IdxRole(v)] ELSE Absent
      BY <2>7 DEF VInv, Holds
    <3>6. dest'[ThisOutput(v)] = IF proc[v].idx.prev THEN backup'[IdxPair(v)][IdxRole(v)] ELSE Absent
      BY <2>5, <2>6, <3>4, <3>5
    <3> QED
      BY <2>7, <3>6 DEF Holds, IdxPair, IdxRole, ThisOutput, Pair, SameS, SameR, PutS, PutR, BeforePut,
                        CommitDone, Unwinding
  <2>8. CASE proc[v].pc # "d_dropIndex"
    BY <2>5, <2>6, <2>8 DEF VInv, Holds, Pair
  <2> QED
    BY <2>7, <2>8
<1> QED
  BY <1>1, <1>2

(* The invariant holds again, and readers of other outputs see no change. *)
LEMMA VersionsStep ==
  ASSUME VInv, JInv', NEW w \in Procs, proc[w].pc \in Locked, Within(w), Copying(w), Passes(w),
         Holds(w)', Quiet(w)', \A o \in Focus(w) : Whole(o)' /\ Shown(o)'
  PROVE  VInv' /\ \A o \in Outputs \ Focus(w) : Logical(o)' = Logical(o)
<1>1. \A v \in Procs \ {w} : proc'[v] = proc[v]
  BY DEF Passes, Proceeds
<1>2. \A v \in Procs : Holds(v)'
  BY <1>1, OthersHold
<1>3. \A v \in Procs : Quiet(v)'
  BY <1>1 DEF VInv, Quiet
<1>4. TypeOK /\ TypeOK' /\ Stamped /\ \A v \in Procs : Fresh(v)
  BY DEF VInv, JInv, IInv
<1>5. Stamped' /\ \A v \in Procs : Fresh(v)'
  BY <1>4, FreshStep DEF Passes
<1>6. \A o \in Outputs \ Focus(w) : Settled(o)
  BY Bystander DEF VInv
<1>7. \A o \in Outputs : Whole(o)' /\ Shown(o)'
  BY <1>6 DEF Settled
<1>8. left'.edits = MaxEdits
  BY DEF Passes, Proceeds
<1>9. VInv'
  BY <1>2, <1>3, <1>5, <1>7, <1>8 DEF VInv
<1> QED
  BY <1>6, <1>9 DEF Settled

(* The step is one that no reader notices. *)
Unnoticed == VInv' /\ LogicalValue' = LogicalValue

(* Every output in focus is settled, and nobody notices. *)
LEMMA SettledStep ==
  ASSUME VInv, JInv', NEW w \in Procs, proc[w].pc \in Locked, Within(w), Copying(w), Passes(w),
         Holds(w)', Quiet(w)', \A o \in Focus(w) : Settled(o)
  PROVE  Unnoticed
<1>1. \A o \in Focus(w) : Whole(o)' /\ Shown(o)' /\ Logical(o)' = Logical(o)
  BY DEF Settled
<1>2. VInv' /\ \A o \in Outputs \ Focus(w) : Logical(o)' = Logical(o)
  BY <1>1, VersionsStep
<1>3. \A o \in Outputs : Logical(o)' = Logical(o)
  BY <1>1, <1>2
<1>4. LogicalValue' = LogicalValue
  BY <1>3 DEF LogicalValue
<1> QED
  BY <1>2, <1>4 DEF Unnoticed

(* No file changes. *)
LEMMA QuietStep ==
  ASSUME VInv, JInv', NEW w \in Procs, UNCHANGED <<dest, backup, index, marker>>, Passes(w),
         Holds(w)', Quiet(w)'
  PROVE  Unnoticed
<1>1. \A v \in Procs \ {w} : proc'[v] = proc[v]
  BY DEF Passes, Proceeds
<1>2. ASSUME NEW v \in Procs \ {w} PROVE Holds(v)'
  BY <1>1 DEF VInv, Holds, Pair, ThisOutput, IdxPair, IdxRole
<1>3. \A v \in Procs : Quiet(v)'
  BY <1>1 DEF VInv, Quiet
<1>4. TypeOK /\ TypeOK' /\ Stamped /\ \A v \in Procs : Fresh(v)
  BY DEF VInv, JInv, IInv
<1>5. Copying(w)
  BY DEF Copying, Present
<1>6. Stamped' /\ \A v \in Procs : Fresh(v)'
  BY <1>4, <1>5, FreshStep DEF Passes
<1>7. ASSUME NEW o \in Outputs PROVE Whole(o)' /\ Shown(o)' /\ Logical(o)' = Logical(o)
  BY DEF VInv, Whole, Shown, Open, Chosen, Kept, Logical
<1>8. left'.edits = MaxEdits
  BY DEF Passes, Proceeds
<1>9. VInv'
  BY <1>2, <1>3, <1>6, <1>7, <1>8 DEF VInv
<1>10. LogicalValue' = LogicalValue
  BY <1>7 DEF LogicalValue
<1> QED
  BY <1>9, <1>10 DEF Unnoticed

-----------------------------------------------------------------------------
(* What w knows where it arrives.                                          *)

Track(here, there) ==
  /\ there \in Owning => here \in Owning
  /\ there \in Unput => here \in Unput \ {"putS"}

Place(here, there) ==
  /\ there \in SameS => here \in SameS
  /\ there \in SameR => here \in SameR
  /\ there \in PutS => here \in PutS
  /\ there \in PutR => here \in PutR
  /\ there # "d_dropIndex"

(* Going on. *)
LEMMA GotoPasses ==
  ASSUME VInv, NEW w \in Procs, NEW there, Goto(w, there), clock' = clock, left'.edits = MaxEdits,
         there \in Owning => proc[w].pc \in Owning \/ proc[w].txn # 0,
         there \in Unput => proc[w].pc \in Unput \ {"putS"}
  PROVE  Passes(w) /\ Quiet(w)'
<1>1. proc \in [Procs -> ProcState] /\ proc[w] \in ProcState /\ Fresh(w) /\ Quiet(w)
  BY DEF VInv, JInv, IInv, TypeOK
<1>2. proc' = [proc EXCEPT ![w] = [proc[w] EXCEPT !.pc = there]]
  BY DEF Goto
<1>3. /\ proc'[w].pc = there /\ proc'[w].txn = proc[w].txn /\ proc'[w].seen = proc[w].seen
      /\ proc'[w].aborting = proc[w].aborting /\ proc'[w].why = proc[w].why
      /\ \A v \in Procs \ {w} : proc'[v] = proc[v]
  BY <1>1, <1>2 DEF ProcState
<1>4. Passes(w)
  BY <1>1, <1>3 DEF Passes, Proceeds, Fresh
<1> QED
  BY <1>1, <1>3, <1>4 DEF Quiet

(* Going on without touching an output. *)
LEMMA GotoHolds ==
  ASSUME VInv, NEW w \in Procs, NEW there, Goto(w, there), Place(proc[w].pc, there), dest' = dest
  PROVE  Holds(w)'
<1>1. proc \in [Procs -> ProcState] /\ proc[w] \in ProcState /\ Holds(w)
  BY DEF VInv, JInv, IInv, TypeOK
<1>2. proc' = [proc EXCEPT ![w] = [proc[w] EXCEPT !.pc = there]]
  BY DEF Goto
<1>3. /\ proc'[w].pc = there /\ proc'[w].txn = proc[w].txn /\ proc'[w].seen = proc[w].seen
      /\ proc'[w].pair = proc[w].pair
  BY <1>1, <1>2 DEF ProcState
<1> QED
  BY <1>1, <1>3 DEF Holds, Place, Pair

(* Stopping, with or without an error. *)
LEMMA StopPasses ==
  ASSUME VInv, NEW w \in Procs, NEW s, proc' = [proc EXCEPT ![w] = s],
         s.pc \in {"idle", "failed"}, s.txn \in {proc[w].txn, 0}, s.seen = IdleProc.seen,
         ~s.aborting, s.why # "uncommittedBackup", clock' = clock, left'.edits = MaxEdits
  PROVE  Passes(w) /\ Quiet(w)' /\ Holds(w)'
<1>1. proc \in [Procs -> ProcState]
  BY DEF VInv, JInv, IInv, TypeOK
<1>2. proc'[w] = s /\ \A v \in Procs \ {w} : proc'[v] = proc[v]
  BY <1>1
<1>3. s.pc \notin Owning /\ s.pc \notin SameS \cup SameR \cup PutS \cup PutR \cup Unput /\ s.pc # "d_dropIndex"
  BY DEF Owning, Publishing, Unwinding, Deciding, SameS, SameR, PutS, PutR, Unput, BeforePut,
         CommitDone, Recovering, PairCleanup
<1>4. \A k \in Roles : s.seen[k] = Absent
  BY DEF IdleProc
<1>5. Passes(w)
  BY <1>2, <1>3, <1>4 DEF Passes, Proceeds
<1>6. Holds(w)'
  BY <1>2, <1>3 DEF Holds
<1> QED
  BY <1>2, <1>5, <1>6 DEF Quiet

(* Stopping with an error. *)
LEMMA FailPasses ==
  ASSUME VInv, NEW w \in Procs, NEW reason, Fail(w, reason), reason # "uncommittedBackup",
         clock' = clock, left'.edits = MaxEdits
  PROVE  Passes(w) /\ Quiet(w)' /\ Holds(w)'
<1> DEFINE s == [IdleProc EXCEPT !.pc = "failed", !.pair = proc[w].pair, !.txn = proc[w].txn, !.why = reason]
<1>1. s.pc = "failed" /\ s.txn = proc[w].txn /\ s.seen = IdleProc.seen /\ ~s.aborting /\ s.why = reason
  BY DEF IdleProc
<1>2. proc' = [proc EXCEPT ![w] = s]
  BY DEF Fail
<1>3. PICK t : t = s
  OBVIOUS
<1>4. t.pc = "failed" /\ t.txn = proc[w].txn /\ t.seen = IdleProc.seen /\ ~t.aborting /\ t.why = reason
      /\ proc' = [proc EXCEPT ![w] = t]
  BY <1>1, <1>2, <1>3
<1> HIDE DEF s
<1> QED
  BY <1>4, StopPasses

(* A run that returns an error without touching a file. *)
LEMMA FailStep ==
  ASSUME VInv, JInv', NEW w \in Procs, NEW reason, Fail(w, reason), reason # "uncommittedBackup",
         UNCHANGED <<dest, backup, index, marker, clock>>, left'.edits = MaxEdits
  PROVE  Unnoticed
BY FailPasses, QuietStep

(* A run that goes on without touching a file. *)
LEMMA GotoStep ==
  ASSUME VInv, JInv', NEW w \in Procs, NEW there, Goto(w, there), Track(proc[w].pc, there),
         Place(proc[w].pc, there), UNCHANGED <<dest, backup, index, marker, clock>>, left'.edits = MaxEdits
  PROVE  Unnoticed
<1>1. Holds(w)'
  BY GotoHolds
<1>2. Passes(w) /\ Quiet(w)'
  BY GotoPasses DEF Track
<1> QED
  BY <1>1, <1>2, QuietStep

-----------------------------------------------------------------------------
(* File operations stay within the focus and copy versions.                *)

(* One backup of an output in focus becomes a version there is. *)
LEMMA WithinBackup ==
  ASSUME TypeOK, NEW w \in Procs, NEW q \in Pairs, NEW k \in Roles, Output(q, k) \in Focus(w),
         NEW v \in Present(w), backup' = [backup EXCEPT ![q][k] = v], UNCHANGED <<dest, index, marker>>
  PROVE  /\ Within(w) /\ Copying(w) /\ backup'[q][k] = v
         /\ \A p \in Pairs, j \in Roles : p # q \/ j # k => backup'[p][j] = backup[p][j]
<1>1. backup \in [Pairs -> [Roles -> Nat]]
  BY DEF TypeOK
<1>2. \A p \in Pairs, j \in Roles : backup'[p][j] = IF p = q /\ j = k THEN v ELSE backup[p][j]
  BY <1>1
<1>3. Within(w)
  BY <1>2 DEF Within
<1>4. Copying(w)
  BY <1>2 DEF Copying, Present
<1> QED
  BY <1>2, <1>3, <1>4

(* ... for a backup that goes. *)
LEMMA WithinDrop ==
  ASSUME TypeOK, NEW w \in Procs, NEW q \in Pairs, NEW k \in Roles, Output(q, k) \in Focus(w),
         backup' = [backup EXCEPT ![q][k] = Absent], UNCHANGED <<dest, index, marker>>
  PROVE  /\ Within(w) /\ Copying(w) /\ backup'[q][k] = Absent
         /\ \A p \in Pairs, j \in Roles : p # q \/ j # k => backup'[p][j] = backup[p][j]
<1>1. backup \in [Pairs -> [Roles -> Nat]]
  BY DEF TypeOK
<1>2. \A p \in Pairs, j \in Roles : backup'[p][j] = IF p = q /\ j = k THEN Absent ELSE backup[p][j]
  BY <1>1
<1>3. Within(w)
  BY <1>2 DEF Within
<1>4. Copying(w)
  BY <1>2 DEF Copying, Present
<1> QED
  BY <1>2, <1>3, <1>4

(* An output in focus becomes a version there is. *)
LEMMA WithinDest ==
  ASSUME TypeOK, NEW w \in Procs, NEW x \in Outputs, x \in Focus(w), NEW v \in Present(w),
         dest' = [dest EXCEPT ![x] = v], UNCHANGED <<backup, index, marker>>
  PROVE  /\ Within(w) /\ Copying(w) /\ dest'[x] = v
         /\ \A o \in Outputs \ {x} : dest'[o] = dest[o]
<1>1. \A o \in Outputs : dest'[o] = IF o = x THEN v ELSE dest[o]
  BY DEF TypeOK
<1>2. Within(w)
  BY <1>1 DEF Within
<1>3. Copying(w)
  BY <1>1 DEF Copying, Present
<1> QED
  BY <1>1, <1>2, <1>3

(* Indexes change in focus only. *)
LEMMA WithinIndex ==
  ASSUME NEW w \in Procs, \A o \in Outputs \ Focus(w) : index'[o] = index[o],
         UNCHANGED <<dest, backup, marker>>
  PROVE  Within(w) /\ Copying(w)
BY DEF Within, Copying, Present

(* The markers of one pair change, and no index out of focus depends on how. *)
LEMMA WithinMarker ==
  ASSUME IInv, NEW w \in Procs, NEW q \in Pairs, \A p \in Pairs \ {q} : marker'[p] = marker[p],
         \/ marker'[q] = marker[q] \/ Decided(q) \/ OutputsOf(q) \subseteq Focus(w)
         \/ \A o \in Outputs \ Focus(w) : ~Names(o, q),
         UNCHANGED <<dest, backup, index>>
  PROVE  Within(w) /\ Copying(w)
<1>1. OutputsOf(q) \subseteq Focus(w) => \A o \in Outputs \ Focus(w) : ~Names(o, q)
  BY DEF IInv, IndexOwned, Names
<1>2. Within(w)
  BY <1>1 DEF Within
<1> QED
  BY <1>2 DEF Copying, Present

(* An output of w's own pair, by its role, and the index beside it. *)
LEMMA OwnView ==
  ASSUME VInv, NEW w \in Procs, proc[w].pc \in Owning, NEW k \in Roles
  PROVE  /\ Pair(w) \in Pairs /\ Output(Pair(w), k) \in Outputs /\ Output(Pair(w), k) \in Focus(w)
         /\ PartOf(Output(Pair(w), k), Pair(w), k)
         /\ index[Output(Pair(w), k)] # None =>
              (index[Output(Pair(w), k)].prev <=> proc[w].seen[k] # Absent)
<1>1. proc[w].pc \in Locked /\ proc[w].pc \notin Recovering
  BY DEF Owning, Locked, Publishing, Unwinding, Deciding, Recovering
<1>2. Pair(w) \in Pairs
  BY <1>1, LockedPair DEF VInv, JInv, IInv
<1>3. Focus(w) = OutputsOf(Pair(w))
  BY <1>1 DEF Focus
<1>4. Output(Pair(w), k) \in OutputsOf(Pair(w)) /\ OutputsOf(Pair(w)) \subseteq Outputs
  BY <1>2, PairOutputs
<1>5. RoleIn(Pair(w), Output(Pair(w), k)) = k
  BY <1>2, PairsAssumption DEF RoleIn, Output, Roles
<1>6. index[Output(Pair(w), k)] # None =>
        /\ index[Output(Pair(w), k)].pair = Pair(w)
        /\ index[Output(Pair(w), k)].prev = (proc[w].seen[k] # Absent)
  BY DEF VInv, JInv, Knows, OwnIndexes
<1> QED
  BY <1>2, <1>3, <1>4, <1>5, <1>6 DEF PartOf

(* The focus of a process that publishes, unwinds or decides. *)
LEMMA OwnFocus ==
  ASSUME VInv, NEW w \in Procs, proc[w].pc \in Locked, proc[w].pc \notin Recovering,
         \A k \in Roles : Settled(Output(Pair(w), k))
  PROVE  \A o \in Focus(w) : Settled(o)
<1>1. \A o \in OutputsOf(Pair(w)) : \E k \in Roles : o = Output(Pair(w), k)
  BY DEF OutputsOf, Output, Roles
<1> QED
  BY <1>1 DEF Focus

-----------------------------------------------------------------------------
(* Recovery by an index.                                                   *)

(* Recovery neither captures nor puts a version. *)
LEMMA RecoveryTrack ==
  ASSUME NEW here \in Recovering \cup PairCleanup, NEW there \in (Recovering \cup PairCleanup) \ {"d_dropIndex"}
  PROVE  Track(here, there) /\ Place(here, there)
<1>1. there \notin Owning /\ there \notin SameS \cup SameR \cup PutS \cup PutR
  BY DEF Recovering, PairCleanup, Owning, Publishing, Unwinding, Deciding, SameS, SameR, PutS, PutR,
         BeforePut, CommitDone
<1>2. here \in Unput \ {"putS"}
  BY DEF Unput, Recovering, PairCleanup
<1> QED
  BY <1>1, <1>2 DEF Track, Place

(* w begins or goes on to recover, and remembers something else. *)
LEMMA LookUnnoticed ==
  ASSUME VInv, JInv', NEW w \in Procs, NEW s, proc' = [proc EXCEPT ![w] = s],
         s.pc \in (Recovering \ {"d_dropIndex"}) \cup {"classify", "staged", "idle"},
         \/ s.txn = 0
         \/ s.txn = proc[w].txn /\ proc[w].pc \in Recovering \cup PairCleanup \cup {"staged"},
         s.seen \in {proc[w].seen, IdleProc.seen}, ~s.aborting, s.why # "uncommittedBackup",
         UNCHANGED <<dest, backup, index, marker, clock>>, left'.edits = MaxEdits
  PROVE  Unnoticed
<1>1. proc \in [Procs -> ProcState]
  BY DEF VInv, JInv, IInv, TypeOK
<1>2. proc'[w] = s /\ \A v \in Procs \ {w} : proc'[v] = proc[v]
  BY <1>1
<1>3. s.pc \notin Owning /\ s.pc \notin SameS \cup SameR \cup PutS \cup PutR /\ s.pc # "d_dropIndex"
  BY DEF Owning, Publishing, Unwinding, Deciding, SameS, SameR, PutS, PutR, BeforePut, CommitDone,
         Recovering
<1>4. proc[w].pc \in Recovering \cup PairCleanup \cup {"staged"} => proc[w].pc \in Unput \ {"putS"}
  BY DEF Unput, Recovering, PairCleanup
<1>5. \A k \in Roles : s.seen[k] \in {proc[w].seen[k], Absent}
  BY DEF IdleProc
<1>6. Passes(w)
  BY <1>2, <1>3, <1>4, <1>5 DEF Passes, Proceeds
<1>7. Holds(w)' /\ Quiet(w)'
  BY <1>2, <1>3 DEF Holds, Quiet
<1> QED
  BY <1>6, <1>7, QuietStep

(* One output is recovered: w turns to the next. *)
LEMMA LeaveUnnoticed ==
  ASSUME VInv, JInv', NEW w \in Procs, proc[w].pc \in Recovering, LeaveDestination(w),
         UNCHANGED <<files, clock, left>>
  PROVE  Unnoticed
<1>1. PICK s : s = [proc[w] EXCEPT !.pc = IF proc[w].role = "summary" THEN "readIndex" ELSE "classify",
                                   !.role = "report", !.idx = None, !.marks = NoMarks]
  OBVIOUS
<1>2. proc[w] \in ProcState /\ Quiet(w) /\ left'.edits = MaxEdits
  BY DEF VInv, JInv, IInv, TypeOK
<1>3. /\ s.pc \in {"readIndex", "classify"} /\ s.txn = proc[w].txn /\ s.seen = proc[w].seen
      /\ s.aborting = proc[w].aborting /\ s.why = proc[w].why
  BY <1>1, <1>2 DEF ProcState
<1>4. proc' = [proc EXCEPT ![w] = s]
  BY <1>1 DEF LeaveDestination
<1>5. s.pc \in (Recovering \ {"d_dropIndex"}) \cup {"classify", "staged", "idle"}
  BY <1>3 DEF Recovering
<1> QED
  BY <1>2, <1>3, <1>4, <1>5, LookUnnoticed DEF Quiet, files

(* w reads the index beside an output. *)
LEMMA ReadIndexUnnoticed ==
  ASSUME VInv, JInv', NEW w \in Procs, ReadIndex(w)
  PROVE  Unnoticed
<1>1. proc[w].pc = "readIndex" /\ UNCHANGED <<files, clock, left>>
  BY DEF ReadIndex, At
<1>2. proc[w].pc \in Recovering /\ left'.edits = MaxEdits
  BY <1>1 DEF Recovering, VInv
<1>3. CASE LeaveDestination(w)
  BY <1>1, <1>2, <1>3, LeaveUnnoticed
<1>4. CASE Fail(w, "unsafeIndex")
  BY <1>1, <1>2, <1>4, FailStep DEF files
<1>5. CASE proc' = [proc EXCEPT ![w].pc = "readActive", ![w].idx = index[ThisOutput(w)]]
  <2>1. PICK s : s = [proc[w] EXCEPT !.pc = "readActive", !.idx = index[ThisOutput(w)]]
    OBVIOUS
  <2>2. proc[w] \in ProcState /\ Quiet(w) /\ proc \in [Procs -> ProcState]
    BY DEF VInv, JInv, IInv, TypeOK
  <2>3. /\ s.pc = "readActive" /\ s.txn = proc[w].txn /\ s.seen = proc[w].seen
        /\ s.aborting = proc[w].aborting /\ s.why = proc[w].why
    BY <2>1, <2>2 DEF ProcState
  <2>4. proc' = [proc EXCEPT ![w] = s]
    BY <1>5, <2>1, <2>2 DEF ProcState
  <2>5. s.pc \in (Recovering \ {"d_dropIndex"}) \cup {"classify", "staged", "idle"}
    BY <2>3 DEF Recovering
  <2> QED
    BY <1>1, <1>2, <2>2, <2>3, <2>4, <2>5, LookUnnoticed DEF Quiet, files
<1> QED
  BY <1>3, <1>4, <1>5 DEF ReadIndex

(* w reads a marker of the pair that index names. *)
LEMMA ReadMarkerUnnoticed ==
  ASSUME VInv, JInv', NEW w \in Procs, NEW here \in Recovering, NEW kind \in Kinds,
         NEW there \in Recovering \ {"d_dropIndex"}, ReadMarker(w, here, kind, there)
  PROVE  Unnoticed
<1>1. proc[w].pc = here /\ UNCHANGED <<files, clock, left>> /\ left'.edits = MaxEdits
  BY DEF ReadMarker, At, VInv
<1>2. CASE Fail(w, "unsafeMarker")
  BY <1>1, <1>2, FailStep DEF files
<1>3. CASE proc' = [proc EXCEPT ![w].pc = there,
                                ![w].marks = [@ EXCEPT ![kind] = marker[IdxPair(w)][kind]]]
  <2>1. PICK s : s = [proc[w] EXCEPT !.pc = there, !.marks = [@ EXCEPT ![kind] = marker[IdxPair(w)][kind]]]
    OBVIOUS
  <2>2. proc[w] \in ProcState /\ Quiet(w) /\ proc \in [Procs -> ProcState]
    BY DEF VInv, JInv, IInv, TypeOK
  <2>3. /\ s.pc = there /\ s.txn = proc[w].txn /\ s.seen = proc[w].seen
        /\ s.aborting = proc[w].aborting /\ s.why = proc[w].why
    BY <2>1, <2>2 DEF ProcState
  <2>4. proc' = [proc EXCEPT ![w] = s]
    BY <1>3, <2>1, <2>2 DEF ProcState
  <2> QED
    BY <1>1, <2>2, <2>3, <2>4, LookUnnoticed DEF Quiet, files
<1> QED
  BY <1>2, <1>3 DEF ReadMarker

(* w chooses what to do. *)
LEMMA DecideUnnoticed ==
  ASSUME VInv, JInv', NEW w \in Procs, Decide(w)
  PROVE  Unnoticed
<1>1. proc[w].pc = "decide" /\ UNCHANGED <<files, clock, left>> /\ left'.edits = MaxEdits
  BY DEF Decide, At, VInv
<1>2. CASE Fail(w, "contradiction") \/ Fail(w, "raced")
  BY <1>1, <1>2, FailStep DEF files
<1>3. CASE Goto(w, DestinationPlan(proc[w].marks))
  <2>1. PICK there : there = DestinationPlan(proc[w].marks)
    OBVIOUS
  <2>2. there \in {"d_link", "d_restore", "d_keep", "d_sweep"}
    BY <2>1 DEF DestinationPlan
  <2>3. Goto(w, there)
    BY <1>3, <2>1
  <2>4. Track(proc[w].pc, there) /\ Place(proc[w].pc, there)
    BY <1>1, <2>2, RecoveryTrack DEF Recovering
  <2> QED
    BY <1>1, <2>3, <2>4, GotoStep DEF files
<1> QED
  BY <1>2, <1>3 DEF Decide

(* w looks for an index beside the other output. *)
LEMMA CheckPeerUnnoticed ==
  ASSUME VInv, JInv', NEW w \in Procs, CheckPeer(w)
  PROVE  Unnoticed
<1>1. proc[w].pc = "d_peer" /\ UNCHANGED <<files, clock, left>> /\ left'.edits = MaxEdits
  BY DEF CheckPeer, At, VInv
<1>2. CASE Fail(w, "unsafeIndex")
  BY <1>1, <1>2, FailStep DEF files
<1>3. ASSUME NEW there \in {"d_leave", "d_rmActive"}, Goto(w, there) PROVE Unnoticed
  <2>1. Track(proc[w].pc, there) /\ Place(proc[w].pc, there)
    BY <1>1, RecoveryTrack DEF Recovering
  <2> QED
    BY <1>1, <1>3, <2>1, GotoStep DEF files
<1> QED
  BY <1>2, <1>3 DEF CheckPeer

(* w is done with this output. *)
LEMMA NextDestinationUnnoticed ==
  ASSUME VInv, JInv', NEW w \in Procs, NextDestination(w)
  PROVE  Unnoticed
BY LeaveUnnoticed DEF NextDestination, At, Recovering

-----------------------------------------------------------------------------
(* What recovery does to an output beside the index it read.               *)

(* The output, its index and the pair that index names. *)
LEMMA ActView ==
  ASSUME VInv, NEW w \in Procs, proc[w].pc \in Indexed \cup Taken, NEW q \in Pairs, NEW o \in Outputs,
         Besides(w, q, o)
  PROVE  /\ Focus(w) = {o} /\ PartOf(o, q, RoleIn(q, o)) /\ Whole(o) /\ Shown(o)
         /\ proc[w].pc \in Taken => index[o] = None
         /\ proc[w].pc \in Indexed => index[o] = proc[w].idx /\ index[o] # None
<1>1. proc[w].pc \in WithIndex /\ proc[w].pc \in Recovering
  BY DEF WithIndex, Recovering, Indexed, Taken, Reading
<1>2. o = ThisOutput(w) /\ JInv /\ Knows(w)
  BY DEF Besides, VInv, JInv
<1>3. Focus(w) = {o}
  BY <1>1, <1>2 DEF Focus
<1>4. proc[w].pc \in Taken => index[o] = None
  BY <1>2 DEF Knows, IndexKnown
<1>5. proc[w].pc \in Indexed => Names(o, q) /\ index[o] = proc[w].idx /\ proc[w].idx # None
  BY <1>1, <1>2, BesidesIndex
<1>6. PartOf(o, q, RoleIn(q, o))
  BY <1>4, <1>5 DEF PartOf, Names
<1> QED
  BY <1>3, <1>4, <1>5, <1>6 DEF VInv

(* The step of a process in recovery that changes one output's sidecars. *)
LEMMA ActUnnoticed ==
  ASSUME VInv, JInv', NEW w \in Procs, NEW o, Focus(w) = {o}, Settled(o), Within(w), Copying(w),
         NEW there \in Recovering \ {"d_dropIndex"}, Goto(w, there), proc[w].pc \in Recovering,
         dest' = dest, clock' = clock, left' = left
  PROVE  Unnoticed
<1>1. Track(proc[w].pc, there) /\ Place(proc[w].pc, there)
  BY RecoveryTrack
<1>2. proc[w].pc \in Locked /\ left'.edits = MaxEdits
  BY DEF Locked, VInv
<1>3. Passes(w) /\ Quiet(w)' /\ Holds(w)'
  BY <1>1, <1>2, GotoPasses, GotoHolds DEF Track
<1> QED
  BY <1>2, <1>3, SettledStep

(* A roll-back that was due is decided: the output reads as before. *)
LEMMA ActLinkUnnoticed ==
  ASSUME VInv, JInv', NEW w \in Procs, LinkMarker(w, "d_link", IdxPair(w), "rollback", "d_retire")
  PROVE  Unnoticed
<1>1. proc[w].pc = "d_link" /\ UNCHANGED <<dest, backup, index, clock, left>> /\ left'.edits = MaxEdits
  BY DEF LinkMarker, At, VInv
<1>2. proc[w].pc \in Indexed \cup Taken /\ proc[w].pc \in WithIndex /\ proc[w].pc \in Recovering
      /\ "d_retire" \in Recovering \ {"d_dropIndex"}
  BY <1>1 DEF Indexed, WithIndex, Recovering
<1>3. JInv /\ IInv /\ TypeOK
  BY DEF VInv, JInv, IInv
<1>4. PICK q \in Pairs : \E o \in Outputs : Besides(w, q, o)
  BY <1>2, <1>3, BesidesExist
<1>5. PICK o \in Outputs : Besides(w, q, o)
  BY <1>4
<1>6. q = IdxPair(w) /\ RoleIn(q, o) \in Roles
  BY <1>5 DEF Besides
<1>7. CASE Fail(w, "raced") /\ UNCHANGED marker
  BY <1>1, <1>7, FailStep
<1>8. CASE Goto(w, "d_retire") /\ UNCHANGED marker
  <2>1. Track(proc[w].pc, "d_retire") /\ Place(proc[w].pc, "d_retire")
    BY <1>2, RecoveryTrack
  <2> QED
    BY <1>1, <1>8, <2>1, GotoStep
<1>9. CASE /\ marker[q]["rollback"] = None /\ marker[q]["active"] # None /\ Goto(w, "d_retire")
           /\ marker' = [marker EXCEPT ![q]["rollback"] = marker[q]["active"]]
  <2>1. marker[q]["committed"] = None
    BY <1>1, <1>3, <1>6 DEF IInv, Local, ReadMarks
  <2>2. marker'[q]["rollback"] # None /\ \A p \in Pairs \ {q} : marker'[p] = marker[p]
    BY <1>3, <1>9 DEF TypeOK, Kinds
  <2>3. Decided(q)
    BY <1>9, <2>1, <2>2 DEF Decided, SelectsRollback, Kinds
  <2>4. Within(w) /\ Copying(w)
    BY <1>1, <1>3, <2>2, <2>3, WithinMarker
  <2>5. SameBeside(o)
    BY <1>1 DEF SameBeside
  <2>6. PartOf(o, q, RoleIn(q, o)) /\ Whole(o) /\ Shown(o) /\ Focus(w) = {o}
    BY <1>2, <1>5, ActView
  <2>7. Settled(o)
    BY <1>1, <1>6, <2>3, <2>5, <2>6, Unmoved
  <2> QED
    BY <1>1, <1>2, <1>9, <2>4, <2>6, <2>7, ActUnnoticed
<1> QED
  BY <1>6, <1>7, <1>8, <1>9 DEF LinkMarker

(* The active marker of a transaction being rolled back goes. *)
LEMMA ActRetireUnnoticed ==
  ASSUME VInv, JInv', NEW w \in Procs, RetireActive(w, "d_retire", IdxPair(w), "rollback", "d_restore")
  PROVE  Unnoticed
<1>1. proc[w].pc = "d_retire" /\ UNCHANGED <<dest, backup, index, clock, left>> /\ left'.edits = MaxEdits
  BY DEF RetireActive, At, VInv
<1>2. proc[w].pc \in Indexed \cup Taken /\ proc[w].pc \in WithIndex /\ proc[w].pc \in Recovering
      /\ "d_restore" \in Recovering \ {"d_dropIndex"}
  BY <1>1 DEF Indexed, WithIndex, Recovering
<1>3. JInv /\ IInv /\ TypeOK
  BY DEF VInv, JInv, IInv
<1>4. PICK q \in Pairs : \E o \in Outputs : Besides(w, q, o)
  BY <1>2, <1>3, BesidesExist
<1>5. PICK o \in Outputs : Besides(w, q, o)
  BY <1>4
<1>6. q = IdxPair(w) /\ RoleIn(q, o) \in Roles
  BY <1>5 DEF Besides
<1>7. CASE Fail(w, "raced") /\ UNCHANGED marker
  BY <1>1, <1>7, FailStep
<1>8. CASE Goto(w, "d_restore") /\ marker' = [marker EXCEPT ![q]["active"] = None]
  <2>1. marker[q]["rollback"] # None
    BY <1>1, <1>3, <1>6 DEF JInv, Knows, IndexKnown
  <2>2. marker'[q]["rollback"] = marker[q]["rollback"] /\ \A p \in Pairs \ {q} : marker'[p] = marker[p]
    BY <1>3, <1>8 DEF TypeOK, Kinds
  <2>3. Decided(q)
    BY <2>1, <2>2 DEF Decided, SelectsRollback, Kinds
  <2>4. Within(w) /\ Copying(w)
    BY <1>1, <1>3, <2>2, <2>3, WithinMarker
  <2>5. SameBeside(o)
    BY <1>1 DEF SameBeside
  <2>6. PartOf(o, q, RoleIn(q, o)) /\ Whole(o) /\ Shown(o) /\ Focus(w) = {o}
    BY <1>2, <1>5, ActView
  <2>7. Settled(o)
    BY <1>1, <1>6, <2>3, <2>5, <2>6, Unmoved
  <2> QED
    BY <1>1, <1>2, <1>8, <2>4, <2>6, <2>7, ActUnnoticed
<1> QED
  BY <1>6, <1>7, <1>8 DEF RetireActive

(* What is common to these steps. *)
LEMMA ActAt ==
  ASSUME VInv, NEW w \in Procs, proc[w].pc \in Indexed \cup Taken
  PROVE  /\ proc[w].pc \in Recovering /\ proc[w].pc \in Locked /\ left.edits = MaxEdits
         /\ JInv /\ IInv /\ TypeOK
         /\ \E q \in Pairs : \E o \in Outputs : Besides(w, q, o)
<1>1. proc[w].pc \in WithIndex /\ proc[w].pc \in Recovering /\ proc[w].pc \in Locked
  BY DEF Indexed, Taken, Reading, WithIndex, Recovering, Locked
<1>2. \E q \in Pairs : \E o \in Outputs : Besides(w, q, o)
  BY <1>1, BesidesExist DEF VInv
<1> QED
  BY <1>1, <1>2 DEF VInv, JInv, IInv

(* The output becomes what its readers were told it is. *)
LEMMA ActRestoreUnnoticed ==
  ASSUME VInv, JInv', NEW w \in Procs,
         Restore(w, "d_restore", IdxPair(w), IdxRole(w), proc[w].idx.prev, "d_dropIndex")
  PROVE  Unnoticed
<1>1. proc[w].pc = "d_restore" /\ UNCHANGED <<backup, index, marker, clock, left>>
  BY DEF Restore, At
<1>2. proc[w].pc \in Indexed \cup Taken
  BY <1>1 DEF Indexed
<1>3. left'.edits = MaxEdits /\ JInv /\ IInv /\ TypeOK /\ proc[w].pc \in Locked /\ left.edits = MaxEdits
  BY <1>1, <1>2, ActAt
<1>4. PICK q \in Pairs : \E o \in Outputs : Besides(w, q, o)
  BY <1>2, ActAt
<1>5. PICK o \in Outputs : /\ Besides(w, q, o) /\ q = IdxPair(w) /\ o = ThisOutput(w)
                            /\ IdxRole(w) = RoleIn(q, o) /\ RoleIn(q, o) \in Roles
                            /\ Output(q, RoleIn(q, o)) = o
  BY <1>4 DEF Besides
<1>6. PICK k \in Roles : k = RoleIn(q, o)
  BY <1>5
<1>7. /\ Focus(w) = {o} /\ PartOf(o, q, k) /\ index[o] = proc[w].idx /\ index[o] # None
  BY <1>1, <1>2, <1>5, <1>6, ActView DEF Indexed
<1>8. CASE (Fail(w, "missingBackup") \/ Fail(w, "unexpectedBackup")) /\ UNCHANGED dest
  BY <1>1, <1>3, <1>8, FailStep
<1>9. CASE /\ proc[w].idx.prev => backup[q][k] # Absent
           /\ ~proc[w].idx.prev => backup[q][k] = Absent
           /\ dest' = [dest EXCEPT ![o] = backup[q][k]] /\ Goto(w, "d_dropIndex")
  <2>1. marker[q]["rollback"] # None
    BY <1>1, <1>3, <1>5 DEF JInv, Knows, IndexKnown
  <2>2. Chooses(q)
    BY <2>1 DEF Chooses, SelectsRollback
  <2>3. backup[q][k] \in Present(w)
    BY DEF Present
  <2>4. Within(w) /\ Copying(w) /\ dest'[o] = backup[q][k]
    BY <1>1, <1>3, <1>7, <1>9, <2>3, WithinDest
  <2>5. SameBeside(o)
    BY <1>1 DEF SameBeside
  <2>6. Settled(o)
    BY <1>1, <1>7, <1>9, <2>2, <2>4, <2>5, Replaced
  <2>7. "d_dropIndex" \notin Owning /\ proc[w].pc \in Unput \ {"putS"}
    BY <1>1 DEF Owning, Publishing, Unwinding, Deciding, Unput, Recovering
  <2>8. Passes(w) /\ Quiet(w)'
    BY <1>1, <1>3, <1>9, <2>7, GotoPasses
  <2>9. Holds(w)'
    <3>1. /\ proc'[w].pc = "d_dropIndex" /\ ThisOutput(w)' = o /\ IdxPair(w)' = q /\ IdxRole(w)' = k
          /\ proc'[w].idx = proc[w].idx
      BY <1>3, <1>5, <1>6, <1>9 DEF Goto, TypeOK, ProcState, ThisOutput, IdxPair, IdxRole, Pair
    <3>2. dest'[o] = IF proc[w].idx.prev THEN backup'[q][k] ELSE Absent
      BY <1>1, <1>9, <2>4
    <3>3. "d_dropIndex" \notin SameS \cup SameR \cup PutS \cup PutR
      BY DEF SameS, SameR, PutS, PutR, BeforePut, CommitDone, Unwinding
    <3> QED
      BY <3>1, <3>2, <3>3 DEF Holds
  <2> QED
    BY <1>3, <1>7, <2>4, <2>6, <2>8, <2>9, SettledStep
<1> QED
  BY <1>5, <1>6, <1>8, <1>9 DEF Restore

(* The index goes, once the output is what it asked for. *)
LEMMA ActDropIndexUnnoticed ==
  ASSUME VInv, JInv', NEW w \in Procs, NEW here, NEW there,
         \/ here = "d_dropIndex" /\ there = "d_dropBackup"
         \/ here = "d_forget" /\ there = "d_peer",
         DropIndex(w, here, ThisOutput(w), there)
  PROVE  Unnoticed
<1>1. proc[w].pc = here /\ UNCHANGED <<dest, backup, marker, clock, left>> /\ Goto(w, there)
  BY DEF DropIndex, At
<1>2. proc[w].pc \in Indexed \cup Taken /\ there \in Recovering \ {"d_dropIndex"}
  BY <1>1 DEF Indexed, Recovering
<1>3. JInv /\ IInv /\ TypeOK /\ proc[w].pc \in Recovering
  BY <1>2, ActAt
<1>4. PICK q \in Pairs : \E o \in Outputs : Besides(w, q, o)
  BY <1>2, ActAt
<1>5. PICK o \in Outputs : /\ Besides(w, q, o) /\ q = IdxPair(w) /\ o = ThisOutput(w)
                            /\ IdxRole(w) = RoleIn(q, o) /\ RoleIn(q, o) \in Roles
                            /\ Output(q, RoleIn(q, o)) = o
  BY <1>4 DEF Besides
<1>6. PICK k \in Roles : k = RoleIn(q, o)
  BY <1>5
<1>7. /\ Focus(w) = {o} /\ PartOf(o, q, k) /\ index[o] = proc[w].idx /\ index[o] # None
  BY <1>1, <1>2, <1>5, <1>6, ActView DEF Indexed
<1>8. \A x \in Outputs : index'[x] = IF x = o THEN None ELSE index[x]
  BY <1>3, <1>5 DEF DropIndex, TypeOK
<1>9. Within(w) /\ Copying(w)
  BY <1>1, <1>7, <1>8, WithinIndex
<1>10. Logical(o) = dest[o]
  <2>1. CASE here = "d_dropIndex"
    <3>1. marker[q]["rollback"] # None
      BY <1>1, <1>3, <1>5, <2>1 DEF JInv, Knows, IndexKnown
    <3>2. dest[o] = IF proc[w].idx.prev THEN backup[q][k] ELSE Absent
      BY <1>1, <1>5, <1>6, <2>1 DEF VInv, Holds
    <3>3. Chosen(o) /\ Kept(o) = backup[q][k]
      BY <1>7, <3>1 DEF Chosen, Kept, SelectsRollback, PartOf
    <3> QED
      BY <1>7, <3>2, <3>3, LogicalIs
  <2>2. CASE here = "d_forget"
    <3>1. marker[q]["committed"] # None \/ \A j \in Kinds : marker[q][j] = None
      BY <1>1, <1>3, <1>5, <2>2 DEF JInv, Knows, IndexKnown
    <3>2. ~Chosen(o)
      BY <1>3, <1>7, <3>1 DEF Chosen, SelectsRollback, PartOf, IInv, OneDecision, Kinds
    <3> QED
      BY <3>2, LogicalIs
  <2> QED
    BY <2>1, <2>2
<1>11. Settled(o)
  BY <1>1, <1>8, <1>10, Forgotten
<1> QED
  BY <1>1, <1>2, <1>3, <1>7, <1>9, <1>11, ActUnnoticed

(* A backup goes that is not needed any more. *)
LEMMA ActDropBackupUnnoticed ==
  ASSUME VInv, JInv', NEW w \in Procs, NEW here, NEW there,
         \/ here = "d_dropBackup" /\ there = "d_peer"
         \/ here = "d_keep" /\ there = "d_forget"
         \/ here = "d_sweep" /\ there = "d_forget",
         At(w, here), Goto(w, there), backup' = [backup EXCEPT ![IdxPair(w)][IdxRole(w)] = Absent],
         UNCHANGED <<dest, index, marker, clock, left>>
  PROVE  Unnoticed
<1>1. proc[w].pc = here
  BY DEF At
<1>2. proc[w].pc \in Indexed \cup Taken /\ there \in Recovering \ {"d_dropIndex"}
  BY <1>1 DEF Indexed, Taken, Recovering
<1>3. JInv /\ IInv /\ TypeOK /\ proc[w].pc \in Recovering
  BY <1>2, ActAt
<1>4. PICK q \in Pairs : \E o \in Outputs : Besides(w, q, o)
  BY <1>2, ActAt
<1>5. PICK o \in Outputs : /\ Besides(w, q, o) /\ q = IdxPair(w) /\ o = ThisOutput(w)
                            /\ IdxRole(w) = RoleIn(q, o) /\ RoleIn(q, o) \in Roles
                            /\ Output(q, RoleIn(q, o)) = o
  BY <1>4 DEF Besides
<1>6. PICK k \in Roles : k = RoleIn(q, o)
  BY <1>5
<1>7. Focus(w) = {o} /\ PartOf(o, q, k) /\ Whole(o)
  BY <1>2, <1>5, <1>6, ActView
<1>8. backup' = [backup EXCEPT ![q][k] = Absent] /\ Output(q, k) \in Focus(w)
  BY <1>5, <1>6, <1>7
<1>9. Within(w) /\ Copying(w) /\ backup'[q][k] = Absent
  <2>1. UNCHANGED <<dest, index, marker>>
    OBVIOUS
  <2> QED
    BY <1>3, <1>8, <2>1, WithinDrop
<1>10. SameBeside(o)
  BY DEF SameBeside
<1>11. Settled(o)
  <2>1. CASE here = "d_dropBackup"
    <3>1. index[o] = None
      BY <1>1, <1>2, <1>5, <2>1, ActView DEF Taken
    <3> QED
      BY <3>1, Bare
  <2>2. CASE here \in {"d_keep", "d_sweep"}
    <3>1. marker[q]["committed"] # None \/ \A j \in Kinds : marker[q][j] = None
      BY <1>1, <1>3, <1>5, <2>2 DEF JInv, Knows, IndexKnown
    <3>2. ~Chooses(q)
      BY <1>3, <3>1 DEF Chooses, SelectsRollback, IInv, OneDecision, Kinds
    <3> QED
      BY <1>7, <1>9, <1>10, <3>2, Released
  <2> QED
    BY <2>1, <2>2
<1> QED
  BY <1>2, <1>3, <1>7, <1>9, <1>11, ActUnnoticed

(* A committed transaction, or one that was never marked, is cleared away. *)
LEMMA KeepUnnoticed ==
  ASSUME VInv, JInv', NEW w \in Procs, KeepDestination(w)
  PROVE  Unnoticed
<1>1. left.edits = MaxEdits
  BY DEF VInv
<1>2. CASE DropOwnBackup(w, "d_keep", IdxPair(w), IdxRole(w), proc[w].idx.prev, "d_forget")
  <2>1. CASE Fail(w, "unexpectedBackup") /\ UNCHANGED backup
    BY <1>1, <1>2, <2>1, FailStep DEF DropOwnBackup
  <2>2. CASE backup' = [backup EXCEPT ![IdxPair(w)][IdxRole(w)] = Absent] /\ Goto(w, "d_forget")
    BY <1>2, <2>2, ActDropBackupUnnoticed DEF DropOwnBackup
  <2> QED
    BY <1>2, <2>1, <2>2 DEF DropOwnBackup
<1>3. CASE DropStaleBackup(w, "d_sweep", IdxPair(w), IdxRole(w), "uncommittedBackup", "d_forget")
  <2>1. CASE backup[IdxPair(w)][IdxRole(w)] \notin {Absent, dest[Output(IdxPair(w), IdxRole(w))]}
    <3>1. proc[w].pc = "d_sweep" /\ proc[w].pc \in Indexed
      BY <1>3 DEF DropStaleBackup, At, Indexed
    <3>2. JInv /\ \E q \in Pairs : \E o \in Outputs : Besides(w, q, o)
      BY <3>1, ActAt
    <3>3. PICK q \in Pairs : \E o \in Outputs : Besides(w, q, o)
      BY <3>2
    <3>4. PICK o \in Outputs : /\ Besides(w, q, o) /\ q = IdxPair(w) /\ IdxRole(w) = RoleIn(q, o)
                               /\ Output(q, RoleIn(q, o)) = o
      BY <3>3 DEF Besides
    <3>5. PartOf(o, q, RoleIn(q, o)) /\ Whole(o) /\ index[o] # None
      BY <3>1, <3>4, ActView
    <3>6. \A j \in Kinds : marker[q][j] = None
      BY <3>1, <3>2, <3>4 DEF JInv, Knows, IndexKnown
    <3>7. Open(o) /\ Kept(o) = backup[q][RoleIn(q, o)]
      BY <3>5, <3>6 DEF Open, Kept, PartOf
    <3> QED
      BY <2>1, <3>4, <3>5, <3>7 DEF Whole
  <2>2. CASE backup' = [backup EXCEPT ![IdxPair(w)][IdxRole(w)] = Absent] /\ Goto(w, "d_forget")
    BY <1>3, <2>2, ActDropBackupUnnoticed DEF DropStaleBackup
  <2> QED
    BY <1>3, <2>1, <2>2 DEF DropStaleBackup
<1> QED
  BY <1>2, <1>3, ActDropIndexUnnoticed DEF KeepDestination

(* Rolling one output back. *)
LEMMA RollBackDestinationUnnoticed ==
  ASSUME VInv, JInv', NEW w \in Procs, RollBackDestination(w)
  PROVE  Unnoticed
BY ActLinkUnnoticed, ActRetireUnnoticed, ActRestoreUnnoticed, ActDropIndexUnnoticed,
   ActDropBackupUnnoticed DEF RollBackDestination, DropBackup

(* The markers go when no index leads to them any more. *)
LEMMA RetireMarkersUnnoticed ==
  ASSUME VInv, JInv', NEW w \in Procs, RetireMarkers(w)
  PROVE  Unnoticed
<1> SUFFICES ASSUME NEW here, NEW there, NEW kind \in Kinds,
                    \/ here = "d_rmActive" /\ there = "d_rmCommitted"
                    \/ here = "d_rmCommitted" /\ there = "d_rmRollback"
                    \/ here = "d_rmRollback" /\ there = "d_leave",
                    RemoveMarker(w, here, IdxPair(w), kind, there)
             PROVE  Unnoticed
  BY DEF RetireMarkers, Kinds
<1>1. proc[w].pc = here /\ UNCHANGED <<dest, backup, index, clock, left>> /\ Goto(w, there)
  BY DEF RemoveMarker, At
<1>2. proc[w].pc \in Taken /\ proc[w].pc \in Removing /\ there \in Recovering \ {"d_dropIndex"}
  BY <1>1 DEF Taken, Removing, Recovering
<1>3. JInv /\ IInv /\ TypeOK /\ proc[w].pc \in Recovering
  BY <1>2, ActAt
<1>4. PICK q \in Pairs : \E o \in Outputs : Besides(w, q, o)
  BY <1>2, ActAt
<1>5. PICK o \in Outputs : Besides(w, q, o) /\ q = IdxPair(w) /\ o = ThisOutput(w)
  BY <1>4 DEF Besides
<1>6. Focus(w) = {o} /\ index[o] = None
  BY <1>2, <1>5, ActView
<1>7. ~Names(Peer(q, o), q)
  BY <1>2, <1>3, <1>5 DEF JInv, Knows, IndexKnown
<1>8. \A x \in Outputs \ {o} : ~Names(x, q)
  <2>1. \A x \in Outputs : Names(x, q) => x \in OutputsOf(q)
    BY <1>3 DEF Names, IInv, IndexOwned
  <2>2. \A x \in OutputsOf(q) : x = o \/ x = Peer(q, o)
    BY <1>5 DEF Peer, OutputsOf, Besides
  <2> QED
    BY <1>7, <2>1, <2>2
<1>9. \A p \in Pairs \ {q} : marker'[p] = marker[p]
  BY <1>3, <1>5 DEF RemoveMarker, TypeOK
<1>10. Within(w) /\ Copying(w)
  BY <1>1, <1>3, <1>6, <1>8, <1>9, WithinMarker
<1>11. Settled(o)
  BY <1>1, <1>6, Bare
<1> QED
  BY <1>1, <1>2, <1>3, <1>6, <1>10, <1>11, ActUnnoticed

(* Recovery by an index changes nothing a reader may rely on. *)
LEMMA RecoverDestinationUnnoticed ==
  ASSUME VInv, JInv', NEW w \in Procs, RecoverDestination(w)
  PROVE  Unnoticed
<1>1. /\ {"readActive", "readCommitted", "readRollback", "decide"} \subseteq Recovering \ {"d_dropIndex"}
      /\ {"active", "committed", "rollback"} = Kinds
  BY DEF Recovering, Kinds
<1>2. CASE \/ ReadMarker(w, "readActive", "active", "readCommitted")
           \/ ReadMarker(w, "readCommitted", "committed", "readRollback")
           \/ ReadMarker(w, "readRollback", "rollback", "decide")
  BY <1>1, <1>2, ReadMarkerUnnoticed
<1> QED
  BY <1>2, ReadIndexUnnoticed, DecideUnnoticed, RollBackDestinationUnnoticed, KeepUnnoticed,
     CheckPeerUnnoticed, RetireMarkersUnnoticed, NextDestinationUnnoticed DEF RecoverDestination

-----------------------------------------------------------------------------
(* Recovery of the pair's own sidecars: no index is left.                  *)

(* In this phase neither output of the pair has an index. *)
LEMMA CleanupView ==
  ASSUME VInv, NEW w \in Procs, proc[w].pc \in PairCleanup
  PROVE  /\ IInv /\ TypeOK /\ JInv /\ left.edits = MaxEdits /\ proc[w].pc \in Locked /\ Pair(w) \in Pairs
         /\ Focus(w) = OutputsOf(Pair(w)) /\ \A k \in Roles : Output(Pair(w), k) \in Focus(w)
         /\ \A o \in Focus(w) : index[o] = None
<1>1. IInv /\ TypeOK /\ JInv /\ left.edits = MaxEdits /\ proc[w].pc \in Locked
  BY DEF VInv, JInv, IInv, Locked
<1>2. Pair(w) \in Pairs
  BY <1>1, LockedPair
<1>3. Focus(w) = OutputsOf(Pair(w))
  BY DEF Focus, Recovering, PairCleanup
<1>4. proc[w].pc \in ClearS /\ proc[w].pc \in ClearR
  BY DEF ClearS, ClearR, Unindexed
<1>5. index[SummaryOf[Pair(w)]] = None /\ index[ReportOf[Pair(w)]] = None
  BY <1>1, <1>4 DEF JInv, Knows, OwnIndexes
<1> QED
  BY <1>1, <1>2, <1>3, <1>5, PairOutputs DEF OutputsOf

(* Then the pair's other sidecars mean nothing to a reader. *)
LEMMA CleanupUnnoticed ==
  ASSUME VInv, JInv', NEW w \in Procs, proc[w].pc \in PairCleanup, Within(w), Copying(w),
         NEW there \in PairCleanup, Goto(w, there), UNCHANGED <<dest, index, clock, left>>
  PROVE  Unnoticed
<1>1. /\ left'.edits = MaxEdits /\ proc[w].pc \in Locked /\ \A o \in Focus(w) : index[o] = None
  BY CleanupView
<1>2. \A o \in Focus(w) : Settled(o)
  BY <1>1, Bare
<1>3. there \in (Recovering \cup PairCleanup) \ {"d_dropIndex"}
  BY DEF PairCleanup
<1>4. Track(proc[w].pc, there) /\ Place(proc[w].pc, there)
  BY <1>3, RecoveryTrack
<1>5. Passes(w) /\ Quiet(w)' /\ Holds(w)'
  BY <1>1, <1>4, GotoPasses, GotoHolds DEF Track
<1> QED
  BY <1>1, <1>2, <1>5, SettledStep

(* A backup goes. *)
LEMMA CleanupDropUnnoticed ==
  ASSUME VInv, JInv', NEW w \in Procs, proc[w].pc \in PairCleanup, NEW k \in Roles,
         NEW there \in PairCleanup, Goto(w, there),
         backup' = [backup EXCEPT ![Pair(w)][k] = Absent], UNCHANGED <<dest, index, marker, clock, left>>
  PROVE  Unnoticed
<1>1. TypeOK /\ Pair(w) \in Pairs /\ Output(Pair(w), k) \in Focus(w)
  BY CleanupView
<1>2. PICK q \in Pairs : q = Pair(w)
  BY <1>1
<1>3. backup' = [backup EXCEPT ![q][k] = Absent] /\ Output(q, k) \in Focus(w)
  BY <1>1, <1>2
<1>4. Within(w) /\ Copying(w)
  BY <1>1, <1>3, WithinDrop
<1> QED
  BY <1>4, CleanupUnnoticed

(* A marker goes. *)
LEMMA CleanupRemoveUnnoticed ==
  ASSUME VInv, JInv', NEW w \in Procs, NEW here \in PairCleanup, NEW kind \in Kinds,
         NEW there \in PairCleanup, RemoveMarker(w, here, Pair(w), kind, there)
  PROVE  Unnoticed
<1>1. proc[w].pc \in PairCleanup /\ Goto(w, there) /\ UNCHANGED <<dest, backup, index, clock, left>>
  BY DEF RemoveMarker, At
<1>2. TypeOK /\ IInv /\ Pair(w) \in Pairs /\ Focus(w) = OutputsOf(Pair(w))
  BY <1>1, CleanupView
<1>3. PICK q \in Pairs : q = Pair(w)
  BY <1>2
<1>4. \A p \in Pairs \ {q} : marker'[p] = marker[p]
  BY <1>2, <1>3 DEF RemoveMarker, TypeOK
<1>5. OutputsOf(q) \subseteq Focus(w)
  BY <1>2, <1>3
<1>6. Within(w) /\ Copying(w)
  BY <1>1, <1>2, <1>4, <1>5, WithinMarker
<1> QED
  BY <1>1, <1>6, CleanupUnnoticed

(* w chooses how to clear the pair. *)
LEMMA ClassifyUnnoticed ==
  ASSUME VInv, JInv', NEW w \in Procs, Classify(w)
  PROVE  Unnoticed
<1>1. proc[w].pc = "classify" /\ UNCHANGED <<files, clock, left>> /\ left'.edits = MaxEdits
  BY DEF Classify, At, VInv
<1>2. CASE Fail(w, "contradiction") \/ Fail(w, "unsafeMarker")
  BY <1>1, <1>2, FailStep DEF files
<1>3. CASE Goto(w, PairPlan(marker[Pair(w)]))
  <2>1. PICK there : there = PairPlan(marker[Pair(w)])
    OBVIOUS
  <2>2. there \in {"pr_dropS", "pa_check", "pc_dropS", "pu_dropS"}
    BY <2>1 DEF PairPlan, SelectsRollback
  <2>3. Goto(w, there)
    BY <1>3, <2>1
  <2>4. proc[w].pc \in Recovering \cup PairCleanup /\ there \in (Recovering \cup PairCleanup) \ {"d_dropIndex"}
    BY <1>1, <2>2 DEF PairCleanup
  <2>5. Track(proc[w].pc, there) /\ Place(proc[w].pc, there)
    BY <2>4, RecoveryTrack
  <2> QED
    BY <1>1, <2>3, <2>5, GotoStep DEF files
<1> QED
  BY <1>2, <1>3 DEF Classify

(* Clearing it, in each of the three ways. *)
LEMMA ForgetUnnoticed ==
  ASSUME VInv, JInv', NEW w \in Procs, ForgetRolledBack(w) \/ ForgetCommitted(w) \/ SweepUnmarked(w)
  PROVE  Unnoticed
<1>0. left.edits = MaxEdits
  BY DEF VInv
<1>1. /\ {"pr_dropS", "pr_dropR", "pr_rmActive", "pr_rmRollback", "p_leave", "pc_dropS", "pc_dropR",
          "pc_rmActive", "pc_rmCommitted", "pu_dropS", "pu_dropR"} \subseteq PairCleanup
      /\ Roles = {"summary", "report"} /\ Kinds = {"active", "committed", "rollback"}
  BY DEF PairCleanup, Roles, Kinds
<1>2. ASSUME NEW here \in PairCleanup, NEW there \in PairCleanup, NEW k \in Roles,
             DropBackup(w, here, Pair(w), k, there)
      PROVE  Unnoticed
  BY <1>2, CleanupDropUnnoticed DEF DropBackup, At
<1>3. ASSUME NEW here \in PairCleanup, NEW there \in PairCleanup, NEW k \in Roles, NEW prev,
             DropOwnBackup(w, here, Pair(w), k, prev, there)
      PROVE  Unnoticed
  <2>1. CASE Fail(w, "unexpectedBackup") /\ UNCHANGED backup
    BY <1>0, <1>3, <2>1, FailStep DEF DropOwnBackup
  <2>2. CASE backup' = [backup EXCEPT ![Pair(w)][k] = Absent] /\ Goto(w, there)
    BY <1>3, <2>2, CleanupDropUnnoticed DEF DropOwnBackup, At
  <2> QED
    BY <1>3, <2>1, <2>2 DEF DropOwnBackup
<1>4. ASSUME NEW here \in PairCleanup, NEW there \in PairCleanup, NEW k \in Roles,
             DropStaleBackup(w, here, Pair(w), k, "unownedBackup", there)
      PROVE  Unnoticed
  <2>1. CASE Fail(w, "unownedBackup") /\ UNCHANGED backup
    BY <1>0, <1>4, <2>1, FailStep DEF DropStaleBackup
  <2>2. CASE backup' = [backup EXCEPT ![Pair(w)][k] = Absent] /\ Goto(w, there)
    BY <1>4, <2>2, CleanupDropUnnoticed DEF DropStaleBackup, At
  <2> QED
    BY <1>4, <2>1, <2>2 DEF DropStaleBackup
<1>5. CASE ForgetRolledBack(w)
  BY <1>1, <1>2, <1>5, CleanupRemoveUnnoticed DEF ForgetRolledBack
<1>6. CASE ForgetCommitted(w)
  <2>1. PICK S, R : S = marker[Pair(w)]["committed"].prev["summary"]
                    /\ R = marker[Pair(w)]["committed"].prev["report"]
    OBVIOUS
  <2>2. \/ DropOwnBackup(w, "pc_dropS", Pair(w), "summary", S, "pc_dropR")
        \/ DropOwnBackup(w, "pc_dropR", Pair(w), "report", R, "pc_rmActive")
        \/ RemoveMarker(w, "pc_rmActive", Pair(w), "active", "pc_rmCommitted")
        \/ RemoveMarker(w, "pc_rmCommitted", Pair(w), "committed", "p_leave")
    BY <1>6, <2>1 DEF ForgetCommitted
  <2> QED
    BY <1>1, <1>3, <2>2, CleanupRemoveUnnoticed
<1>7. CASE SweepUnmarked(w)
  BY <1>1, <1>4, <1>7 DEF SweepUnmarked
<1> QED
  BY <1>5, <1>6, <1>7

(* Recovery is over: the run waits, or goes on to publish. *)
LEMMA LeaveRecoveryUnnoticed ==
  ASSUME VInv, JInv', NEW w \in Procs, LeaveRecovery(w)
  PROVE  Unnoticed
<1>1. proc[w].pc = "p_leave" /\ UNCHANGED <<files, clock, left>> /\ left'.edits = MaxEdits
  BY DEF LeaveRecovery, At, VInv
<1>2. PICK there : there = IF proc[w].txn = 0 THEN "staged" ELSE "captureS"
  OBVIOUS
<1>3. Goto(w, there) /\ there \in {"staged", "captureS"}
  BY <1>2 DEF LeaveRecovery
<1>4. Place(proc[w].pc, there)
  BY <1>3 DEF Place, SameS, SameR, PutS, PutR, BeforePut, CommitDone, Unwinding
<1>5. there \in Owning => proc[w].txn # 0
  BY <1>2 DEF Owning, Publishing, Unwinding, Deciding
<1>6. proc[w].pc \in Unput \ {"putS"}
  BY <1>1 DEF Unput, PairCleanup
<1>7. Passes(w) /\ Quiet(w)' /\ Holds(w)'
  BY <1>1, <1>3, <1>4, <1>5, <1>6, GotoPasses, GotoHolds DEF files
<1> QED
  BY <1>1, <1>7, QuietStep DEF files

(* The recovery of a pair changes nothing a reader may rely on. *)
LEMMA RecoverPairUnnoticed ==
  ASSUME VInv, JInv', NEW w \in Procs, RecoverPair(w)
  PROVE  Unnoticed
<1>1. ~RestoreMarked(w)
  <2>1. proc[w].pc \notin {"pa_check", "pa_restoreS", "pa_restoreR", "pa_rmActive", "pa_dropS", "pa_dropR"}
    BY DEF VInv, JInv, Knows, Choice
  <2> QED
    BY <2>1 DEF RestoreMarked, At, Restore, RemoveMarker, DropBackup
<1> QED
  BY <1>1, ClassifyUnnoticed, ForgetUnnoticed, LeaveRecoveryUnnoticed DEF RecoverPair

-----------------------------------------------------------------------------
(* A transaction of w's own pair.                                          *)

(* What every step of it starts from. *)
LEMMA OwnAt ==
  ASSUME VInv, NEW w \in Procs, proc[w].pc \in Owning
  PROVE  /\ IInv /\ TypeOK /\ JInv /\ left.edits = MaxEdits /\ proc[w].pc \in Locked
         /\ Pair(w) \in Pairs /\ Focus(w) = OutputsOf(Pair(w)) /\ proc[w].txn # 0
         /\ SummaryOf[Pair(w)] \in Outputs /\ ReportOf[Pair(w)] \in Outputs
         /\ SummaryOf[Pair(w)] # ReportOf[Pair(w)]
         /\ Output(Pair(w), "summary") = SummaryOf[Pair(w)] /\ Output(Pair(w), "report") = ReportOf[Pair(w)]
<1>1. proc[w].pc \in Locked /\ proc[w].pc \notin Recovering
  BY DEF Owning, Locked, Publishing, Unwinding, Deciding, Recovering
<1>2. Pair(w) \in Pairs
  BY <1>1, LockedPair DEF VInv, JInv, IInv
<1>3. proc[w].txn # 0
  BY DEF VInv, Fresh
<1> QED
  BY <1>1, <1>2, <1>3, PairsAssumption DEF VInv, JInv, IInv, Focus, Output

(* Both outputs are settled, and nobody notices. *)
LEMMA OwnStepUnnoticed ==
  ASSUME VInv, JInv', NEW w \in Procs, proc[w].pc \in Owning, Within(w), Copying(w),
         \A k \in Roles : Settled(Output(Pair(w), k)), Passes(w), Holds(w)', Quiet(w)'
  PROVE  Unnoticed
<1>1. proc[w].pc \in Locked /\ proc[w].pc \notin Recovering
  BY DEF Owning, Locked, Publishing, Unwinding, Deciding, Recovering
<1>2. \A o \in Focus(w) : Settled(o)
  BY <1>1, OwnFocus
<1> QED
  BY <1>1, <1>2, SettledStep

(* ... when no output changes and w goes on. *)
LEMMA OwnGotoUnnoticed ==
  ASSUME VInv, JInv', NEW w \in Procs, proc[w].pc \in Owning, Within(w), Copying(w),
         \A k \in Roles : Settled(Output(Pair(w), k)), NEW there, Goto(w, there),
         Track(proc[w].pc, there), Place(proc[w].pc, there), dest' = dest, clock' = clock, left'.edits = MaxEdits
  PROVE  Unnoticed
<1>1. Holds(w)'
  BY GotoHolds
<1>2. Passes(w) /\ Quiet(w)'
  BY GotoPasses DEF Track
<1> QED
  BY <1>1, <1>2, OwnStepUnnoticed

(* While both backups are the outputs, indexes and markers of the pair may *)
(* come and go. *)
Prepared == {"indexS", "sealS", "indexR", "sealR", "mark", "sealMark", "u_restoreS", "u_restoreR"}

(* Each backup is the version captured, and that is still in place. *)
LEMMA PreparedExact ==
  ASSUME VInv, NEW w \in Procs, proc[w].pc \in Prepared \cup {"verify", "r_indexS"}, NEW k \in Roles
  PROVE  /\ proc[w].pc \in Owning
         /\ backup[Pair(w)][k] = proc[w].seen[k] /\ dest[Output(Pair(w), k)] = proc[w].seen[k]
<1>1. proc[w].pc \in Owning
  BY DEF Prepared, Owning, Publishing, Unwinding, Deciding
<1>2. proc[w].pc \in HeldS /\ proc[w].pc \in HeldR
  BY DEF Prepared, HeldS, HeldR, Replacing
<1>3. backup[Pair(w)]["summary"] = proc[w].seen["summary"] /\ backup[Pair(w)]["report"] = proc[w].seen["report"]
  BY <1>2 DEF VInv, JInv, Knows, OwnBackups
<1>4. proc[w].pc \in SameS /\ proc[w].pc \in SameR
  BY DEF Prepared, SameS, SameR, BeforePut, Unwinding
<1>5. dest[SummaryOf[Pair(w)]] = proc[w].seen["summary"] /\ dest[ReportOf[Pair(w)]] = proc[w].seen["report"]
  BY <1>4 DEF VInv, Holds
<1> QED
  BY <1>1, <1>3, <1>5 DEF Output, Roles

(* So nobody notices. *)
LEMMA PreparedUnnoticed ==
  ASSUME VInv, JInv', NEW w \in Procs, proc[w].pc \in Prepared, NEW there, Goto(w, there),
         Track(proc[w].pc, there), Place(proc[w].pc, there), UNCHANGED <<dest, backup, clock>>,
         left'.edits = MaxEdits, \A o \in Outputs \ OutputsOf(Pair(w)) : index'[o] = index[o],
         \A p \in Pairs \ {Pair(w)} : marker'[p] = marker[p],
         \A k \in Roles : LET i == index'[Output(Pair(w), k)] IN
           i # None => i.pair = Pair(w) /\ (i.prev <=> proc[w].seen[k] # Absent)
  PROVE  Unnoticed
<1>1. proc[w].pc \in Owning
  BY DEF Prepared, Owning, Publishing, Unwinding, Deciding
<1>2. IInv /\ Pair(w) \in Pairs /\ Focus(w) = OutputsOf(Pair(w))
  BY <1>1, OwnAt
<1>3. Within(w)
  <2>1. \A o \in Outputs \ Focus(w) : ~Names(o, Pair(w))
    BY <1>2 DEF IInv, IndexOwned, Names
  <2> QED
    BY <1>2, <2>1 DEF Within
<1>4. Copying(w)
  BY DEF Copying, Present
<1>5. ASSUME NEW k \in Roles PROVE Settled(Output(Pair(w), k))
  <2>1. PICK q \in Pairs : q = Pair(w)
    BY <1>2
  <2>2. PICK o \in Outputs : o = Output(q, k)
    BY <1>1, <2>1, OwnView
  <2>3. PartOf(o, q, k) /\ (index[o] # None => (index[o].prev <=> proc[w].seen[k] # Absent)) /\ RoleIn(q, o) = k
    <3>1. RoleIn(q, o) = k
      BY <2>2, PairsAssumption DEF RoleIn, Output, Roles
    <3> QED
      BY <1>1, <2>1, <2>2, <3>1, OwnView
  <2>4. backup[q][k] = dest[o] /\ dest[o] = proc[w].seen[k]
    BY <2>1, <2>2, PreparedExact
  <2>5. Exact(o, q, k)
    BY <2>3, <2>4 DEF Exact
  <2>6. index'[o] # None => index'[o].pair = q /\ (index'[o].prev <=> proc[w].seen[k] # Absent)
    BY <2>1, <2>2
  <2>7. PartOf(o, q, k)'
    BY <2>3, <2>6 DEF PartOf
  <2>8. Exact(o, q, k)'
    BY <2>4, <2>6 DEF Exact
  <2>9. Settled(o)
    BY <2>3, <2>5, <2>7, <2>8, InPreparation
  <2> QED
    BY <2>1, <2>2, <2>9
<1> QED
  BY <1>1, <1>3, <1>4, <1>5, OwnGotoUnnoticed

(* begin_anchored links both backups before any index is there. *)
LEMMA CaptureUnnoticed ==
  ASSUME VInv, JInv', NEW w \in Procs, NEW here, NEW k \in Roles, NEW there,
         \/ here = "captureS" /\ k = "summary" /\ there = "captureR"
         \/ here = "captureR" /\ k = "report" /\ there = "indexS",
         Capture(w, here, k, there)
  PROVE  Unnoticed
<1>1. proc[w].pc = here /\ UNCHANGED <<dest, index, marker, clock, left>>
  BY DEF Capture, At
<1>2. proc[w].pc \in Owning /\ proc[w].pc \in ClearS /\ proc[w].pc \in ClearR
      /\ proc[w].pc \in Unput \ {"putS"}
  BY <1>1 DEF Owning, Publishing, ClearS, ClearR, Unindexed, Unput, BeforePut
<1>3. /\ IInv /\ TypeOK /\ JInv /\ left.edits = MaxEdits /\ Pair(w) \in Pairs /\ Focus(w) = OutputsOf(Pair(w))
      /\ proc[w].txn # 0
  BY <1>2, OwnAt
<1>4. PICK q \in Pairs : q = Pair(w)
  BY <1>3
<1>5. PICK o \in Outputs : o = Output(q, k) /\ o \in Focus(w)
  BY <1>2, <1>4, OwnView
<1>6. dest[o] \in Present(w)
  BY DEF Present
<1>7. backup' = [backup EXCEPT ![q][k] = dest[o]] /\ Output(q, k) \in Focus(w)
  BY <1>4, <1>5 DEF Capture
<1>8. Within(w) /\ Copying(w)
  BY <1>1, <1>3, <1>6, <1>7, WithinBackup
<1>9. index[SummaryOf[q]] = None /\ index[ReportOf[q]] = None
  BY <1>2, <1>3, <1>4 DEF JInv, Knows, OwnIndexes
<1>10. ASSUME NEW j \in Roles PROVE Settled(Output(Pair(w), j))
  <2>1. PICK x : x = Output(q, j) /\ index[x] = None
    BY <1>9 DEF Output
  <2>2. Settled(x)
    BY <1>1, <2>1, Bare
  <2> QED
    BY <1>4, <2>1, <2>2
<1>11. PICK s : s = [proc[w] EXCEPT !.pc = there, !.seen = [@ EXCEPT ![k] = dest[o]]]
  OBVIOUS
<1>12. proc[w] \in ProcState /\ proc \in [Procs -> ProcState] /\ Quiet(w) /\ Holds(w)
  BY <1>3 DEF TypeOK, VInv
<1>13. /\ s.pc = there /\ s.txn = proc[w].txn /\ s.pair = proc[w].pair
       /\ s.seen = [proc[w].seen EXCEPT ![k] = dest[o]]
       /\ s.aborting = proc[w].aborting /\ s.why = proc[w].why
  BY <1>11, <1>12 DEF ProcState
<1>14. proc' = [proc EXCEPT ![w] = s]
  BY <1>4, <1>5, <1>11, <1>12 DEF Capture, ProcState
<1>15. proc'[w] = s /\ \A v \in Procs \ {w} : proc'[v] = proc[v]
  BY <1>12, <1>14
<1>16. \A j \in Roles : s.seen[j] = IF j = k THEN dest[o] ELSE proc[w].seen[j]
  BY <1>12, <1>13 DEF ProcState
<1>17. Passes(w) /\ Quiet(w)'
  BY <1>1, <1>2, <1>3, <1>12, <1>13, <1>15, <1>16 DEF Passes, Proceeds, Quiet
<1>18. Holds(w)'
  <2>1. there \notin PutS \cup PutR \cup {"d_dropIndex"} /\ (there \in SameR => k = "report")
    BY DEF PutS, PutR, CommitDone, SameR, BeforePut, Unwinding
  <2>2. k = "report" => proc[w].pc \in SameS
    BY <1>1 DEF SameS, BeforePut
  <2>3. dest'[SummaryOf[q]] = s.seen["summary"]
    BY <1>1, <1>4, <1>5, <1>12, <1>16, <2>2 DEF Holds, Output, Roles
  <2>4. there \in SameR => dest'[ReportOf[q]] = s.seen["report"]
    BY <1>1, <1>5, <1>16, <2>1 DEF Output, Roles
  <2>5. Pair(w)' = q
    BY <1>4, <1>13, <1>15 DEF Pair
  <2> QED
    BY <1>13, <1>15, <2>1, <2>3, <2>4, <2>5 DEF Holds
<1> QED
  BY <1>2, <1>8, <1>10, <1>17, <1>18, OwnStepUnnoticed

(* The indexes of both outputs, before and after a step in preparation. *)
LEMMA PreparedIndexes ==
  ASSUME VInv, NEW w \in Procs, proc[w].pc \in Prepared
  PROVE  /\ proc[w].pc \in Owning /\ IInv /\ TypeOK /\ left.edits = MaxEdits /\ Pair(w) \in Pairs
         /\ \A k \in Roles : LET i == index[Output(Pair(w), k)] IN
              i # None => i.pair = Pair(w) /\ (i.prev <=> proc[w].seen[k] # Absent)
<1>1. proc[w].pc \in Owning
  BY DEF Prepared, Owning, Publishing, Unwinding, Deciding
<1> QED
  BY <1>1, OwnAt, OwnView DEF PartOf

(* Preparation leads on to preparation. *)
LEMMA PreparedTrack ==
  ASSUME NEW here, NEW there,
         \/ here = "indexS" /\ there = "sealS"
         \/ here = "sealS" /\ there = "indexR"
         \/ here = "indexR" /\ there = "sealR"
         \/ here = "sealR" /\ there = "mark"
         \/ here = "mark" /\ there = "sealMark"
         \/ here = "sealMark" /\ there = "verify"
         \/ here = "u_restoreS" /\ there = "u_restoreR"
         \/ here = "u_restoreR" /\ there = "u_dropS"
         \/ here \in Prepared \ {"u_restoreS", "u_restoreR"} /\ there = "u_restoreS"
  PROVE  here \in Prepared /\ Track(here, there) /\ Place(here, there)
<1>1. here \in Prepared
  BY DEF Prepared
<1>2. here \in Owning
  BY <1>1 DEF Prepared, Owning, Publishing, Unwinding, Deciding
<1>3. there \in Unput => here \in Unput \ {"putS"}
  BY DEF Unput, BeforePut, Recovering, PairCleanup
<1>4. here \in SameS /\ here \in SameR
  BY <1>1 DEF Prepared, SameS, SameR, BeforePut, Unwinding
<1>5. there \notin PutS \cup PutR \cup {"d_dropIndex"}
  BY DEF PutS, PutR, CommitDone
<1> QED
  BY <1>1, <1>2, <1>3, <1>4, <1>5 DEF Track, Place

(* An index appears. *)
LEMMA PublishIndexUnnoticed ==
  ASSUME VInv, JInv', NEW w \in Procs, NEW here, NEW k \in Roles, NEW there,
         \/ here = "indexS" /\ there = "sealS"
         \/ here = "indexR" /\ there = "sealR",
         PublishIndex(w, here, k, there)
  PROVE  Unnoticed
<1>1. proc[w].pc = here /\ UNCHANGED <<dest, backup, marker, clock, left>> /\ Goto(w, there)
  BY DEF PublishIndex, At
<1>2. proc[w].pc \in Prepared /\ Track(proc[w].pc, there) /\ Place(proc[w].pc, there)
  BY <1>1, PreparedTrack
<1>3. /\ TypeOK /\ left.edits = MaxEdits /\ Pair(w) \in Pairs
      /\ \A j \in Roles : LET i == index[Output(Pair(w), j)] IN
           i # None => i.pair = Pair(w) /\ (i.prev <=> proc[w].seen[j] # Absent)
  BY <1>2, PreparedIndexes
<1>4. \A o \in Outputs : index'[o] =
        IF o = Output(Pair(w), k) THEN [pair |-> Pair(w), prev |-> Previous(w)[k], temp |-> TRUE] ELSE index[o]
  BY <1>3 DEF PublishIndex, TypeOK
<1>5. Previous(w)[k] <=> proc[w].seen[k] # Absent
  BY DEF Previous
<1>6. \A j \in Roles : Output(Pair(w), j) \in Outputs /\ (Output(Pair(w), j) = Output(Pair(w), k) => j = k)
  BY <1>3, PairsAssumption DEF Output, Roles
<1>7. ASSUME NEW j \in Roles
      PROVE  LET i == index'[Output(Pair(w), j)] IN
               i # None => i.pair = Pair(w) /\ (i.prev <=> proc[w].seen[j] # Absent)
  BY <1>3, <1>4, <1>5, <1>6
<1>8. \A o \in Outputs \ OutputsOf(Pair(w)) : index'[o] = index[o]
  BY <1>4 DEF OutputsOf, Output
<1> QED
  BY <1>1, <1>2, <1>3, <1>7, <1>8, PreparedUnnoticed

(* Its temporary name goes. *)
LEMMA SealIndexUnnoticed ==
  ASSUME VInv, JInv', NEW w \in Procs, NEW here, NEW k \in Roles, NEW there,
         \/ here = "sealS" /\ k = "summary" /\ there = "indexR"
         \/ here = "sealR" /\ k = "report" /\ there = "mark",
         SealIndex(w, here, k, there)
  PROVE  Unnoticed
<1>1. proc[w].pc = here /\ UNCHANGED <<dest, backup, marker, clock, left>> /\ Goto(w, there)
  BY DEF SealIndex, At
<1>2. proc[w].pc \in Prepared /\ Track(proc[w].pc, there) /\ Place(proc[w].pc, there)
  BY <1>1, PreparedTrack
<1>3. /\ TypeOK /\ left.edits = MaxEdits /\ Pair(w) \in Pairs /\ proc[w].pc \in Owning
      /\ \A j \in Roles : LET i == index[Output(Pair(w), j)] IN
           i # None => i.pair = Pair(w) /\ (i.prev <=> proc[w].seen[j] # Absent)
  BY <1>2, PreparedIndexes
<1>4. PICK o \in Outputs : o = Output(Pair(w), k)
  BY <1>3, OwnAt DEF Output
<1>5. index[o] # None
  <2>1. k = "summary" => proc[w].pc \in NamedS
    BY <1>1 DEF NamedS
  <2>2. k = "report" => proc[w].pc \in NamedR
    BY <1>1 DEF NamedR
  <2> QED
    BY <1>4, <2>1, <2>2 DEF VInv, JInv, Knows, OwnIndexes, Output, Roles
<1>6. index' = [index EXCEPT ![o] = [index[o] EXCEPT !.temp = FALSE]]
  BY <1>4 DEF SealIndex
<1>7. \A x \in Outputs : index'[x] = IF x = o THEN [index[o] EXCEPT !.temp = FALSE] ELSE index[x]
  BY <1>3, <1>6 DEF TypeOK
<1>8. index[o] \in Index /\ index'[o].pair = index[o].pair /\ (index'[o].prev <=> index[o].prev)
  BY <1>3, <1>5, <1>7 DEF TypeOK, Index
<1>9. ASSUME NEW j \in Roles
      PROVE  LET i == index'[Output(Pair(w), j)] IN
               i # None => i.pair = Pair(w) /\ (i.prev <=> proc[w].seen[j] # Absent)
  <2>1. Output(Pair(w), j) \in Outputs
    BY <1>3, PairsAssumption DEF Output
  <2> QED
    BY <1>3, <1>4, <1>5, <1>7, <1>8, <2>1
<1>10. \A x \in Outputs \ OutputsOf(Pair(w)) : index'[x] = index[x]
  BY <1>4, <1>7 DEF OutputsOf, Output
<1> QED
  BY <1>1, <1>2, <1>3, <1>9, <1>10, PreparedUnnoticed

(* Marking the pair, or giving its marker up. *)
LEMMA MarkUnnoticed ==
  ASSUME VInv, JInv', NEW w \in Procs, NEW here \in {"mark", "sealMark"}, NEW there, At(w, here),
         \/ here = "mark" /\ there = "sealMark"
         \/ here = "sealMark" /\ there = "verify"
         \/ there = "u_restoreS",
         Goto(w, there), UNCHANGED <<dest, backup, index, clock>>, left'.edits = MaxEdits,
         \A p \in Pairs \ {Pair(w)} : marker'[p] = marker[p]
  PROVE  Unnoticed
<1>1. proc[w].pc = here
  BY DEF At
<1>2. proc[w].pc \in Prepared /\ Track(proc[w].pc, there) /\ Place(proc[w].pc, there)
  <2>1. here \in Prepared \ {"u_restoreS", "u_restoreR"}
    BY DEF Prepared
  <2> QED
    BY <1>1, <2>1, PreparedTrack
<1>3. \A j \in Roles : LET i == index[Output(Pair(w), j)] IN
        i # None => i.pair = Pair(w) /\ (i.prev <=> proc[w].seen[j] # Absent)
  BY <1>2, PreparedIndexes
<1> QED
  BY <1>2, <1>3, PreparedUnnoticed

(* begin_anchored changes nothing a reader may rely on. *)
LEMMA BeginUnnoticed ==
  ASSUME VInv, JInv', NEW w \in Procs, Begin(w)
  PROVE  Unnoticed
<1>1. "summary" \in Roles /\ "report" \in Roles
  BY DEF Roles
<1>2. CASE PublishMarker(w)
  <2>1. /\ At(w, "mark") /\ Goto(w, "sealMark") /\ UNCHANGED <<dest, backup, index, clock, left>>
    BY <1>2 DEF PublishMarker
  <2>2. left'.edits = MaxEdits /\ TypeOK
    BY <2>1 DEF VInv, JInv, IInv
  <2>3. \A p \in Pairs \ {Pair(w)} : marker'[p] = marker[p]
    BY <1>2, <2>2 DEF PublishMarker, TypeOK
  <2> QED
    BY <2>1, <2>2, <2>3, MarkUnnoticed
<1>3. CASE SealMarker(w)
  <2>1. /\ At(w, "sealMark") /\ Goto(w, "verify") /\ UNCHANGED <<dest, backup, index, clock, left>>
    BY <1>3 DEF SealMarker
  <2>2. left'.edits = MaxEdits /\ TypeOK
    BY <2>1 DEF VInv, JInv, IInv
  <2>3. \A p \in Pairs \ {Pair(w)} : marker'[p] = marker[p]
    BY <1>3, <2>2 DEF SealMarker, TypeOK
  <2> QED
    BY <2>1, <2>2, <2>3, MarkUnnoticed
<1> QED
  BY <1>1, <1>2, <1>3, CaptureUnnoticed, PublishIndexUnnoticed, SealIndexUnnoticed DEF Begin

(* A fault that is allowed for uses up no edit. *)
LEMMA MishapIs ==
  ASSUME VInv, NEW kind \in {"faults", "crashes"}, Mishap(kind)
  PROVE  left'.edits = MaxEdits
BY DEF VInv, JInv, IInv, TypeOK, Mishap

(* Where no edit is possible, nobody edits. *)
LEMMA NoEdits == ASSUME VInv, MaxEdits = 0 PROVE ~Edited
<1>1. ~Mishap("edits")
  BY DEF VInv, Mishap
<1> QED
  BY <1>1 DEF Edited, Edit, FailVerify

(* A backup cannot be linked. *)
LEMMA FailCaptureUnnoticed ==
  ASSUME VInv, JInv', NEW w \in Procs, FailCapture(w)
  PROVE  Unnoticed
<1>1. left'.edits = MaxEdits /\ UNCHANGED <<dest, backup, index, marker, clock>>
  BY MishapIs DEF FailCapture, files
<1>2. CASE Fail(w, "notBegun")
  BY <1>1, <1>2, FailStep
<1>3. CASE At(w, "captureR") /\ Goto(w, "u1_restore")
  <2>1. Track(proc[w].pc, "u1_restore") /\ Place(proc[w].pc, "u1_restore")
    BY <1>3 DEF At, Track, Place, Owning, Publishing, Unput, BeforePut, Recovering, PairCleanup, SameS,
                SameR, PutS, PutR, CommitDone, Unwinding
  <2> QED
    BY <1>1, <1>3, <2>1, GotoStep
<1> QED
  BY <1>2, <1>3 DEF FailCapture

(* An index cannot be written. *)
LEMMA FailIndexUnnoticed ==
  ASSUME VInv, JInv', NEW w \in Procs, FailIndex(w)
  PROVE  Unnoticed
<1>1. \E here \in {"indexS", "sealS", "indexR", "sealR"}, dropped \in SUBSET OutputsOf(Pair(w)) :
        FailIndexAt(w, here, dropped)
  BY DEF FailIndex, OutputsOf
<1>2. PICK here \in {"indexS", "sealS", "indexR", "sealR"} :
        \E dropped \in SUBSET OutputsOf(Pair(w)) : FailIndexAt(w, here, dropped)
  BY <1>1
<1>3. PICK dropped \in SUBSET OutputsOf(Pair(w)) : FailIndexAt(w, here, dropped)
  BY <1>2
<1>4. /\ proc[w].pc = here /\ Goto(w, "u_restoreS") /\ UNCHANGED <<dest, backup, marker, clock>>
      /\ left'.edits = MaxEdits
      /\ \A o \in Outputs : index'[o] = IF o \in dropped THEN None ELSE index[o]
  BY <1>3, MishapIs DEF FailIndexAt, At
<1>5. proc[w].pc \in Prepared /\ Track(proc[w].pc, "u_restoreS") /\ Place(proc[w].pc, "u_restoreS")
  <2>1. here \in Prepared \ {"u_restoreS", "u_restoreR"}
    BY DEF Prepared
  <2> QED
    BY <1>4, <2>1, PreparedTrack
<1>6. /\ Pair(w) \in Pairs
      /\ \A j \in Roles : LET i == index[Output(Pair(w), j)] IN
           i # None => i.pair = Pair(w) /\ (i.prev <=> proc[w].seen[j] # Absent)
  BY <1>5, PreparedIndexes
<1>7. \A j \in Roles : Output(Pair(w), j) \in Outputs
  BY <1>6, PairsAssumption DEF Output
<1>8. \A j \in Roles : LET i == index'[Output(Pair(w), j)] IN
        i # None => i.pair = Pair(w) /\ (i.prev <=> proc[w].seen[j] # Absent)
  BY <1>4, <1>6, <1>7
<1>9. \A o \in Outputs \ OutputsOf(Pair(w)) : index'[o] = index[o]
  BY <1>4
<1> QED
  BY <1>4, <1>5, <1>8, <1>9, PreparedUnnoticed

(* The marker cannot be written. *)
LEMMA FailMarkerUnnoticed ==
  ASSUME VInv, JInv', OneFaultAtATime, NEW w \in Procs, FailMarker(w)
  PROVE  Unnoticed
<1>1. TypeOK /\ left.faults \in Nat
  BY DEF VInv, JInv, IInv, TypeOK
<1>2. PICK here \in {"mark", "sealMark"} : At(w, here)
  BY DEF FailMarker
<1>3. left'.edits = MaxEdits /\ \A p \in Pairs \ {Pair(w)} : marker'[p] = marker[p]
  <2>1. ~(left.faults > 1 /\ left' = [left EXCEPT !.faults = @ - 2])
    BY <1>1 DEF OneFaultAtATime, TypeOK
  <2> QED
    BY <1>1, <2>1, MishapIs DEF FailMarker, TypeOK
<1>4. Goto(w, "u_restoreS") /\ UNCHANGED <<dest, backup, index, clock>>
  BY DEF FailMarker
<1> QED
  BY <1>2, <1>3, <1>4, MarkUnnoticed

(* An output cannot be replaced: the run rolls back. *)
LEMMA FailReplaceUnnoticed ==
  ASSUME VInv, JInv', NEW w \in Procs, FailReplace(w)
  PROVE  Unnoticed
<1>1. left'.edits = MaxEdits /\ UNCHANGED <<dest, backup, index, marker, clock>> /\ Goto(w, "r_link")
  BY MishapIs DEF FailReplace, files
<1>2. Track(proc[w].pc, "r_link") /\ Place(proc[w].pc, "r_link")
  BY DEF FailReplace, Track, Place, Owning, Publishing, Unput, BeforePut, Recovering, PairCleanup, SameS,
         SameR, PutS, PutR, CommitDone, Unwinding
<1> QED
  BY <1>1, <1>2, GotoStep

(* An output that was not edited is unchanged, and can be inspected. *)
LEMMA VerifyUnnoticed ==
  ASSUME VInv, JInv', NEW w \in Procs, NEW here, NEW roles, NEW there,
         \/ here = "verify" /\ roles = Roles /\ there = "putS"
         \/ here = "verifyR" /\ roles = {"report"} /\ there = "putR",
         Verify(w, here, roles, there)
  PROVE  Unnoticed
<1>1. proc[w].pc = here /\ UNCHANGED <<dest, backup, index, marker, clock>> /\ left'.edits = MaxEdits
  BY DEF Verify, At, files, VInv
<1>2. Holds(w) /\ proc[w].pc \in SameR /\ (here = "verify" => proc[w].pc \in SameS)
  BY <1>1 DEF VInv, SameS, SameR, BeforePut
<1>3. \A k \in roles : Unchanged(w, k)
  BY <1>2 DEF Holds, Unchanged, Output, Roles
<1>4. Goto(w, there)
  BY <1>3 DEF Verify
<1>5. Track(proc[w].pc, there) /\ Place(proc[w].pc, there)
  BY <1>1 DEF Track, Place, Owning, Publishing, Unput, BeforePut, Recovering, PairCleanup, SameS,
              SameR, PutS, PutR, CommitDone, Unwinding
<1> QED
  BY <1>1, <1>4, <1>5, GotoStep

-----------------------------------------------------------------------------
(* Changes of the sidecars of w's own pair.                                *)

(* An output of w's pair in which nothing changes that it depends on. *)
LEMMA OwnUnmoved ==
  ASSUME VInv, NEW w \in Procs, proc[w].pc \in Owning, NEW k \in Roles,
         dest' = dest, index'[Output(Pair(w), k)] = index[Output(Pair(w), k)],
         backup'[Pair(w)][k] = backup[Pair(w)][k],
         marker'[Pair(w)] = marker[Pair(w)] \/ Decided(Pair(w))
  PROVE  Settled(Output(Pair(w), k))
<1>1. PICK q \in Pairs : q = Pair(w)
  BY OwnAt
<1>2. PICK o \in Outputs : o = Output(q, k)
  BY <1>1, OwnView
<1>3. PartOf(o, q, k) /\ Whole(o) /\ Shown(o)
  BY <1>1, <1>2, OwnView DEF VInv
<1>4. SameBeside(o) /\ dest'[o] = dest[o] /\ backup'[q][k] = backup[q][k]
  BY <1>1, <1>2 DEF SameBeside
<1>5. marker'[q] = marker[q] \/ Decided(q)
  BY <1>1
<1>6. Settled(o)
  BY <1>3, <1>4, <1>5, Unmoved
<1> QED
  BY <1>1, <1>2, <1>6

(* A backup of w's pair goes: the indexes are gone, or do not ask for it. *)
LEMMA OwnDropUnnoticed ==
  ASSUME VInv, JInv', NEW w \in Procs, proc[w].pc \in Owning, NEW k \in Roles,
         backup' = [backup EXCEPT ![Pair(w)][k] = Absent], UNCHANGED <<dest, index, marker>>,
         ~Chooses(Pair(w)) \/ index[Output(Pair(w), k)] = None,
         Passes(w), Holds(w)', Quiet(w)'
  PROVE  Unnoticed
<1>1. PICK q \in Pairs : q = Pair(w)
  BY OwnAt
<1>2. PICK o \in Outputs : o = Output(q, k) /\ o \in Focus(w)
  BY <1>1, OwnView
<1>3. TypeOK /\ backup' = [backup EXCEPT ![q][k] = Absent] /\ Output(q, k) \in Focus(w)
  BY <1>1, <1>2, OwnAt
<1>4. /\ Within(w) /\ Copying(w) /\ backup'[q][k] = Absent
      /\ \A j \in Roles : j # k => backup'[q][j] = backup[q][j]
  <2>1. UNCHANGED <<dest, index, marker>>
    OBVIOUS
  <2>2. Within(w) /\ Copying(w) /\ backup'[q][k] = Absent
    BY <1>3, <2>1, WithinDrop
  <2>3. \A j \in Roles : j # k => backup'[q][j] = backup[q][j]
    BY <1>3 DEF TypeOK
  <2> QED
    BY <2>2, <2>3
<1>5. SameBeside(o) /\ dest'[o] = dest[o] /\ marker'[q] = marker[q] /\ index'[o] = index[o]
  BY DEF SameBeside
<1>6. Settled(o)
  <2>1. CASE ~Chooses(q)
    <3>1. PartOf(o, q, k) /\ Whole(o)
      BY <1>1, <1>2, OwnView DEF VInv
    <3> QED
      BY <1>4, <1>5, <2>1, <3>1, Released
  <2>2. CASE index[o] = None
    BY <1>5, <2>2, Bare
  <2> QED
    BY <1>1, <1>2, <2>1, <2>2
<1>7. \A j \in Roles : Settled(Output(Pair(w), j))
  BY <1>1, <1>2, <1>4, <1>6, OwnUnmoved
<1> QED
  BY <1>4, <1>7, OwnStepUnnoticed

(* An index of w's pair goes: its output is what a reader relies on. *)
LEMMA OwnForgetUnnoticed ==
  ASSUME VInv, JInv', NEW w \in Procs, proc[w].pc \in Owning, NEW k \in Roles,
         index' = [index EXCEPT ![Output(Pair(w), k)] = None], UNCHANGED <<dest, backup, marker>>,
         Logical(Output(Pair(w), k)) = dest[Output(Pair(w), k)],
         Passes(w), Holds(w)', Quiet(w)'
  PROVE  Unnoticed
<1>1. PICK q \in Pairs : q = Pair(w)
  BY OwnAt
<1>2. PICK o \in Outputs : o = Output(q, k) /\ o \in Focus(w)
  BY <1>1, OwnView
<1>3. \A x \in Outputs : index'[x] = IF x = o THEN None ELSE index[x]
  BY <1>1, <1>2, OwnAt DEF TypeOK
<1>4. Within(w) /\ Copying(w)
  BY <1>2, <1>3, WithinIndex
<1>5. Settled(o)
  BY <1>1, <1>2, <1>3, Forgotten
<1>6. ASSUME NEW j \in Roles PROVE Settled(Output(Pair(w), j))
  <2>1. CASE j = k
    BY <1>1, <1>2, <1>5, <2>1
  <2>2. CASE j # k
    <3>1. Output(Pair(w), j) \in Outputs /\ Output(Pair(w), j) # o
      BY <1>1, <1>2, <2>2, PairsAssumption DEF Output, Roles
    <3>2. index'[Output(Pair(w), j)] = index[Output(Pair(w), j)]
      BY <1>3, <3>1
    <3> QED
      BY <3>2, OwnUnmoved
  <2> QED
    BY <2>1, <2>2
<1> QED
  BY <1>4, <1>6, OwnStepUnnoticed

(* The markers of w's pair say again what was decided, or no index is left. *)
LEMMA OwnMarkerUnnoticed ==
  ASSUME VInv, JInv', NEW w \in Procs, proc[w].pc \in Owning,
         \A p \in Pairs \ {Pair(w)} : marker'[p] = marker[p], UNCHANGED <<dest, backup, index>>,
         Decided(Pair(w)) \/ \A k \in Roles : index[Output(Pair(w), k)] = None,
         Passes(w), Holds(w)', Quiet(w)'
  PROVE  Unnoticed
<1>1. IInv /\ Focus(w) = OutputsOf(Pair(w)) /\ Pair(w) \in Pairs
  BY OwnAt
<1>2. PICK q \in Pairs : q = Pair(w)
  BY <1>1
<1>3. OutputsOf(q) \subseteq Focus(w) /\ \A p \in Pairs \ {q} : marker'[p] = marker[p]
  BY <1>1, <1>2
<1>4. Within(w) /\ Copying(w)
  BY <1>1, <1>3, WithinMarker
<1>5. ASSUME NEW k \in Roles PROVE Settled(Output(Pair(w), k))
  <2>1. CASE Decided(Pair(w))
    BY <2>1, OwnUnmoved
  <2>2. CASE index[Output(Pair(w), k)] = None
    <3>1. PICK o : o = Output(q, k)
      OBVIOUS
    <3>2. Settled(o)
      BY <1>2, <2>2, <3>1, Bare
    <3> QED
      BY <1>2, <3>1, <3>2
  <2> QED
    BY <2>1, <2>2
<1> QED
  BY <1>4, <1>5, OwnStepUnnoticed

(* An output of w's pair changes while its backup counts. *)
LEMMA OwnReplaceUnnoticed ==
  ASSUME VInv, JInv', NEW w \in Procs, proc[w].pc \in Owning, NEW k \in Roles, NEW v \in Present(w),
         dest' = [dest EXCEPT ![Output(Pair(w), k)] = v], UNCHANGED <<backup, index, marker>>,
         Chooses(Pair(w)), index[Output(Pair(w), k)] # None,
         proc[w].seen[k] # Absent => v # Absent,
         Passes(w), Holds(w)', Quiet(w)'
  PROVE  Unnoticed
<1>1. PICK q \in Pairs : q = Pair(w)
  BY OwnAt
<1>2. PICK o \in Outputs : o = Output(q, k) /\ o \in Focus(w)
  BY <1>1, OwnView
<1>3. TypeOK
  BY OwnAt
<1>4. dest' = [dest EXCEPT ![o] = v]
  BY <1>1, <1>2
<1>5. Within(w) /\ Copying(w) /\ dest'[o] = v /\ \A x \in Outputs \ {o} : dest'[x] = dest[x]
  BY <1>2, <1>3, <1>4, WithinDest
<1>6. /\ PartOf(o, q, k) /\ index[o] # None
      /\ index[o].prev => dest'[o] # Absent
  BY <1>1, <1>2, <1>5, OwnView
<1>7. SameBeside(o) /\ backup'[q][k] = backup[q][k] /\ marker'[q] = marker[q]
  BY DEF SameBeside
<1>8. Settled(o)
  BY <1>1, <1>6, <1>7, Replaced
<1>9. ASSUME NEW j \in Roles PROVE Settled(Output(Pair(w), j))
  <2>1. CASE j = k
    BY <1>1, <1>2, <1>8, <2>1
  <2>2. CASE j # k
    <3>1. PICK x \in Outputs : x = Output(q, j)
      BY <1>1, OwnView
    <3>2. dest'[x] = dest[x]
      BY <1>2, <1>5, <2>2, <3>1, PairsAssumption DEF Output, Roles
    <3>3. PartOf(x, q, j) /\ Whole(x) /\ Shown(x)
      BY <1>1, <3>1, OwnView DEF VInv
    <3>4. SameBeside(x) /\ backup'[q][j] = backup[q][j]
      BY DEF SameBeside
    <3>5. Settled(x)
      BY <1>7, <3>2, <3>3, <3>4, Unmoved
    <3> QED
      BY <1>1, <3>1, <3>5
  <2> QED
    BY <2>1, <2>2
<1> QED
  BY <1>5, <1>9, OwnStepUnnoticed

(* Where w goes on, or stops, in a transaction of its own pair. *)
LEMMA OwnGoes ==
  ASSUME VInv, NEW w \in Procs, proc[w].pc \in Owning, NEW there, Goto(w, there),
         Track(proc[w].pc, there), Place(proc[w].pc, there), UNCHANGED <<dest, clock, left>>
  PROVE  Passes(w) /\ Holds(w)' /\ Quiet(w)'
<1>1. left'.edits = MaxEdits
  BY DEF VInv
<1> QED
  BY <1>1, GotoPasses, GotoHolds DEF Track

(* From a step to the next, after the versions are settled. *)
LEMMA OwnTrack ==
  ASSUME NEW here, NEW there,
         \/ here = "u1_restore" /\ there = "u1_drop"
         \/ here = "u_dropS" /\ there = "u_dropR"
         \/ here = "u_dropR" /\ there = "u_indexS"
         \/ here = "u_indexS" /\ there = "u_indexR"
         \/ here = "settle" /\ there = "c_link"
         \/ here = "c_link" /\ there = "c_retire"
         \/ here = "c_retire" /\ there = "c_dropS"
         \/ here = "c_dropS" /\ there = "c_dropR"
         \/ here = "c_dropR" /\ there = "c_indexS"
         \/ here = "c_indexS" /\ there = "c_indexR"
         \/ here = "c_indexR" /\ there = "c_rm"
         \/ here = "c_rm" /\ there = "c_done"
         \/ here = "r_link" /\ there = "r_retire"
         \/ here = "r_retire" /\ there = "r_restoreS"
         \/ here = "r_indexS" /\ there = "r_indexR"
         \/ here = "r_indexR" /\ there = "r_dropS"
         \/ here = "r_dropS" /\ there = "r_dropR"
         \/ here = "r_dropR" /\ there = "r_rm"
  PROVE  here \in Owning /\ Track(here, there) /\ Place(here, there)
<1>1. here \in Owning
  BY DEF Owning, Publishing, Unwinding, Deciding
<1>2. there \notin Unput /\ there # "d_dropIndex"
  BY DEF Unput, BeforePut, Recovering, PairCleanup
<1>3. (there \in SameS => here \in SameS) /\ (there \in SameR => here \in SameR)
  BY DEF SameS, SameR, BeforePut, Unwinding
<1>4. (there \in PutS => here \in PutS) /\ (there \in PutR => here \in PutR)
  BY DEF PutS, PutR, CommitDone
<1> QED
  BY <1>1, <1>2, <1>3, <1>4 DEF Track, Place

(* An output restored from the version it holds stays as it is. *)
LEMMA RestoreSame ==
  ASSUME VInv, JInv', NEW w \in Procs, NEW here, NEW k \in Roles, NEW there,
         \/ here = "u1_restore" /\ k = "summary" /\ there = "u1_drop"
         \/ here = "u_restoreS" /\ k = "summary" /\ there = "u_restoreR"
         \/ here = "u_restoreR" /\ k = "report" /\ there = "u_dropS",
         Restore(w, here, Pair(w), k, Previous(w)[k], there)
  PROVE  Unnoticed
<1>1. proc[w].pc = here /\ UNCHANGED <<backup, index, marker, clock, left>>
  BY DEF Restore, At
<1>2. Holds(w) /\ OwnBackups(w) /\ left.edits = MaxEdits
  BY DEF VInv, JInv, Knows
<1>3. proc[w].pc \in HeldS /\ proc[w].pc \in SameS /\ proc[w].pc \in Owning
  BY <1>1 DEF HeldS, SameS, Unwinding, Owning
<1>4. k = "report" => proc[w].pc \in HeldR /\ proc[w].pc \in SameR
  BY <1>1 DEF HeldR, HeldS, SameR, Unwinding
<1>5. backup[Pair(w)][k] = dest[Output(Pair(w), k)]
  BY <1>2, <1>3, <1>4 DEF Holds, OwnBackups, Output, Roles
<1>6. CASE (Fail(w, "missingBackup") \/ Fail(w, "unexpectedBackup")) /\ UNCHANGED dest
  BY <1>1, <1>2, <1>6, FailStep
<1>7. CASE dest' = [dest EXCEPT ![Output(Pair(w), k)] = backup[Pair(w)][k]] /\ Goto(w, there)
  <2>1. dest' = dest
    BY <1>3, <1>5, <1>7, OwnAt DEF TypeOK
  <2>2. Track(proc[w].pc, there) /\ Place(proc[w].pc, there)
    BY <1>1, OwnTrack, PreparedTrack
  <2> QED
    BY <1>1, <1>2, <1>7, <2>1, <2>2, GotoStep
<1> QED
  BY <1>6, <1>7 DEF Restore

(* with_rollback changes nothing a reader may rely on. *)
LEMMA UnwindUnnoticed ==
  ASSUME VInv, JInv', NEW w \in Procs, Unwind(w)
  PROVE  Unnoticed
<1>1. left.edits = MaxEdits /\ "summary" \in Roles /\ "report" \in Roles
  BY DEF VInv, Roles
<1>2. proc[w].pc \in Unwinding => proc[w].pc \in Owning
  BY DEF Owning
<1>3. proc[w].pc \in Unwinding =>
        ~Chooses(Pair(w)) /\ \A k \in Roles : Logical(Output(Pair(w), k)) = dest[Output(Pair(w), k)]
  <2>1. proc[w].pc \in Unwinding => ~Chooses(Pair(w))
    BY DEF VInv, JInv, Knows, Choice, Inactive, NotReverted, Chooses, SelectsRollback
  <2>2. ASSUME proc[w].pc \in Unwinding, NEW k \in Roles
        PROVE  Logical(Output(Pair(w), k)) = dest[Output(Pair(w), k)]
    BY <1>2, <2>1, <2>2, OwnView DEF PartOf, Logical, Chooses
  <2> QED
    BY <2>1, <2>2
<1>4. CASE \/ Restore(w, "u1_restore", Pair(w), "summary", Previous(w)["summary"], "u1_drop")
           \/ Restore(w, "u_restoreS", Pair(w), "summary", Previous(w)["summary"], "u_restoreR")
           \/ Restore(w, "u_restoreR", Pair(w), "report", Previous(w)["report"], "u_dropS")
  BY <1>1, <1>4, RestoreSame
<1>5. CASE /\ At(w, "u1_drop") /\ Fail(w, "notBegun")
           /\ backup' = [backup EXCEPT ![Pair(w)]["summary"] = Absent]
           /\ UNCHANGED <<dest, index, marker, clock, left>>
  <2>1. Passes(w) /\ Quiet(w)' /\ Holds(w)'
    BY <1>1, <1>5, FailPasses
  <2>2. proc[w].pc \in Unwinding
    BY <1>5 DEF At, Unwinding
  <2> QED
    BY <1>1, <1>2, <1>3, <1>5, <2>1, <2>2, OwnDropUnnoticed
<1>6. ASSUME NEW here, NEW k \in Roles, NEW there,
             \/ here = "u_dropS" /\ there = "u_dropR"
             \/ here = "u_dropR" /\ there = "u_indexS",
             DropBackup(w, here, Pair(w), k, there)
      PROVE  Unnoticed
  <2>1. proc[w].pc = here /\ proc[w].pc \in Unwinding
    BY <1>6 DEF DropBackup, At, Unwinding
  <2>2. Passes(w) /\ Holds(w)' /\ Quiet(w)'
    BY <1>2, <1>6, <2>1, OwnTrack, OwnGoes DEF DropBackup
  <2> QED
    BY <1>2, <1>3, <1>6, <2>1, <2>2, OwnDropUnnoticed DEF DropBackup
<1>7. CASE DropIndex(w, "u_indexS", SummaryOf[Pair(w)], "u_indexR")
  <2>1. proc[w].pc = "u_indexS" /\ proc[w].pc \in Unwinding
    BY <1>7 DEF DropIndex, At, Unwinding
  <2>2. Passes(w) /\ Holds(w)' /\ Quiet(w)'
    BY <1>2, <1>7, <2>1, OwnTrack, OwnGoes DEF DropIndex
  <2>3. index' = [index EXCEPT ![Output(Pair(w), "summary")] = None]
    BY <1>7 DEF DropIndex, Output
  <2> QED
    BY <1>1, <1>2, <1>3, <1>7, <2>1, <2>2, <2>3, OwnForgetUnnoticed DEF DropIndex
<1>8. CASE /\ At(w, "u_indexR") /\ Fail(w, "notBegun")
           /\ index' = [index EXCEPT ![ReportOf[Pair(w)]] = None]
           /\ UNCHANGED <<dest, backup, marker, clock, left>>
  <2>1. Passes(w) /\ Quiet(w)' /\ Holds(w)'
    BY <1>1, <1>8, FailPasses
  <2>2. proc[w].pc \in Unwinding
    BY <1>8 DEF At, Unwinding
  <2>3. index' = [index EXCEPT ![Output(Pair(w), "report")] = None]
    BY <1>8 DEF Output
  <2> QED
    BY <1>1, <1>2, <1>3, <1>8, <2>1, <2>2, <2>3, OwnForgetUnnoticed
<1> QED
  BY <1>1, <1>4, <1>5, <1>6, <1>7, <1>8 DEF Unwind

-----------------------------------------------------------------------------
(* Both outputs are replaced while their backups count.                    *)

(* The transaction is marked, and nothing is decided. *)
LEMMA ReplacingView ==
  ASSUME VInv, NEW w \in Procs, proc[w].pc \in Replacing, NEW k \in Roles
  PROVE  Chooses(Pair(w)) /\ index[Output(Pair(w), k)] # None /\ proc[w].pc \in Owning
<1>1. Choice(w) /\ OwnIndexes(w) /\ Local(w)
  BY DEF VInv, JInv, IInv, Knows
<1>2. marker[Pair(w)]["active"] # None /\ marker[Pair(w)]["committed"] = None
  BY <1>1 DEF Choice, Local, OwnMarks, NoCommitted, Replacing
<1>3. proc[w].pc \in NamedS /\ proc[w].pc \in NamedR
  BY DEF NamedS, NamedR, Marked
<1>4. index[SummaryOf[Pair(w)]] # None /\ index[ReportOf[Pair(w)]] # None
  BY <1>1, <1>3 DEF OwnIndexes
<1>5. proc[w].pc \in Owning
  BY DEF Replacing, Owning, Publishing
<1> QED
  BY <1>2, <1>4, <1>5 DEF Chooses, SelectsRollback, Output

(* An output is replaced, and its readers are sent to the backup. *)
LEMMA PutUnnoticed ==
  ASSUME VInv, JInv', NEW w \in Procs, NEW here, NEW k \in Roles, NEW there,
         \/ here = "putS" /\ k = "summary" /\ there = "verifyR"
         \/ here = "putR" /\ k = "report" /\ there = "settle",
         Put(w, here, k, there)
  PROVE  Unnoticed
<1>1. /\ proc[w].pc = here /\ UNCHANGED <<backup, index, marker, clock, left>> /\ Goto(w, there)
      /\ dest' = [dest EXCEPT ![Output(Pair(w), k)] = proc[w].txn]
  BY DEF Put, At
<1>2. proc[w].pc \in Replacing
  BY <1>1 DEF Replacing
<1>3. Chooses(Pair(w)) /\ index[Output(Pair(w), k)] # None /\ proc[w].pc \in Owning
  BY <1>2, ReplacingView
<1>4. proc[w].txn # 0 /\ TypeOK /\ left'.edits = MaxEdits /\ Pair(w) \in Pairs
  BY <1>1, <1>3, OwnAt
<1>5. proc[w].txn \in Present(w)
  BY <1>1 DEF Present
<1>6. there \notin Unput
  BY DEF Unput, BeforePut, Recovering, PairCleanup
<1>7. Passes(w) /\ Quiet(w)'
  BY <1>1, <1>3, <1>4, <1>6, GotoPasses
<1>8. Holds(w)'
  <2>1. proc'[w].pc = there /\ proc'[w].txn = proc[w].txn /\ proc'[w].seen = proc[w].seen /\ Pair(w)' = Pair(w)
    BY <1>1, <1>4 DEF Goto, TypeOK, ProcState, Pair
  <2>2. SummaryOf[Pair(w)] \in Outputs /\ ReportOf[Pair(w)] \in Outputs
        /\ SummaryOf[Pair(w)] # ReportOf[Pair(w)]
    BY <1>4, PairsAssumption
  <2>3. Holds(w)
    BY DEF VInv
  <2>4. CASE k = "summary"
    <3>1. dest'[SummaryOf[Pair(w)]] = proc[w].txn /\ dest'[ReportOf[Pair(w)]] = dest[ReportOf[Pair(w)]]
      BY <1>1, <1>4, <2>2, <2>4 DEF Output, TypeOK
    <3>2. proc[w].pc \in SameR
      BY <1>1, <2>4 DEF SameR, BeforePut
    <3>3. there \notin SameS \cup PutR \cup {"d_dropIndex"}
      BY <2>4 DEF SameS, BeforePut, Unwinding, PutR, CommitDone
    <3> QED
      BY <2>1, <2>3, <3>1, <3>2, <3>3 DEF Holds
  <2>5. CASE k = "report"
    <3>1. dest'[ReportOf[Pair(w)]] = proc[w].txn /\ dest'[SummaryOf[Pair(w)]] = dest[SummaryOf[Pair(w)]]
      BY <1>1, <1>4, <2>2, <2>5 DEF Output, TypeOK
    <3>2. proc[w].pc \in PutS
      BY <1>1, <2>5 DEF PutS
    <3>3. there \notin SameS \cup SameR \cup {"d_dropIndex"}
      BY <2>5 DEF SameS, SameR, BeforePut, Unwinding
    <3> QED
      BY <2>1, <2>3, <3>1, <3>2, <3>3 DEF Holds
  <2> QED
    BY <2>4, <2>5 DEF Roles
<1> QED
  BY <1>1, <1>3, <1>4, <1>5, <1>7, <1>8, OwnReplaceUnnoticed DEF Absent

(* Replacing both outputs changes nothing a reader may rely on. *)
LEMMA ReplaceUnnoticed ==
  ASSUME VInv, JInv', NEW w \in Procs, Replace(w)
  PROVE  Unnoticed
<1>1. left.edits = MaxEdits /\ "summary" \in Roles /\ "report" \in Roles
  BY DEF VInv, Roles
<1>2. CASE Settle(w)
  <2>1. proc[w].pc = "settle" /\ Goto(w, "c_link") /\ UNCHANGED <<dest, backup, index, marker, clock, left>>
    BY <1>2 DEF Settle, At, files
  <2>2. Track(proc[w].pc, "c_link") /\ Place(proc[w].pc, "c_link")
    BY <2>1, OwnTrack
  <2> QED
    BY <1>1, <2>1, <2>2, GotoStep
<1> QED
  BY <1>1, <1>2, VerifyUnnoticed, PutUnnoticed DEF Replace

-----------------------------------------------------------------------------
(* After the commit nobody asks for a backup, and before a roll-back is    *)
(* done both outputs are what the backups say.                             *)

(* A backup goes after the commit. *)
LEMMA CommitDropUnnoticed ==
  ASSUME VInv, JInv', NEW w \in Procs, NEW here, NEW k \in Roles, NEW there,
         \/ here = "c_dropS" /\ k = "summary" /\ there = "c_dropR"
         \/ here = "c_dropR" /\ k = "report" /\ there = "c_indexS",
         DropBackup(w, here, Pair(w), k, there)
  PROVE  Unnoticed
<1>1. proc[w].pc = here
  BY DEF DropBackup, At
<1>2. Passes(w) /\ Holds(w)' /\ Quiet(w)' /\ proc[w].pc \in Owning
  BY <1>1, OwnTrack, OwnGoes DEF DropBackup
<1>3. ~Chooses(Pair(w))
  BY <1>1 DEF VInv, JInv, Knows, Choice, Inactive, NotReverted, CommitDone, Chooses, SelectsRollback
<1> QED
  BY <1>2, <1>3, OwnDropUnnoticed DEF DropBackup

(* An index goes after the commit. *)
LEMMA CommitIndexUnnoticed ==
  ASSUME VInv, JInv', NEW w \in Procs, NEW here, NEW k \in Roles, NEW there,
         \/ here = "c_indexS" /\ k = "summary" /\ there = "c_indexR"
         \/ here = "c_indexR" /\ k = "report" /\ there = "c_rm",
         DropIndex(w, here, Output(Pair(w), k), there)
  PROVE  Unnoticed
<1>1. proc[w].pc = here
  BY DEF DropIndex, At
<1>2. Passes(w) /\ Holds(w)' /\ Quiet(w)' /\ proc[w].pc \in Owning
  BY <1>1, OwnTrack, OwnGoes DEF DropIndex
<1>3. ~Chooses(Pair(w))
  BY <1>1 DEF VInv, JInv, Knows, Choice, Inactive, NotReverted, CommitDone, Chooses, SelectsRollback
<1>4. Logical(Output(Pair(w), k)) = dest[Output(Pair(w), k)]
  BY <1>2, <1>3, OwnView DEF PartOf, Logical, Chooses
<1> QED
  BY <1>2, <1>4, OwnForgetUnnoticed DEF DropIndex

(* The active name goes once the decision has its own. *)
LEMMA RetireUnnoticed ==
  ASSUME VInv, JInv', NEW w \in Procs, NEW here, NEW kind, NEW there,
         \/ here = "c_retire" /\ kind = "committed" /\ there = "c_dropS"
         \/ here = "r_retire" /\ kind = "rollback" /\ there = "r_restoreS",
         RetireActive(w, here, Pair(w), kind, there)
  PROVE  Unnoticed
<1>1. proc[w].pc = here /\ UNCHANGED <<dest, backup, index, clock, left>>
  BY DEF RetireActive, At
<1>2. proc[w].pc \in Owning /\ Track(proc[w].pc, there) /\ Place(proc[w].pc, there)
  BY <1>1, OwnTrack
<1>3. TypeOK /\ left.edits = MaxEdits /\ Pair(w) \in Pairs
  BY <1>2, OwnAt
<1>4. CASE Fail(w, "raced") /\ UNCHANGED marker
  BY <1>1, <1>3, <1>4, FailStep
<1>5. CASE marker' = [marker EXCEPT ![Pair(w)]["active"] = None] /\ Goto(w, there)
  <2>1. PICK q \in Pairs : q = Pair(w)
    BY <1>3
  <2>2. marker[q][kind] # None
    BY <1>1, <2>1 DEF VInv, JInv, Knows, Choice, IsCommitted, IsReverted
  <2>3. /\ marker'[q]["committed"] = marker[q]["committed"] /\ marker'[q]["rollback"] = marker[q]["rollback"]
        /\ marker'[q]["active"] = None /\ \A p \in Pairs \ {q} : marker'[p] = marker[p]
    BY <1>3, <1>5, <2>1 DEF TypeOK, Kinds
  <2>4. Decided(q)
    BY <2>2, <2>3 DEF Decided, SelectsRollback, Kinds
  <2>5. Decided(Pair(w)) /\ \A p \in Pairs \ {Pair(w)} : marker'[p] = marker[p]
    BY <2>1, <2>3, <2>4
  <2>6. Passes(w) /\ Holds(w)' /\ Quiet(w)'
    BY <1>1, <1>2, <1>5, OwnGoes
  <2> QED
    BY <1>1, <1>2, <2>5, <2>6, OwnMarkerUnnoticed
<1> QED
  BY <1>4, <1>5 DEF RetireActive

(* The last marker goes when both indexes are gone. *)
LEMMA LastMarkerUnnoticed ==
  ASSUME VInv, JInv', NEW w \in Procs, proc[w].pc \in {"c_rm", "r_rm"}, NEW kind,
         marker' = [marker EXCEPT ![Pair(w)][kind] = None], UNCHANGED <<dest, backup, index>>,
         Passes(w), Holds(w)', Quiet(w)'
  PROVE  Unnoticed
<1>1. proc[w].pc \in Owning /\ proc[w].pc \in ClearS /\ proc[w].pc \in ClearR
  BY DEF Owning, Deciding, ClearS, ClearR
<1>2. \A k \in Roles : index[Output(Pair(w), k)] = None
  BY <1>1 DEF VInv, JInv, Knows, OwnIndexes, Output
<1>3. \A p \in Pairs \ {Pair(w)} : marker'[p] = marker[p]
  BY <1>1, OwnAt DEF TypeOK
<1> QED
  BY <1>1, <1>2, <1>3, OwnMarkerUnnoticed

(* The run ends with success. *)
LEMMA FinishUnnoticed ==
  ASSUME VInv, JInv', NEW w \in Procs, Finish(w)
  PROVE  Unnoticed
<1>1. Quiet(w) /\ left'.edits = MaxEdits /\ UNCHANGED <<dest, backup, index, marker, clock>>
  BY DEF VInv, Finish, files
<1>2. proc' = [proc EXCEPT ![w] = IdleProc]
  BY <1>1 DEF Finish, Quiet
<1>3. PICK s : s = IdleProc
  OBVIOUS
<1>4. s.pc = "idle" /\ s.txn = 0 /\ s.seen = IdleProc.seen /\ ~s.aborting /\ s.why = "none"
  BY <1>3 DEF IdleProc
<1>5. Passes(w) /\ Quiet(w)' /\ Holds(w)'
  BY <1>1, <1>2, <1>3, <1>4, StopPasses
<1> QED
  BY <1>1, <1>5, QuietStep

(* Whatever follows the commit changes nothing a reader may rely on. *)
LEMMA CommitUnnoticed ==
  ASSUME VInv, JInv', NEW w \in Procs, Commit(w),
         ~LinkMarker(w, "c_link", Pair(w), "committed", "c_retire")
  PROVE  Unnoticed
<1>1. left.edits = MaxEdits /\ "summary" \in Roles /\ "report" \in Roles
  BY DEF VInv, Roles
<1>2. CASE RemoveMarker(w, "c_rm", Pair(w), "committed", "c_done")
  <2>1. proc[w].pc = "c_rm"
    BY <1>2 DEF RemoveMarker, At
  <2>2. Passes(w) /\ Holds(w)' /\ Quiet(w)'
    BY <1>2, <2>1, OwnTrack, OwnGoes DEF RemoveMarker
  <2> QED
    BY <1>2, <2>1, <2>2, LastMarkerUnnoticed DEF RemoveMarker
<1>3. SummaryOf[Pair(w)] = Output(Pair(w), "summary") /\ ReportOf[Pair(w)] = Output(Pair(w), "report")
  BY DEF Output
<1> QED
  BY <1>1, <1>2, <1>3, RetireUnnoticed, CommitDropUnnoticed, CommitIndexUnnoticed, FinishUnnoticed DEF Commit

(* w decides to roll its own transaction back. *)
LEMMA RollBackLinkUnnoticed ==
  ASSUME VInv, JInv', NEW w \in Procs, LinkMarker(w, "r_link", Pair(w), "rollback", "r_retire")
  PROVE  Unnoticed
<1>1. proc[w].pc = "r_link" /\ UNCHANGED <<dest, backup, index, clock, left>>
  BY DEF LinkMarker, At
<1>2. proc[w].pc \in Owning /\ Track(proc[w].pc, "r_retire") /\ Place(proc[w].pc, "r_retire")
  BY <1>1, OwnTrack
<1>3. TypeOK /\ left.edits = MaxEdits /\ Pair(w) \in Pairs
  BY <1>2, OwnAt
<1>4. CASE Fail(w, "raced") /\ UNCHANGED marker
  BY <1>1, <1>3, <1>4, FailStep
<1>5. CASE Goto(w, "r_retire") /\ UNCHANGED marker
  BY <1>1, <1>2, <1>3, <1>5, GotoStep
<1>6. CASE /\ marker[Pair(w)]["rollback"] = None /\ marker[Pair(w)]["active"] # None /\ Goto(w, "r_retire")
           /\ marker' = [marker EXCEPT ![Pair(w)]["rollback"] = marker[Pair(w)]["active"]]
  <2>1. PICK q \in Pairs : q = Pair(w)
    BY <1>3
  <2>2. marker[q]["committed"] = None
    BY <1>1, <2>1 DEF VInv, JInv, IInv, Local, OwnMarks, NoCommitted, Deciding
  <2>3. marker'[q]["rollback"] # None /\ \A p \in Pairs \ {q} : marker'[p] = marker[p]
    BY <1>3, <1>6, <2>1 DEF TypeOK, Kinds
  <2>4. Decided(q)
    BY <1>6, <2>1, <2>2, <2>3 DEF Decided, SelectsRollback, Kinds
  <2>5. Decided(Pair(w)) /\ \A p \in Pairs \ {Pair(w)} : marker'[p] = marker[p]
    BY <2>1, <2>3, <2>4
  <2>6. Passes(w) /\ Holds(w)' /\ Quiet(w)'
    BY <1>1, <1>2, <1>6, OwnGoes
  <2> QED
    BY <1>1, <1>2, <2>5, <2>6, OwnMarkerUnnoticed
<1> QED
  BY <1>4, <1>5, <1>6 DEF LinkMarker

(* w restores an output it had replaced. *)
LEMMA RestoreUnnoticed ==
  ASSUME VInv, JInv', NEW w \in Procs, NEW here, NEW k \in Roles, NEW there,
         \/ here = "r_restoreS" /\ k = "summary" /\ there = "r_restoreR"
         \/ here = "r_restoreR" /\ k = "report" /\ there = "r_indexS",
         Restore(w, here, Pair(w), k, Previous(w)[k], there)
  PROVE  Unnoticed
<1>1. proc[w].pc = here /\ UNCHANGED <<backup, index, marker, clock, left>>
  BY DEF Restore, At
<1>2. Holds(w) /\ OwnBackups(w) /\ Choice(w) /\ OwnIndexes(w) /\ left.edits = MaxEdits
  BY DEF VInv, JInv, Knows
<1>3. /\ proc[w].pc \in HeldS /\ proc[w].pc \in HeldR /\ proc[w].pc \in Owning /\ proc[w].pc \in IsReverted
      /\ proc[w].pc \in NamedS /\ proc[w].pc \in NamedR
  BY <1>1 DEF HeldS, HeldR, Owning, Deciding, IsReverted, RollBackDone, NamedS, NamedR, Marked
<1>4. /\ backup[Pair(w)][k] = proc[w].seen[k] /\ Chooses(Pair(w))
      /\ index[Output(Pair(w), k)] # None
  BY <1>2, <1>3 DEF OwnBackups, Choice, Chooses, SelectsRollback, OwnIndexes, Output, Roles
<1>5. CASE (Fail(w, "missingBackup") \/ Fail(w, "unexpectedBackup")) /\ UNCHANGED dest
  BY <1>1, <1>2, <1>5, FailStep
<1>6. CASE dest' = [dest EXCEPT ![Output(Pair(w), k)] = backup[Pair(w)][k]] /\ Goto(w, there)
  <2>1. TypeOK /\ left'.edits = MaxEdits /\ Pair(w) \in Pairs
    BY <1>1, <1>3, OwnAt
  <2>2. backup[Pair(w)][k] \in Present(w)
    BY <2>1 DEF Present
  <2>3. there \notin Unput
    BY DEF Unput, BeforePut, Recovering, PairCleanup
  <2>4. Passes(w) /\ Quiet(w)'
    BY <1>1, <1>3, <1>6, <2>1, <2>3, GotoPasses
  <2>5. Holds(w)'
    <3>1. proc'[w].pc = there /\ proc'[w].txn = proc[w].txn /\ proc'[w].seen = proc[w].seen /\ Pair(w)' = Pair(w)
      BY <1>6, <2>1 DEF Goto, TypeOK, ProcState, Pair
    <3>2. SummaryOf[Pair(w)] \in Outputs /\ ReportOf[Pair(w)] \in Outputs
          /\ SummaryOf[Pair(w)] # ReportOf[Pair(w)]
      BY <2>1, PairsAssumption
    <3>3. there \notin PutS \cup PutR \cup {"d_dropIndex"}
      BY DEF PutS, PutR, CommitDone
    <3>4. CASE k = "summary"
      <4>1. dest'[SummaryOf[Pair(w)]] = proc[w].seen["summary"]
        BY <1>4, <1>6, <2>1, <3>2, <3>4 DEF Output, TypeOK
      <4>2. there \notin SameR
        BY <3>4 DEF SameR, BeforePut, Unwinding
      <4> QED
        BY <3>1, <3>3, <4>1, <4>2 DEF Holds
    <3>5. CASE k = "report"
      <4>1. dest'[ReportOf[Pair(w)]] = proc[w].seen["report"] /\ dest'[SummaryOf[Pair(w)]] = dest[SummaryOf[Pair(w)]]
        BY <1>4, <1>6, <2>1, <3>2, <3>5 DEF Output, TypeOK
      <4>2. proc[w].pc \in SameS
        BY <1>1, <3>5 DEF SameS
      <4> QED
        BY <1>2, <3>1, <3>3, <4>1, <4>2 DEF Holds
    <3> QED
      BY <3>4, <3>5 DEF Roles
  <2> QED
    BY <1>1, <1>3, <1>4, <1>6, <2>2, <2>4, <2>5, OwnReplaceUnnoticed
<1> QED
  BY <1>5, <1>6 DEF Restore

(* An index goes after both outputs are restored. *)
LEMMA RollBackIndexUnnoticed ==
  ASSUME VInv, JInv', NEW w \in Procs, NEW here, NEW k \in Roles, NEW there,
         \/ here = "r_indexS" /\ k = "summary" /\ there = "r_indexR"
         \/ here = "r_indexR" /\ k = "report" /\ there = "r_dropS",
         DropIndex(w, here, Output(Pair(w), k), there)
  PROVE  Unnoticed
<1>1. proc[w].pc = here
  BY DEF DropIndex, At
<1>2. Passes(w) /\ Holds(w)' /\ Quiet(w)' /\ proc[w].pc \in Owning
  BY <1>1, OwnTrack, OwnGoes DEF DropIndex
<1>3. Holds(w) /\ OwnBackups(w)
  BY DEF VInv, JInv, Knows
<1>4. backup[Pair(w)][k] = dest[Output(Pair(w), k)] /\ dest[Output(Pair(w), k)] = proc[w].seen[k]
  <2>1. CASE k = "summary"
    <3>1. proc[w].pc \in HeldS /\ proc[w].pc \in SameS
      BY <1>1, <2>1 DEF HeldS, SameS
    <3> QED
      BY <1>3, <2>1, <3>1 DEF Holds, OwnBackups, Output
  <2>2. CASE k = "report"
    <3>1. proc[w].pc \in HeldR /\ proc[w].pc \in SameR
      BY <1>1, <2>2 DEF HeldR, HeldS, SameR
    <3> QED
      BY <1>3, <2>2, <3>1 DEF Holds, OwnBackups, Output
  <2> QED
    BY <2>1, <2>2 DEF Roles
<1>5. PICK q \in Pairs : q = Pair(w)
  BY <1>2, OwnAt
<1>6. PICK o \in Outputs : o = Output(q, k)
  BY <1>2, <1>5, OwnView
<1>7. PartOf(o, q, k) /\ (index[o] # None => (index[o].prev <=> proc[w].seen[k] # Absent))
  BY <1>2, <1>5, <1>6, OwnView
<1>8. Exact(o, q, k)
  BY <1>4, <1>5, <1>6, <1>7 DEF Exact
<1>9. Logical(o) = dest[o]
  BY <1>7, <1>8, ExactIs
<1>10. Logical(Output(Pair(w), k)) = dest[Output(Pair(w), k)]
  BY <1>5, <1>6, <1>9
<1> QED
  BY <1>2, <1>10, OwnForgetUnnoticed DEF DropIndex

(* A backup goes after both indexes. *)
LEMMA RollBackDropUnnoticed ==
  ASSUME VInv, JInv', NEW w \in Procs, NEW here, NEW k \in Roles, NEW there,
         \/ here = "r_dropS" /\ there = "r_dropR"
         \/ here = "r_dropR" /\ there = "r_rm",
         DropBackup(w, here, Pair(w), k, there)
  PROVE  Unnoticed
<1>1. proc[w].pc = here
  BY DEF DropBackup, At
<1>2. Passes(w) /\ Holds(w)' /\ Quiet(w)' /\ proc[w].pc \in Owning
  BY <1>1, OwnTrack, OwnGoes DEF DropBackup
<1>3. proc[w].pc \in ClearS /\ proc[w].pc \in ClearR
  BY <1>1 DEF ClearS, ClearR
<1>4. index[Output(Pair(w), k)] = None
  BY <1>3 DEF VInv, JInv, Knows, OwnIndexes, Output
<1> QED
  BY <1>2, <1>4, OwnDropUnnoticed DEF DropBackup

(* roll_back changes nothing a reader may rely on. *)
LEMMA RollBackUnnoticed ==
  ASSUME VInv, JInv', NEW w \in Procs, RollBack(w)
  PROVE  Unnoticed
<1>1. left.edits = MaxEdits /\ "summary" \in Roles /\ "report" \in Roles
  BY DEF VInv, Roles
<1>2. CASE /\ At(w, "r_rm") /\ Fail(w, "rolledBack")
           /\ marker' = [marker EXCEPT ![Pair(w)]["rollback"] = None]
           /\ UNCHANGED <<dest, backup, index, clock, left>>
  <2>1. Passes(w) /\ Quiet(w)' /\ Holds(w)'
    BY <1>1, <1>2, FailPasses
  <2>2. proc[w].pc \in {"c_rm", "r_rm"}
    BY <1>2 DEF At
  <2> QED
    BY <1>2, <2>1, <2>2, LastMarkerUnnoticed
<1>3. SummaryOf[Pair(w)] = Output(Pair(w), "summary") /\ ReportOf[Pair(w)] = Output(Pair(w), "report")
  BY DEF Output
<1> QED
  BY <1>1, <1>2, <1>3, RollBackLinkUnnoticed, RetireUnnoticed, RestoreUnnoticed, RollBackIndexUnnoticed,
     RollBackDropUnnoticed DEF RollBack

-----------------------------------------------------------------------------
(* The commit itself: both outputs change for a reader, in one step.       *)

(* An output about to be committed, before the committed marker is there. *)
LEMMA BeforeCommit ==
  ASSUME VInv, NEW w \in Procs, proc[w].pc = "c_link", marker[Pair(w)]["active"] # None, NEW k \in Roles
  PROVE  /\ Logical(Output(Pair(w), k)) = proc[w].seen[k] /\ proc[w].seen[k] # proc[w].txn
         /\ dest[Output(Pair(w), k)] = proc[w].txn /\ index[Output(Pair(w), k)] # None
<1>1. /\ proc[w].pc \in Owning /\ proc[w].pc \in HeldS /\ proc[w].pc \in HeldR /\ proc[w].pc \in NamedS
      /\ proc[w].pc \in NamedR /\ proc[w].pc \in PutS /\ proc[w].pc \in PutR /\ proc[w].pc \in NoCommitted
  BY DEF Owning, Deciding, HeldS, HeldR, NamedS, NamedR, Marked, PutS, PutR, NoCommitted
<1>2. Choice(w) /\ OwnIndexes(w) /\ OwnBackups(w) /\ Local(w) /\ Holds(w) /\ Fresh(w)
  BY DEF VInv, JInv, IInv, Knows
<1>3. dest[Output(Pair(w), k)] = proc[w].txn /\ backup[Pair(w)][k] = proc[w].seen[k]
      /\ index[Output(Pair(w), k)] # None
  BY <1>1, <1>2 DEF Holds, OwnBackups, OwnIndexes, Output, Roles
<1>4. proc[w].seen[k] # proc[w].txn
  BY <1>1, <1>2 DEF Fresh
<1>5. Chooses(Pair(w))
  BY <1>1, <1>2 DEF Chooses, SelectsRollback, Local, OwnMarks
<1>6. PICK q \in Pairs : q = Pair(w)
  BY <1>1, OwnAt
<1>7. PICK o \in Outputs : o = Output(q, k)
  BY <1>1, <1>6, OwnView
<1>8. PartOf(o, q, k) /\ (index[o] # None => (index[o].prev <=> proc[w].seen[k] # Absent))
  BY <1>1, <1>6, <1>7, OwnView
<1>9. Logical(o) = proc[w].seen[k]
  <2>1. Chosen(o) /\ Kept(o) = backup[q][k]
    BY <1>3, <1>5, <1>6, <1>7, <1>8, Led
  <2> QED
    BY <1>3, <1>6, <1>7, <1>8, <2>1, LogicalIs
<1> QED
  BY <1>3, <1>4, <1>6, <1>7, <1>9

(* What a reader sees of a step: nothing, or a publication. *)
Noticed == VInv' /\ [Abstract!Next]_LogicalValue

(* A step nobody notices is one of them. *)
LEMMA UnnoticedIs == Unnoticed => Noticed
BY DEF Unnoticed, Noticed

(* The link that commits publishes both outputs; if it fails nobody notices. *)
LEMMA CommitNoticed ==
  ASSUME VInv, JInv', NEW w \in Procs, LinkMarker(w, "c_link", Pair(w), "committed", "c_retire")
  PROVE  Noticed
<1>1. proc[w].pc = "c_link" /\ UNCHANGED <<dest, backup, index, clock, left>>
  BY DEF LinkMarker, At
<1>2. proc[w].pc \in Owning /\ Track(proc[w].pc, "c_retire") /\ Place(proc[w].pc, "c_retire")
  BY <1>1, OwnTrack
<1>3. /\ TypeOK /\ IInv /\ left.edits = MaxEdits /\ Pair(w) \in Pairs /\ Focus(w) = OutputsOf(Pair(w))
      /\ proc[w].txn # 0 /\ proc[w].pc \in Locked
  BY <1>2, OwnAt
<1>4. CASE Fail(w, "raced") /\ UNCHANGED marker
  BY <1>1, <1>3, <1>4, FailStep, UnnoticedIs
<1>5. CASE Goto(w, "c_retire") /\ UNCHANGED marker
  BY <1>1, <1>2, <1>3, <1>5, GotoStep, UnnoticedIs
<1>6. CASE /\ marker[Pair(w)]["committed"] = None /\ marker[Pair(w)]["active"] # None /\ Goto(w, "c_retire")
           /\ marker' = [marker EXCEPT ![Pair(w)]["committed"] = marker[Pair(w)]["active"]]
  <2>1. PICK q \in Pairs : q = Pair(w)
    BY <1>3
  <2>2. PICK n : n = proc[w].txn
    OBVIOUS
  <2>3. marker[q]["rollback"] = None
    BY <1>1, <2>1 DEF VInv, JInv, IInv, Local, OwnMarks, NoRollback
  <2>4. /\ marker'[q]["committed"] # None /\ marker'[q]["rollback"] = None
        /\ \A p \in Pairs \ {q} : marker'[p] = marker[p]
    BY <1>3, <1>6, <2>1, <2>3 DEF TypeOK, Kinds
  <2>5. Passes(w) /\ Holds(w)' /\ Quiet(w)'
    BY <1>1, <1>2, <1>6, OwnGoes
  <2>6. OutputsOf(q) \subseteq Focus(w)
    BY <1>3, <2>1
  <2>7. Within(w) /\ Copying(w)
    BY <1>1, <1>3, <2>4, <2>6, WithinMarker
  <2>8. ASSUME NEW k \in Roles, NEW o \in Outputs, o = Output(q, k)
        PROVE  /\ Whole(o)' /\ Shown(o)' /\ Logical(o)' = n
               /\ Logical(o) # n
    <3>1. /\ Logical(o) = proc[w].seen[k] /\ proc[w].seen[k] # n /\ dest[o] = n /\ index[o] # None
      BY <1>1, <1>6, <2>1, <2>2, <2>8, BeforeCommit
    <3>2. PartOf(o, q, k)
      BY <1>2, <2>1, <2>8, OwnView
    <3>3. PartOf(o, q, k)' /\ index'[o] = index[o] /\ dest'[o] = n
      BY <1>1, <3>1, <3>2 DEF PartOf
    <3>4. ~Chooses(q)' /\ ~(\A j \in Kinds : marker'[q][j] = None)
      BY <2>4 DEF Chooses, SelectsRollback, Kinds
    <3>5. ~Chosen(o)' /\ ~Open(o)'
      BY <3>3, <3>4, LedThen
    <3>6. Logical(o)' = n
      BY <3>3, <3>5 DEF Logical, Chosen
    <3> QED
      BY <3>1, <3>5, <3>6 DEF Whole, Shown
  <2>9. PICK S \in Outputs, R \in Outputs : S = SummaryOf[q] /\ R = ReportOf[q]
    BY PairsAssumption
  <2>10. S = Output(q, "summary") /\ R = Output(q, "report") /\ "summary" \in Roles /\ "report" \in Roles
    BY <2>9 DEF Output, Roles
  <2>11. Focus(w) = {S, R}
    BY <1>3, <2>1, <2>9 DEF OutputsOf
  <2>12. \A o \in Focus(w) : Whole(o)' /\ Shown(o)'
    BY <2>8, <2>10, <2>11
  <2>13. VInv' /\ \A o \in Outputs \ Focus(w) : Logical(o)' = Logical(o)
    BY <1>3, <2>5, <2>7, <2>12, VersionsStep
  <2>14. Abstract!Publish(q)
    <3>1. /\ Logical(S)' = n /\ Logical(R)' = n /\ Logical(S) # n /\ Logical(R) # n
          /\ \A o \in Outputs \ {S, R} : Logical(o)' = Logical(o)
      BY <2>8, <2>10, <2>11, <2>13
    <3>2. LogicalValue' = [o \in Outputs |-> Logical(o)']
      BY DEF LogicalValue
    <3>3. LogicalValue' = [LogicalValue EXCEPT ![S] = n, ![R] = n]
      BY <3>1, <3>2 DEF LogicalValue
    <3>4. LogicalValue'[S] = n /\ LogicalValue[S] # n /\ LogicalValue[R] # n /\ n # 0
      BY <1>3, <2>2, <3>1, <3>2 DEF LogicalValue
    <3> QED
      BY <2>9, <3>3, <3>4 DEF Abstract!Publish, Abstract!Absent
  <2> QED
    BY <2>13, <2>14 DEF Noticed, Abstract!Next
<1> QED
  BY <1>4, <1>5, <1>6 DEF LinkMarker

-----------------------------------------------------------------------------
(* A run begins, stages and ends.                                          *)

(* A version is staged, and no output or backup holds it. *)
LEMMA StageFresh ==
  ASSUME TypeOK, Stamped, \A v \in Procs : Fresh(v), NEW w \in Procs, Stage(w)
  PROVE  /\ Stamped' /\ \A v \in Procs : Fresh(v)'
         /\ proc'[w].pc = "staged" /\ proc'[w].aborting = proc[w].aborting /\ proc'[w].why = proc[w].why
         /\ \A v \in Procs \ {w} : proc'[v] = proc[v]
<1>1. /\ UNCHANGED <<dest, backup, index, marker>>
      /\ clock' = clock + 1 /\ clock \in Nat /\ proc \in [Procs -> ProcState]
      /\ \A v \in Procs : proc[v].txn \in Nat /\ \A k \in Roles : proc[v].seen[k] \in Nat
  BY DEF TypeOK, ProcState, Stage, files
<1>2. /\ \A v \in Procs \ {w} : proc'[v] = proc[v]
      /\ proc'[w] = [proc[w] EXCEPT !.txn = clock + 1] /\ proc[w].pc = "staged"
  BY <1>1 DEF Stage, At
<1>3. /\ proc'[w].pc = "staged" /\ proc'[w].seen = proc[w].seen /\ proc'[w].txn = clock + 1
      /\ proc'[w].aborting = proc[w].aborting /\ proc'[w].why = proc[w].why
  BY <1>1, <1>2 DEF ProcState
<1>4. "staged" \notin Owning
  BY DEF Owning, Publishing, Unwinding, Deciding
<1>5. /\ \A o \in Outputs : dest[o] \in Nat /\ dest[o] <= clock
      /\ \A q \in Pairs, k \in Roles : backup[q][k] \in Nat /\ backup[q][k] <= clock
  BY <1>1 DEF Stamped, TypeOK
<1>6. Stamped'
  BY <1>1, <1>5 DEF Stamped
<1>7. ASSUME NEW v \in Procs \ {w} PROVE Fresh(v)'
  <2>1. /\ proc'[v] = proc[v] /\ proc[v].txn <= clock /\ proc[v].txn \in Nat
        /\ \A k \in Roles : proc[v].seen[k] <= clock /\ proc[v].seen[k] \in Nat
    BY <1>1, <1>2 DEF Fresh
  <2>2. proc'[v].txn <= clock' /\ \A k \in Roles : proc'[v].seen[k] <= clock'
    BY <1>1, <2>1
  <2>3. proc[v].txn # 0 => \A u \in Procs \ {v} : proc'[u].txn # proc[v].txn
    <3>1. clock + 1 # proc[v].txn
      BY <1>1, <2>1
    <3>2. proc'[w].txn # proc[v].txn
      BY <1>3, <3>1
    <3>3. \A u \in Procs \ {v, w} : proc'[u].txn = proc[u].txn
      BY <1>2
    <3> QED
      BY <3>2, <3>3 DEF Fresh
  <2> QED
    BY <1>1, <2>1, <2>2, <2>3 DEF Fresh
<1>8. Fresh(w)'
  <2>1. proc'[w].txn = clock + 1 /\ \A k \in Roles : proc'[w].seen[k] <= clock /\ proc'[w].seen[k] \in Nat
    BY <1>1, <1>3 DEF Fresh
  <2>2. \A v \in Procs \ {w} : proc'[v].txn <= clock /\ proc'[v].txn \in Nat
    BY <1>1, <1>2 DEF Fresh
  <2>3. proc'[w].txn <= clock' /\ \A k \in Roles : proc'[w].seen[k] <= clock' /\ proc'[w].seen[k] # proc'[w].txn
    BY <1>1, <2>1
  <2>4. \A v \in Procs \ {w} : proc'[v].txn # proc'[w].txn
    BY <1>1, <2>1, <2>2
  <2>5. /\ \A o \in Outputs : dest'[o] # proc'[w].txn
        /\ \A q \in Pairs, k \in Roles : backup'[q][k] # proc'[w].txn
    BY <1>1, <1>5, <2>1
  <2> QED
    BY <1>3, <1>4, <2>3, <2>4, <2>5 DEF Fresh
<1> QED
  BY <1>2, <1>3, <1>6, <1>7, <1>8

(* A run stages the next version: nothing holds it yet. *)
LEMMA StageUnnoticed ==
  ASSUME VInv, JInv', NEW w \in Procs, Stage(w)
  PROVE  Unnoticed
<1>1. /\ TypeOK /\ Stamped /\ left'.edits = MaxEdits /\ UNCHANGED <<dest, backup, index, marker>>
      /\ \A v \in Procs : Holds(v) /\ Fresh(v) /\ Quiet(v)
  BY DEF VInv, JInv, IInv, Stage, files
<1>2. /\ Stamped' /\ \A v \in Procs : Fresh(v)'
      /\ proc'[w].pc = "staged" /\ proc'[w].aborting = proc[w].aborting /\ proc'[w].why = proc[w].why
      /\ \A v \in Procs \ {w} : proc'[v] = proc[v]
  BY <1>1, StageFresh
<1>3. "staged" \notin SameS \cup SameR \cup PutS \cup PutR
  BY DEF SameS, SameR, PutS, PutR, BeforePut, CommitDone, Unwinding
<1>4. ASSUME NEW v \in Procs PROVE Holds(v)' /\ Quiet(v)'
  <2>1. CASE v = w
    BY <1>1, <1>2, <1>3, <2>1 DEF Holds, Quiet
  <2>2. CASE v # w
    <3>1. proc'[v] = proc[v]
      BY <1>2, <2>2
    <3> QED
      BY <1>1, <3>1 DEF Holds, Quiet, Pair, ThisOutput, IdxPair, IdxRole
  <2> QED
    BY <2>1, <2>2
<1>5. ASSUME NEW o \in Outputs PROVE Whole(o)' /\ Shown(o)' /\ Logical(o)' = Logical(o)
  BY <1>1 DEF VInv, Whole, Shown, Open, Chosen, Kept, Logical
<1>6. VInv'
  BY <1>1, <1>2, <1>4, <1>5 DEF VInv
<1>7. LogicalValue' = LogicalValue
  BY <1>5 DEF LogicalValue
<1> QED
  BY <1>6, <1>7 DEF Unnoticed

(* A run starts, goes on to publish, or ends in any way. *)
LEMMA RunUnnoticed ==
  ASSUME VInv, JInv', NEW w \in Procs,
         (\E p \in Pairs : Start(w, p)) \/ Publish(w) \/ Exit(w) \/ Crash(w)
  PROVE  Unnoticed
<1>1. proc[w] \in ProcState /\ Quiet(w) /\ left.edits = MaxEdits
  BY DEF VInv, JInv, IInv, TypeOK
<1>2. "readIndex" \in Recovering \ {"d_dropIndex"}
  BY DEF Recovering
<1>3. ASSUME NEW p \in Pairs, Start(w, p) PROVE Unnoticed
  <2>1. PICK s : s = [IdleProc EXCEPT !.pc = "readIndex", !.pair = p]
    OBVIOUS
  <2>2. s.pc = "readIndex" /\ s.txn = 0 /\ s.seen = IdleProc.seen /\ ~s.aborting /\ s.why = "none"
    BY <2>1 DEF IdleProc
  <2> QED
    BY <1>1, <1>2, <1>3, <2>1, <2>2, LookUnnoticed DEF Start, files
<1>4. CASE Publish(w)
  <2>1. PICK s : s = [proc[w] EXCEPT !.pc = "readIndex", !.role = "summary"]
    OBVIOUS
  <2>2. /\ s.pc = "readIndex" /\ s.txn = proc[w].txn /\ s.seen = proc[w].seen
        /\ s.aborting = proc[w].aborting /\ s.why = proc[w].why /\ proc' = [proc EXCEPT ![w] = s]
    BY <1>1, <1>4, <2>1 DEF Publish, ProcState
  <2> QED
    BY <1>1, <1>2, <1>4, <2>2, LookUnnoticed DEF Publish, At, Quiet, files
<1>5. CASE Exit(w) \/ Crash(w)
  <2>1. /\ proc' = [proc EXCEPT ![w] = IdleProc] /\ UNCHANGED <<dest, backup, index, marker, clock>>
        /\ left'.edits = MaxEdits
    BY <1>1, <1>5, MishapIs DEF Exit, Crash, files
  <2>2. PICK s : s = IdleProc
    OBVIOUS
  <2>3. s.pc = "idle" /\ s.txn = 0 /\ s.seen = IdleProc.seen /\ ~s.aborting /\ s.why = "none"
    BY <2>2 DEF IdleProc
  <2> QED
    BY <2>1, <2>2, <2>3, LookUnnoticed
<1> QED
  BY <1>3, <1>4, <1>5

-----------------------------------------------------------------------------
(* No run has begun: every output is what it is. *)
LEMMA VInit == Init => VInv
<1> SUFFICES ASSUME Init PROVE VInv
  OBVIOUS
<1>1. JInv /\ left.edits = MaxEdits
  BY JInit DEF Init
<1>2. Stamped
  <2>1. \A o \in Outputs : dest[o] \in {0, 1}
    BY BoundsAssumption DEF Init, Absent
  <2>2. clock = 1 /\ \A q \in Pairs, k \in Roles : backup[q][k] = 0
    BY DEF Init, Absent
  <2> QED
    BY <2>1, <2>2 DEF Stamped
<1>3. ASSUME NEW w \in Procs PROVE Holds(w) /\ Fresh(w) /\ Quiet(w)
  <2>1. /\ proc[w].pc = "idle" /\ proc[w].txn = 0 /\ \A k \in Roles : proc[w].seen[k] = 0
        /\ ~proc[w].aborting /\ proc[w].why = "none" /\ clock = 1
    BY <1>3 DEF Init, IdleProc, Absent
  <2>2. "idle" \notin SameS \cup SameR \cup PutS \cup PutR \cup Owning
    BY DEF SameS, SameR, PutS, PutR, BeforePut, CommitDone, Unwinding, Owning, Publishing, Deciding
  <2> QED
    BY <2>1, <2>2 DEF Holds, Fresh, Quiet
<1>4. ASSUME NEW o \in Outputs PROVE Whole(o) /\ Shown(o)
  BY DEF Init, Whole, Shown, Open, Chosen
<1> QED
  BY <1>1, <1>2, <1>3, <1>4 DEF VInv

(* Every action keeps the invariant, and a reader sees nothing of it or a  *)
(* publication. *)
LEMMA VNext == VInv /\ [Next]_vars /\ [OneFaultAtATime]_vars /\ ~Edited => Noticed
<1> SUFFICES ASSUME VInv, [Next]_vars, [OneFaultAtATime]_vars, ~Edited PROVE Noticed
  OBVIOUS
<1>1. JInv'
  BY JNext DEF VInv
<1>2. CASE UNCHANGED vars
  <2>1. UNCHANGED <<dest, backup, index, marker, proc, clock, left>>
    BY <1>2 DEF vars
  <2>2. ASSUME NEW w \in Procs PROVE Holds(w)' /\ Fresh(w)' /\ Quiet(w)'
    BY <2>1 DEF VInv, Holds, Fresh, Quiet, Pair, ThisOutput, IdxPair, IdxRole
  <2>3. ASSUME NEW o \in Outputs PROVE Whole(o)' /\ Shown(o)' /\ Logical(o)' = Logical(o)
    BY <2>1 DEF VInv, Whole, Shown, Open, Chosen, Kept, Logical
  <2>4. Stamped' /\ left'.edits = MaxEdits
    BY <2>1 DEF VInv, Stamped
  <2>5. VInv'
    BY <1>1, <2>2, <2>3, <2>4 DEF VInv
  <2>6. LogicalValue' = LogicalValue
    BY <2>3 DEF LogicalValue
  <2> QED
    BY <2>5, <2>6 DEF Noticed
<1>3. ASSUME NEW o \in Outputs, Edit(o) PROVE FALSE
  BY <1>3 DEF Edited
<1>4. ASSUME NEW w \in Procs, FailVerify(w) PROVE FALSE
  BY <1>4 DEF Edited
<1>5. ASSUME NEW w \in Procs, Commit(w) PROVE Noticed
  BY <1>1, <1>5, CommitNoticed, CommitUnnoticed, UnnoticedIs
<1>6. ASSUME NEW w \in Procs, Step(w) PROVE Noticed
  BY <1>1, <1>5, <1>6, RecoverDestinationUnnoticed, RecoverPairUnnoticed, BeginUnnoticed, UnwindUnnoticed,
     ReplaceUnnoticed, RollBackUnnoticed, UnnoticedIs DEF Step
<1>7. ASSUME NEW w \in Procs, (\E p \in Pairs : Start(w, p)) \/ Stage(w) \/ Publish(w) \/ Exit(w) \/ Crash(w)
      PROVE  Noticed
  BY <1>1, <1>7, RunUnnoticed, StageUnnoticed, UnnoticedIs
<1>8. ASSUME NEW w \in Procs, FailCapture(w) \/ FailIndex(w) \/ FailReplace(w) PROVE Noticed
  BY <1>1, <1>8, FailCaptureUnnoticed, FailIndexUnnoticed, FailReplaceUnnoticed, UnnoticedIs
<1>9. ASSUME NEW w \in Procs, FailMarker(w), OneFaultAtATime PROVE Noticed
  BY <1>1, <1>9, FailMarkerUnnoticed, UnnoticedIs
<1> QED
  BY <1>2, <1>3, <1>4, <1>6, <1>7, <1>8, <1>9 DEF Next

(* Unless somebody edits the outputs, what the files hold and what the     *)
(* processes know of them agrees in every execution. *)
THEOREM VersionsInvariant == ASSUME MaxEdits = 0 PROVE SingleFaults => []VInv
<1>1. Init => VInv
  BY VInit
<1>2. VInv /\ [Next]_vars /\ [OneFaultAtATime]_vars => VInv'
  BY VNext, NoEdits DEF Noticed
<1> QED
  BY <1>1, <1>2, PTL DEF SingleFaults, Spec

(* OutputStaysPublic: an output that a reader may rely on is there,        *)
(* whichever run is interrupted in the middle of replacing it. *)
THEOREM OutputsStayPublic == ASSUME MaxEdits = 0 PROVE SingleFaults => []OutputStaysPublic
<1>1. VInv => OutputStaysPublic
  BY LogicalIs DEF VInv, OutputStaysPublic, Shown
<1> QED
  BY <1>1, VersionsInvariant, PTL

(* JournalIsCoherent: recovery never meets sidecars that contradict each   *)
(* other, misses no backup and finds none it did not expect. *)
THEOREM JournalStaysCoherent == ASSUME MaxEdits = 0 PROVE SingleFaults => []JournalIsCoherent
<1>1. VInv => JournalIsCoherent
  BY DEF VInv, JInv, Fine, Quiet, JournalIsCoherent
<1> QED
  BY <1>1, VersionsInvariant, PTL

(* PairIsAtomic: the publication of a pair, with its backups, indexes and  *)
(* markers, with crashes, recovery and runs that share an output,          *)
(* implements AtomicPairs. *)
THEOREM PairsAreAtomic == ASSUME MaxEdits = 0 PROVE SingleFaults => PairIsAtomic
<1>1. Init => Abstract!Init
  <2> SUFFICES ASSUME Init PROVE Abstract!Init
    OBVIOUS
  <2>1. \A o \in Outputs : Logical(o) = dest[o]
    BY DEF Init, Logical
  <2>2. \A o \in Outputs : dest[o] \in {0, 1}
    BY BoundsAssumption DEF Init, Absent
  <2> QED
    BY <2>1, <2>2 DEF Abstract!Init, LogicalValue
<1>2. VInv /\ [Next]_vars /\ [OneFaultAtATime]_vars => [Abstract!Next]_LogicalValue
  BY VNext, NoEdits DEF Noticed
<1> QED
  BY <1>1, <1>2, VersionsInvariant, PTL DEF SingleFaults, Spec, PairIsAtomic, Abstract!Spec

(* A run that leaves recovery, or is done, has left nothing of its journal. *)
LEMMA CleanAt ==
  ASSUME VInv, NEW w \in Procs, proc[w].pc \in {"p_leave", "c_done"}
  PROVE  /\ ~Sidecars(Pair(w))
         /\ proc[w].pc = "c_done" => \A o \in OutputsOf(Pair(w)) : dest[o] = proc[w].txn
<1>1. Choice(w) /\ OwnIndexes(w) /\ OwnBackups(w) /\ Local(w) /\ Holds(w)
  BY DEF VInv, JInv, IInv, Knows
<1>2. \A k \in Kinds : marker[Pair(w)][k] = None
  <2>1. CASE proc[w].pc = "p_leave"
    <3>1. proc[w].pc \in NoActive \cap NoCommitted \cap NoRollback
      BY <2>1 DEF NoActive, NoCommitted, NoRollback, Unmarked
    <3> QED
      BY <1>1, <3>1 DEF Local, OwnMarks, Kinds
  <2>2. CASE proc[w].pc = "c_done"
    <3>1. proc[w].pc \in Inactive \cap Uncommitted \cap NotReverted
      BY <2>2 DEF Inactive, Uncommitted, NotReverted
    <3> QED
      BY <1>1, <3>1 DEF Choice, Kinds
  <2> QED
    BY <2>1, <2>2
<1>3. proc[w].pc \in ClearS \cap ClearR \cap GoneS \cap GoneR
  BY DEF ClearS, ClearR, Unindexed, PairCleanup, GoneS, GoneR
<1>4. \A o \in OutputsOf(Pair(w)) : index[o] = None
  BY <1>1, <1>3 DEF OwnIndexes, OutputsOf
<1>5. \A k \in Roles : backup[Pair(w)][k] = Absent
  BY <1>1, <1>3 DEF OwnBackups, Roles
<1>6. proc[w].pc = "c_done" => \A o \in OutputsOf(Pair(w)) : dest[o] = proc[w].txn
  BY <1>1 DEF Holds, PutS, PutR, OutputsOf
<1> QED
  BY <1>2, <1>4, <1>5, <1>6 DEF Sidecars

(* RunEndsClean: a run leaves recovery, and ends with success, with        *)
(* nothing left of its pair's journal; after success both outputs hold     *)
(* what it staged. *)
THEOREM RunsEndClean == ASSUME MaxEdits = 0 PROVE SingleFaults => RunEndsClean
<1> DEFINE Clean ==
      \A w \in Procs :
        /\ At(w, "p_leave") /\ ~At(w, "p_leave")' /\ proc'[w].why = "none" /\ proc'[w].pc # "idle"
             => ~Sidecars(Pair(w))
        /\ At(w, "c_done") /\ proc'[w].why = "none" /\ left.crashes = left'.crashes
             => /\ ~Sidecars(Pair(w))
                /\ \A o \in OutputsOf(Pair(w)) : dest[o] = proc[w].txn
<1>1. VInv => Clean
  BY CleanAt DEF At
<1>2. VInv /\ [Next]_vars => [Clean]_vars
  BY <1>1
<1>3. SingleFaults => [][Clean]_vars
  <2> HIDE DEF Clean
  <2> QED
    BY <1>2, VersionsInvariant, PTL DEF SingleFaults, Spec
<1> QED
  BY <1>3 DEF RunEndsClean

-----------------------------------------------------------------------------
(* After an edit.  One output is then not what a process captured, and the *)
(* transaction that finds out leaves it as it is.                          *)

AbortPath == {"c_link", "c_retire", "c_done"} \cup CommitDone

Preserved(w) == \E k \in Roles : dest[Output(Pair(w), k)] \notin {proc[w].txn, proc[w].seen[k]}

(* A report that is not replaced yet is not what w staged; a run that      *)
(* gives up only takes away sidecars, and preserves an output.             *)
Gave(w) ==
  /\ proc[w].pc \in {"verifyR", "putR"} => dest[ReportOf[Pair(w)]] # proc[w].txn
  /\ proc[w].aborting => proc[w].pc \in AbortPath
  /\ proc[w].aborting /\ proc[w].why # "unread" => Preserved(w)

Late ==
  /\ IInv
  /\ left.edits = 0
  /\ Stamped
  /\ \A w \in Procs : Fresh(w) /\ Gave(w)

(* Before the one edit, VInv holds. *)
AInv == VInv \/ Late

(* Only outputs of w's own pair change, and only while w holds their locks. *)
Framed(w) ==
  /\ dest' = dest \/ proc[w].pc \in Locked
  /\ \A o \in Outputs : o \notin OutputsOf(Pair(w)) => dest'[o] = dest[o]

(* The step of w goes on at `there', or ends the run, and copies versions. *)
Works(w, there) ==
  /\ Goto(w, there) \/ \E reason : Fail(w, reason)
  /\ Copying(w) /\ Framed(w) /\ clock' = clock /\ left'.edits = left.edits

(* What another process gave up, or did not replace, stays. *)
LEMMA OthersGave ==
  ASSUME IInv, NEW w \in Procs, Framed(w), NEW v \in Procs \ {w}, proc'[v] = proc[v], Gave(v)
  PROVE  Gave(v)'
<1>1. CASE dest' = dest
  BY <1>1 DEF Gave, Preserved, Pair
<1>2. CASE proc[v].pc \notin Locked
  <2>1. proc[v].pc \notin {"verifyR", "putR"} \cup AbortPath
    BY <1>2 DEF AbortPath, CommitDone, Locked, Publishing, Deciding
  <2> QED
    BY <2>1 DEF Gave
<1>3. CASE proc[v].pc \in Locked /\ proc[w].pc \in Locked
  <2>1. OutputsOf(Pair(v)) \cap OutputsOf(Pair(w)) = {} /\ Pair(v) \in Pairs
    BY <1>3, Disjoint, LockedPair DEF IInv
  <2>2. \A o \in OutputsOf(Pair(v)) : dest'[o] = dest[o]
    BY <2>1, PairOutputs DEF Framed
  <2>3. /\ ReportOf[Pair(v)] \in OutputsOf(Pair(v))
        /\ \A k \in Roles : Output(Pair(v), k) \in OutputsOf(Pair(v))
    BY <2>1, PairOutputs
  <2>4. Preserved(v) => Preserved(v)'
    BY <2>2, <2>3 DEF Preserved, Pair
  <2> QED
    BY <2>2, <2>3, <2>4 DEF Gave, Pair
<1> QED
  BY <1>1, <1>2, <1>3 DEF Framed

(* The invariant holds again. *)
LEMMA LateStep ==
  ASSUME Late, IInv', NEW w \in Procs, Copying(w), Proceeds(w), Framed(w), left'.edits = 0, Gave(w)'
  PROVE  Late'
<1>1. TypeOK /\ TypeOK' /\ Stamped /\ \A v \in Procs : Fresh(v)
  BY DEF Late, IInv
<1>2. Stamped' /\ \A v \in Procs : Fresh(v)'
  BY <1>1, FreshStep
<1>3. ASSUME NEW v \in Procs \ {w} PROVE Gave(v)'
  BY OthersGave DEF Late, Proceeds
<1> QED
  BY <1>2, <1>3 DEF Late

(* w remembers something else, or begins, stops or crashes. *)
LEMMA LateBecomes ==
  ASSUME Late, IInv', NEW w \in Procs, NEW s, proc' = [proc EXCEPT ![w] = s], ~s.aborting,
         s.pc \notin {"verifyR", "putR"},
         s.pc \in Owning => s.txn # 0,
         s.pc \in Unput /\ s.txn # 0 => proc[w].pc \in Unput \ {"putS"},
         s.txn \in {proc[w].txn, 0},
         \A k \in Roles : \/ s.seen[k] \in {proc[w].seen[k], Absent}
                          \/ proc[w].pc \in Unput /\ \E o \in Outputs : s.seen[k] = dest[o],
         Copying(w), Framed(w), clock' = clock, left'.edits = 0
  PROVE  Late'
<1>1. proc \in [Procs -> ProcState]
  BY DEF Late, IInv, TypeOK
<1>2. proc'[w] = s /\ \A v \in Procs \ {w} : proc'[v] = proc[v]
  BY <1>1
<1>3. Proceeds(w)
  BY <1>2 DEF Proceeds
<1>4. Gave(w)'
  BY <1>2 DEF Gave
<1> QED
  BY <1>3, <1>4, LateStep

(* w returns an error. *)
LEMMA LateFail ==
  ASSUME Late, IInv', NEW w \in Procs, NEW reason, Fail(w, reason), Copying(w), Framed(w),
         clock' = clock, left'.edits = 0
  PROVE  Late'
<1>1. PICK s : s = [IdleProc EXCEPT !.pc = "failed", !.pair = proc[w].pair, !.txn = proc[w].txn, !.why = reason]
  OBVIOUS
<1>2. s.pc = "failed" /\ s.txn = proc[w].txn /\ s.seen = IdleProc.seen /\ ~s.aborting
  BY <1>1 DEF IdleProc
<1>3. proc' = [proc EXCEPT ![w] = s]
  BY <1>1 DEF Fail
<1>4. s.pc \notin Owning \cup Unput \cup {"verifyR", "putR"}
  BY <1>2 DEF Owning, Publishing, Unwinding, Deciding, Unput, BeforePut, Recovering, PairCleanup
<1>5. \A k \in Roles : s.seen[k] = Absent
  BY <1>2 DEF IdleProc
<1> QED
  BY <1>2, <1>3, <1>4, <1>5, LateBecomes

(* w is done, or gone. *)
LEMMA LateIdles ==
  ASSUME Late, IInv', NEW w \in Procs, proc' = [proc EXCEPT ![w] = IdleProc], Copying(w), Framed(w),
         clock' = clock, left'.edits = 0
  PROVE  Late'
<1>1. PICK s : s = IdleProc
  OBVIOUS
<1>2. s.pc = "idle" /\ s.txn = 0 /\ ~s.aborting /\ \A k \in Roles : s.seen[k] = Absent
  BY <1>1 DEF IdleProc
<1>3. s.pc \notin Owning \cup {"verifyR", "putR"}
  BY <1>2 DEF Owning, Publishing, Unwinding, Deciding
<1> QED
  BY <1>1, <1>2, <1>3, LateBecomes

(* w goes on, and has not given up. *)
LEMMA LateGoto ==
  ASSUME Late, IInv', NEW w \in Procs, NEW there, there \notin {"verifyR", "putR"}, Goto(w, there),
         Copying(w), Framed(w), clock' = clock, left'.edits = 0, proc[w].pc \notin AbortPath,
         there \in Owning => proc[w].pc \in Owning \/ proc[w].txn # 0,
         there \in Unput => proc[w].pc \in Unput \ {"putS"}
  PROVE  Late'
<1>1. PICK s : s = [proc[w] EXCEPT !.pc = there]
  OBVIOUS
<1>2. proc[w] \in ProcState /\ Fresh(w) /\ ~proc[w].aborting
  BY DEF Late, IInv, TypeOK, Gave
<1>3. /\ s.pc = there /\ s.txn = proc[w].txn /\ s.seen = proc[w].seen /\ ~s.aborting
      /\ proc' = [proc EXCEPT ![w] = s]
  BY <1>1, <1>2 DEF Goto, ProcState
<1>4. s.pc \in Owning => s.txn # 0
  BY <1>2, <1>3 DEF Fresh
<1> QED
  BY <1>3, <1>4, LateBecomes

(* The two together. *)
LEMMA LateWorks ==
  ASSUME Late, IInv', NEW w \in Procs, NEW here, At(w, here), NEW there, Works(w, there),
         Track(here, there), here \notin AbortPath, there \notin {"verifyR", "putR"}
  PROVE  Late'
<1>1. Copying(w) /\ Framed(w) /\ clock' = clock /\ left'.edits = 0 /\ proc[w].pc = here
  BY DEF Works, Late, At
<1>2. CASE Goto(w, there)
  BY <1>1, <1>2, LateGoto DEF Track
<1>3. ASSUME NEW reason, Fail(w, reason) PROVE Late'
  BY <1>1, <1>3, LateFail
<1> QED
  BY <1>2, <1>3 DEF Works

(* ... where a run may have given up, and no output changes. *)
LEMMA LateCleans ==
  ASSUME Late, IInv', NEW w \in Procs, proc[w].pc \in AbortPath, NEW there \in AbortPath, Works(w, there),
         dest' = dest
  PROVE  Late'
<1>1. Copying(w) /\ Framed(w) /\ clock' = clock /\ left'.edits = 0
  BY DEF Works, Late
<1>2. CASE Goto(w, there)
  <2>1. PICK s : s = [proc[w] EXCEPT !.pc = there]
    OBVIOUS
  <2>2. proc[w] \in ProcState /\ Fresh(w) /\ Gave(w) /\ proc \in [Procs -> ProcState]
    BY DEF Late, IInv, TypeOK
  <2>3. /\ s.pc = there /\ s.txn = proc[w].txn /\ s.seen = proc[w].seen /\ s.aborting = proc[w].aborting
        /\ s.why = proc[w].why /\ s.pair = proc[w].pair /\ proc' = [proc EXCEPT ![w] = s]
    BY <1>2, <2>1, <2>2 DEF Goto, ProcState
  <2>4. proc'[w] = s /\ \A v \in Procs \ {w} : proc'[v] = proc[v]
    BY <2>2, <2>3
  <2>5. proc[w].pc \in Owning /\ there \notin Unput \cup {"verifyR", "putR"}
    BY DEF AbortPath, CommitDone, Owning, Deciding, Unput, BeforePut, Recovering, PairCleanup
  <2>6. Proceeds(w)
    BY <1>1, <2>2, <2>3, <2>4, <2>5 DEF Proceeds, Fresh
  <2>7. Gave(w)'
    BY <2>2, <2>3, <2>4, <2>5 DEF Gave, Preserved, Pair
  <2> QED
    BY <1>1, <2>6, <2>7, LateStep
<1>3. ASSUME NEW reason, Fail(w, reason) PROVE Late'
  BY <1>1, <1>3, LateFail
<1> QED
  BY <1>2, <1>3 DEF Works

-----------------------------------------------------------------------------
(* The file operations copy versions, and change outputs of the own pair.  *)

(* One backup becomes a version there is. *)
LEMMA BackupCopied ==
  ASSUME TypeOK, NEW w \in Procs, NEW q \in Pairs, NEW k \in Roles, NEW v \in Present(w),
         backup' = [backup EXCEPT ![q][k] = v], dest' = dest
  PROVE  Copying(w) /\ Framed(w)
<1>1. \A p \in Pairs, j \in Roles : backup'[p][j] = IF p = q /\ j = k THEN v ELSE backup[p][j]
  BY DEF TypeOK
<1> QED
  BY <1>1 DEF Copying, Present, Framed

(* A backup goes. *)
LEMMA BackupDropped ==
  ASSUME TypeOK, NEW w \in Procs, NEW q \in Pairs, NEW k \in Roles,
         backup' = [backup EXCEPT ![q][k] = Absent], dest' = dest
  PROVE  Copying(w) /\ Framed(w)
<1>1. \A p \in Pairs, j \in Roles : backup'[p][j] = IF p = q /\ j = k THEN Absent ELSE backup[p][j]
  BY DEF TypeOK
<1> QED
  BY <1>1 DEF Copying, Present, Framed

(* An output becomes a version there is. *)
LEMMA OutputCopied ==
  ASSUME TypeOK, NEW w \in Procs, proc[w].pc \in Locked, NEW x \in OutputsOf(Pair(w)), NEW v \in Present(w),
         dest' = [dest EXCEPT ![x] = v], backup' = backup
  PROVE  Copying(w) /\ Framed(w) /\ \A o \in Outputs \ {x} : dest'[o] = dest[o]
<1>1. \A o \in Outputs : dest'[o] = IF o = x THEN v ELSE dest[o]
  BY DEF TypeOK
<1> QED
  BY <1>1 DEF Copying, Present, Framed

(* Neither outputs nor backups change. *)
LEMMA NothingCopied ==
  ASSUME NEW w \in Procs, UNCHANGED <<dest, backup>>
  PROVE  Copying(w) /\ Framed(w)
BY DEF Copying, Present, Framed

(* Operations on markers and indexes. *)
LEMMA MarkerWorks ==
  ASSUME NEW w \in Procs, NEW here, NEW q, NEW kind, NEW there,
         \/ LinkMarker(w, here, q, kind, there)
         \/ RetireActive(w, here, q, kind, there)
         \/ RemoveMarker(w, here, q, kind, there)
         \/ DropIndex(w, here, q, there)
  PROVE  At(w, here) /\ Works(w, there) /\ dest' = dest
<1>1. UNCHANGED <<dest, backup, clock, left>> /\ At(w, here)
  BY DEF LinkMarker, RetireActive, RemoveMarker, DropIndex
<1>2. Goto(w, there) \/ \E reason : Fail(w, reason)
  BY DEF LinkMarker, RetireActive, RemoveMarker, DropIndex
<1> QED
  BY <1>1, <1>2, NothingCopied DEF Works

(* Operations on backups. *)
LEMMA BackupWorks ==
  ASSUME TypeOK, NEW w \in Procs, NEW here, NEW q \in Pairs, NEW k \in Roles, NEW prev, NEW why, NEW there,
         \/ DropBackup(w, here, q, k, there)
         \/ DropOwnBackup(w, here, q, k, prev, there)
         \/ DropStaleBackup(w, here, q, k, why, there)
  PROVE  At(w, here) /\ Works(w, there) /\ dest' = dest
<1>1. UNCHANGED <<dest, clock, left>> /\ At(w, here)
  BY DEF DropBackup, DropOwnBackup, DropStaleBackup
<1>2. Goto(w, there) \/ \E reason : Fail(w, reason)
  BY DEF DropBackup, DropOwnBackup, DropStaleBackup
<1>3. UNCHANGED backup \/ backup' = [backup EXCEPT ![q][k] = Absent]
  BY DEF DropBackup, DropOwnBackup, DropStaleBackup
<1>4. CASE UNCHANGED backup
  BY <1>1, <1>2, <1>4, NothingCopied DEF Works
<1>5. CASE backup' = [backup EXCEPT ![q][k] = Absent]
  <2>1. dest' = dest
    BY <1>1
  <2>2. Copying(w) /\ Framed(w)
    BY <1>5, <2>1, BackupDropped
  <2> QED
    BY <1>1, <1>2, <2>2 DEF Works
<1> QED
  BY <1>3, <1>4, <1>5

(* An output is restored. *)
LEMMA RestoreWorks ==
  ASSUME TypeOK, NEW w \in Procs, NEW here \in Locked, NEW q \in Pairs, NEW k \in Roles, NEW prev, NEW there,
         Output(q, k) \in OutputsOf(Pair(w)), Restore(w, here, q, k, prev, there)
  PROVE  At(w, here) /\ Works(w, there)
<1>1. UNCHANGED <<backup, clock, left>> /\ At(w, here)
  BY DEF Restore
<1>2. Goto(w, there) \/ \E reason : Fail(w, reason)
  BY DEF Restore
<1>3. UNCHANGED dest \/ dest' = [dest EXCEPT ![Output(q, k)] = backup[q][k]]
  BY DEF Restore
<1>4. backup[q][k] \in Present(w)
  BY DEF Present
<1>5. Copying(w) /\ Framed(w)
  BY <1>1, <1>3, <1>4, OutputCopied, NothingCopied DEF At
<1> QED
  BY <1>1, <1>2, <1>5 DEF Works

(* Recovery goes on in recovery. *)
LEMMA RecoveryGoesOn ==
  ASSUME NEW here \in Recovering \cup PairCleanup, NEW there \in Recovering \cup PairCleanup
  PROVE  /\ here \in Locked /\ here \notin AbortPath /\ there \notin {"verifyR", "putR"}
         /\ Track(here, there)
BY DEF Recovering, PairCleanup, Locked, AbortPath, CommitDone, Track, Owning, Publishing, Unwinding,
       Deciding, Unput

(* The names of the pair and the output an index led to. *)
LEMMA IndexLeads ==
  ASSUME IInv, NEW w \in Procs, proc[w].pc \in WithIndex
  PROVE  /\ IdxPair(w) \in Pairs /\ IdxRole(w) \in Roles
         /\ Output(IdxPair(w), IdxRole(w)) \in OutputsOf(Pair(w))
<1>1. proc[w].idx \in Index /\ ThisOutput(w) \in OutputsOf(IdxPair(w))
  BY DEF IInv, Local, IndexRead
<1>2. IdxPair(w) \in Pairs /\ IdxRole(w) \in Roles
  BY <1>1 DEF IdxPair, Index, IdxRole, RoleIn, Roles
<1>3. Output(IdxPair(w), IdxRole(w)) = ThisOutput(w)
  BY <1>1 DEF IdxRole, RoleIn, Output, OutputsOf
<1>4. ThisOutput(w) \in OutputsOf(Pair(w))
  BY DEF ThisOutput, Output, OutputsOf
<1> QED
  BY <1>2, <1>3, <1>4

-----------------------------------------------------------------------------
(* Recovery after an edit.                                                 *)

(* w remembers something of what it read. *)
LEMMA LateLooks ==
  ASSUME Late, IInv', NEW w \in Procs, proc[w].pc \in Recovering \cup PairCleanup,
         NEW s, proc' = [proc EXCEPT ![w] = s], s.pc \in Recovering \cup PairCleanup,
         s.txn = proc[w].txn, s.seen = proc[w].seen, s.aborting = proc[w].aborting,
         UNCHANGED <<files, clock, left>>
  PROVE  Late'
<1>1. /\ proc[w].pc \notin AbortPath /\ s.pc \notin {"verifyR", "putR"} \cup Owning
      /\ proc[w].pc \in Unput \ {"putS"}
  BY DEF Recovering, PairCleanup, AbortPath, CommitDone, Owning, Publishing, Unwinding, Deciding, Unput
<1>2. ~s.aborting
  BY <1>1 DEF Late, Gave
<1>3. Copying(w) /\ Framed(w) /\ clock' = clock /\ left'.edits = 0
  BY NothingCopied DEF files, Late
<1> QED
  BY <1>1, <1>2, <1>3, LateBecomes

(* ... or fails, or goes on. *)
LEMMA LateTurns ==
  ASSUME Late, IInv', NEW w \in Procs, NEW here \in Recovering \cup PairCleanup, At(w, here),
         NEW there \in Recovering \cup PairCleanup, Goto(w, there) \/ \E reason : Fail(w, reason),
         UNCHANGED <<files, clock, left>>
  PROVE  Late'
<1>1. Copying(w) /\ Framed(w) /\ clock' = clock /\ left'.edits = left.edits
  BY NothingCopied DEF files
<1>2. Works(w, there)
  BY <1>1 DEF Works
<1> QED
  BY <1>2, RecoveryGoesOn, LateWorks

(* One output is recovered: w turns to the next. *)
LEMMA LateLeaves ==
  ASSUME Late, IInv', NEW w \in Procs, proc[w].pc \in Recovering, LeaveDestination(w),
         UNCHANGED <<files, clock, left>>
  PROVE  Late'
<1>1. PICK s : s = [proc[w] EXCEPT !.pc = IF proc[w].role = "summary" THEN "readIndex" ELSE "classify",
                                   !.role = "report", !.idx = None, !.marks = NoMarks]
  OBVIOUS
<1>2. proc[w] \in ProcState
  BY DEF Late, IInv, TypeOK
<1>3. /\ s.pc \in {"readIndex", "classify"} /\ s.txn = proc[w].txn /\ s.seen = proc[w].seen
      /\ s.aborting = proc[w].aborting
  BY <1>1, <1>2 DEF ProcState
<1>4. proc' = [proc EXCEPT ![w] = s]
  BY <1>1 DEF LeaveDestination
<1>5. s.pc \in Recovering \cup PairCleanup
  BY <1>3 DEF Recovering, PairCleanup
<1> QED
  BY <1>3, <1>4, <1>5, LateLooks

(* An index is read. *)
LEMMA LateReadIndex ==
  ASSUME Late, IInv', NEW w \in Procs, ReadIndex(w)
  PROVE  Late'
<1>1. proc[w].pc = "readIndex" /\ UNCHANGED <<files, clock, left>>
  BY DEF ReadIndex, At
<1>2. {"readIndex", "readActive"} \subseteq Recovering
  BY DEF Recovering
<1>3. CASE LeaveDestination(w)
  BY <1>1, <1>2, <1>3, LateLeaves
<1>4. CASE Fail(w, "unsafeIndex")
  BY <1>1, <1>2, <1>4, LateTurns DEF At
<1>5. CASE proc' = [proc EXCEPT ![w].pc = "readActive", ![w].idx = index[ThisOutput(w)]]
  <2>1. PICK i : i = index[ThisOutput(w)]
    OBVIOUS
  <2>2. PICK s : s = [proc[w] EXCEPT !.pc = "readActive", !.idx = i]
    OBVIOUS
  <2>3. proc[w] \in ProcState /\ proc \in [Procs -> ProcState]
    BY DEF Late, IInv, TypeOK
  <2>4. /\ s.pc = "readActive" /\ s.txn = proc[w].txn /\ s.seen = proc[w].seen
        /\ s.aborting = proc[w].aborting /\ proc' = [proc EXCEPT ![w] = s]
    BY <1>5, <2>1, <2>2, <2>3 DEF ProcState
  <2> QED
    BY <1>1, <1>2, <2>4, LateLooks
<1> QED
  BY <1>3, <1>4, <1>5 DEF ReadIndex

(* A marker is read. *)
LEMMA LateReadMarker ==
  ASSUME Late, IInv', NEW w \in Procs, NEW here \in Recovering, NEW kind, NEW there \in Recovering,
         ReadMarker(w, here, kind, there)
  PROVE  Late'
<1>1. proc[w].pc = here /\ UNCHANGED <<files, clock, left>>
  BY DEF ReadMarker, At
<1>2. CASE Fail(w, "unsafeMarker")
  BY <1>1, <1>2, LateTurns DEF At
<1>3. CASE proc' = [proc EXCEPT ![w].pc = there, ![w].marks = [@ EXCEPT ![kind] = marker[IdxPair(w)][kind]]]
  <2>1. PICK m : m = marker[IdxPair(w)][kind]
    OBVIOUS
  <2>2. PICK s : s = [proc[w] EXCEPT !.pc = there, !.marks = [@ EXCEPT ![kind] = m]]
    OBVIOUS
  <2>3. proc[w] \in ProcState /\ proc \in [Procs -> ProcState]
    BY DEF Late, IInv, TypeOK
  <2>4. /\ s.pc = there /\ s.txn = proc[w].txn /\ s.seen = proc[w].seen
        /\ s.aborting = proc[w].aborting
    BY <2>2, <2>3 DEF ProcState
  <2>5. proc' = [proc EXCEPT ![w] = s]
    BY <1>3, <2>1, <2>2, <2>3 DEF ProcState
  <2> QED
    BY <1>1, <2>4, <2>5, LateLooks
<1> QED
  BY <1>2, <1>3 DEF ReadMarker

(* What the markers say is compared, and a peer is looked for. *)
LEMMA LateDecides ==
  ASSUME Late, IInv', NEW w \in Procs, Decide(w) \/ CheckPeer(w)
  PROVE  Late'
<1>1. CASE Decide(w)
  <2>1. At(w, "decide") /\ UNCHANGED <<files, clock, left>>
    BY <1>1 DEF Decide
  <2>2. PICK there : there = DestinationPlan(proc[w].marks)
    OBVIOUS
  <2>3. there \in {"d_link", "d_restore", "d_keep", "d_sweep"}
    BY <2>2 DEF DestinationPlan
  <2>4. {"decide", "d_link", "d_restore", "d_keep", "d_sweep"} \subseteq Recovering
    BY DEF Recovering
  <2>5. Goto(w, there) \/ \E reason : Fail(w, reason)
    BY <1>1, <2>2 DEF Decide
  <2> QED
    BY <2>1, <2>3, <2>4, <2>5, LateTurns
<1>2. CASE CheckPeer(w)
  <2>1. At(w, "d_peer") /\ UNCHANGED <<files, clock, left>>
    BY <1>2 DEF CheckPeer
  <2>2. {"d_peer", "d_leave", "d_rmActive"} \subseteq Recovering
    BY DEF Recovering
  <2>3. Goto(w, "d_leave") \/ Goto(w, "d_rmActive") \/ \E reason : Fail(w, reason)
    BY <1>2 DEF CheckPeer
  <2> QED
    BY <2>1, <2>2, <2>3, LateTurns
<1> QED
  BY <1>1, <1>2

(* Recovery by an index. *)
LEMMA LateRollsBackDestination ==
  ASSUME Late, IInv', NEW w \in Procs, RollBackDestination(w) \/ KeepDestination(w) \/ RetireMarkers(w)
  PROVE  Late'
<1>1. PICK here \in Recovering \ {"readIndex"} : At(w, here)
  BY DEF RollBackDestination, KeepDestination, RetireMarkers, LinkMarker, RetireActive, Restore,
         DropIndex, DropBackup, DropOwnBackup, DropStaleBackup, RemoveMarker, Recovering
<1>2. IInv /\ TypeOK /\ proc[w].pc \in WithIndex
  BY <1>1 DEF Late, IInv, WithIndex, At
<1>3. PICK q \in Pairs, k \in Roles : q = IdxPair(w) /\ k = IdxRole(w) /\ Output(q, k) \in OutputsOf(Pair(w))
  BY <1>2, IndexLeads
<1>4. PICK o : o = ThisOutput(w)
  OBVIOUS
<1>5. PICK there \in Recovering : Works(w, there)
  <2>1. {"d_link", "d_retire", "d_restore", "d_dropIndex", "d_dropBackup", "d_peer", "d_keep", "d_sweep",
         "d_forget", "d_rmActive", "d_rmCommitted", "d_rmRollback", "d_leave"} \subseteq Recovering
    BY DEF Recovering
  <2>2. "d_restore" \in Locked
    BY <2>1 DEF Locked
  <2>3. CASE \/ LinkMarker(w, "d_link", q, "rollback", "d_retire")
             \/ RetireActive(w, "d_retire", q, "rollback", "d_restore")
             \/ DropIndex(w, "d_dropIndex", o, "d_dropBackup")
             \/ DropIndex(w, "d_forget", o, "d_peer")
             \/ RemoveMarker(w, "d_rmActive", q, "active", "d_rmCommitted")
             \/ RemoveMarker(w, "d_rmCommitted", q, "committed", "d_rmRollback")
             \/ RemoveMarker(w, "d_rmRollback", q, "rollback", "d_leave")
    BY <2>1, <2>3, MarkerWorks
  <2>4. CASE \/ DropBackup(w, "d_dropBackup", q, k, "d_peer")
             \/ DropOwnBackup(w, "d_keep", q, k, proc[w].idx.prev, "d_forget")
             \/ DropStaleBackup(w, "d_sweep", q, k, "uncommittedBackup", "d_forget")
    BY <1>2, <2>1, <2>4, BackupWorks
  <2>5. CASE Restore(w, "d_restore", q, k, proc[w].idx.prev, "d_dropIndex")
    BY <1>2, <1>3, <2>1, <2>2, <2>5, RestoreWorks
  <2> QED
    BY <1>3, <1>4, <2>3, <2>4, <2>5 DEF RollBackDestination, KeepDestination, RetireMarkers
<1> QED
  BY <1>1, <1>5, RecoveryGoesOn, LateWorks

(* recover_destination. *)
LEMMA LateRecoversDestination ==
  ASSUME Late, IInv', NEW w \in Procs, RecoverDestination(w)
  PROVE  Late'
<1>1. {"readActive", "readCommitted", "readRollback", "decide", "d_leave"} \subseteq Recovering
  BY DEF Recovering
<1>2. CASE \/ ReadMarker(w, "readActive", "active", "readCommitted")
           \/ ReadMarker(w, "readCommitted", "committed", "readRollback")
           \/ ReadMarker(w, "readRollback", "rollback", "decide")
  BY <1>1, <1>2, LateReadMarker
<1>3. CASE NextDestination(w)
  BY <1>1, <1>3, LateLeaves DEF NextDestination, At
<1> QED
  BY <1>2, <1>3, LateReadIndex, LateDecides, LateRollsBackDestination DEF RecoverDestination

(* The markers of the pair decide how its own transaction is recovered. *)
LEMMA LateClassifies ==
  ASSUME Late, IInv', NEW w \in Procs, Classify(w)
  PROVE  Late'
<1>1. At(w, "classify") /\ UNCHANGED <<files, clock, left>>
  BY DEF Classify
<1>2. PICK there : there = PairPlan(marker[Pair(w)])
  OBVIOUS
<1>3. there \in {"pr_dropS", "pa_check", "pc_dropS", "pu_dropS"}
  BY <1>2 DEF PairPlan
<1>4. {"classify", "pr_dropS", "pa_check", "pc_dropS", "pu_dropS"} \subseteq PairCleanup
  BY DEF PairCleanup
<1>5. Goto(w, there) \/ \E reason : Fail(w, reason)
  BY <1>2 DEF Classify
<1> QED
  BY <1>1, <1>3, <1>4, <1>5, LateTurns

(* ... which takes sidecars away. *)
LEMMA LateForgets ==
  ASSUME Late, IInv', NEW w \in Procs, ForgetRolledBack(w) \/ ForgetCommitted(w) \/ SweepUnmarked(w)
  PROVE  Late'
<1>1. {"pr_dropS", "pr_dropR", "pr_rmActive", "pr_rmRollback", "pc_dropS", "pc_dropR", "pc_rmActive",
       "pc_rmCommitted", "pu_dropS", "pu_dropR", "p_leave"} \subseteq PairCleanup
  BY DEF PairCleanup
<1>2. PICK here \in PairCleanup : At(w, here)
  BY <1>1 DEF ForgetRolledBack, ForgetCommitted, SweepUnmarked, DropBackup, DropOwnBackup, DropStaleBackup,
            RemoveMarker
<1>3. PICK q \in Pairs : q = Pair(w)
  BY <1>2, LockedPair DEF Late, IInv, Locked, At
<1>4. TypeOK /\ "summary" \in Roles /\ "report" \in Roles
  BY DEF Late, IInv, Roles
<1>5. PICK prev : prev = marker[q]["committed"].prev
  OBVIOUS
<1>6. PICK there \in PairCleanup : Works(w, there)
  <2>1. CASE \/ RemoveMarker(w, "pr_rmActive", q, "active", "pr_rmRollback")
             \/ RemoveMarker(w, "pr_rmRollback", q, "rollback", "p_leave")
             \/ RemoveMarker(w, "pc_rmActive", q, "active", "pc_rmCommitted")
             \/ RemoveMarker(w, "pc_rmCommitted", q, "committed", "p_leave")
    BY <1>1, <2>1, MarkerWorks
  <2>2. CASE \/ DropBackup(w, "pr_dropS", q, "summary", "pr_dropR")
             \/ DropBackup(w, "pr_dropR", q, "report", "pr_rmActive")
             \/ DropOwnBackup(w, "pc_dropS", q, "summary", prev["summary"], "pc_dropR")
             \/ DropOwnBackup(w, "pc_dropR", q, "report", prev["report"], "pc_rmActive")
             \/ DropStaleBackup(w, "pu_dropS", q, "summary", "unownedBackup", "pu_dropR")
             \/ DropStaleBackup(w, "pu_dropR", q, "report", "unownedBackup", "p_leave")
    BY <1>1, <1>4, <2>2, BackupWorks
  <2> QED
    BY <1>3, <1>5, <2>1, <2>2 DEF ForgetRolledBack, ForgetCommitted, SweepUnmarked
<1> QED
  BY <1>2, <1>6, RecoveryGoesOn, LateWorks

(* ... or restores both outputs. *)
LEMMA LateRestoresMarked ==
  ASSUME Late, IInv', NEW w \in Procs, RestoreMarked(w)
  PROVE  Late'
<1>1. {"pa_check", "pa_restoreS", "pa_restoreR", "pa_rmActive", "pa_dropS", "pa_dropR", "p_leave"}
        \subseteq PairCleanup
  BY DEF PairCleanup
<1>2. PICK here \in PairCleanup : At(w, here)
  BY <1>1 DEF RestoreMarked, Restore, DropBackup, RemoveMarker
<1>3. PICK q \in Pairs : q = Pair(w) /\ \A k \in Roles : Output(q, k) \in OutputsOf(Pair(w))
  BY <1>2, LockedPair, PairOutputs DEF Late, IInv, Locked, At
<1>4. TypeOK /\ "summary" \in Roles /\ "report" \in Roles
  BY DEF Late, IInv, Roles
<1>5. PICK prev : prev = marker[q]["active"].prev
  OBVIOUS
<1>6. CASE /\ At(w, "pa_check") /\ UNCHANGED <<files, clock, left>>
           /\ Goto(w, "pa_restoreS") \/ \E reason : Fail(w, reason)
  BY <1>1, <1>6, LateTurns
<1>7. CASE \/ Restore(w, "pa_restoreS", q, "summary", prev["summary"], "pa_restoreR")
           \/ Restore(w, "pa_restoreR", q, "report", prev["report"], "pa_rmActive")
           \/ RemoveMarker(w, "pa_rmActive", q, "active", "pa_dropS")
           \/ DropBackup(w, "pa_dropS", q, "summary", "pa_dropR")
           \/ DropBackup(w, "pa_dropR", q, "report", "p_leave")
  <2>1. "pa_restoreS" \in Locked /\ "pa_restoreR" \in Locked
    BY <1>1 DEF Locked
  <2>2. CASE \/ Restore(w, "pa_restoreS", q, "summary", prev["summary"], "pa_restoreR")
             \/ Restore(w, "pa_restoreR", q, "report", prev["report"], "pa_rmActive")
    BY <1>1, <1>2, <1>3, <1>4, <2>1, <2>2, RestoreWorks, RecoveryGoesOn, LateWorks
  <2>3. CASE RemoveMarker(w, "pa_rmActive", q, "active", "pa_dropS")
    BY <1>1, <1>2, <2>3, MarkerWorks, RecoveryGoesOn, LateWorks
  <2>4. CASE \/ DropBackup(w, "pa_dropS", q, "summary", "pa_dropR")
             \/ DropBackup(w, "pa_dropR", q, "report", "p_leave")
    BY <1>1, <1>2, <1>4, <2>4, BackupWorks, RecoveryGoesOn, LateWorks
  <2> QED
    BY <1>7, <2>2, <2>3, <2>4
<1> QED
  BY <1>3, <1>5, <1>6, <1>7 DEF RestoreMarked

(* recover_pair. *)
LEMMA LateRecoversPair ==
  ASSUME Late, IInv', NEW w \in Procs, RecoverPair(w)
  PROVE  Late'
<1>1. CASE LeaveRecovery(w)
  <2>1. proc[w].pc = "p_leave" /\ UNCHANGED <<files, clock, left>>
    BY <1>1 DEF LeaveRecovery, At
  <2>2. Copying(w) /\ Framed(w) /\ clock' = clock /\ left'.edits = 0
    BY <2>1, NothingCopied DEF files, Late
  <2>3. proc[w].pc \notin AbortPath /\ proc[w].pc \in Unput \ {"putS"} /\ "staged" \notin Owning
    BY <2>1 DEF AbortPath, CommitDone, Unput, PairCleanup, Owning, Publishing, Unwinding, Deciding
  <2>4. CASE Goto(w, "staged")
    BY <2>2, <2>3, <2>4, LateGoto
  <2>5. CASE Goto(w, "captureS") /\ proc[w].txn # 0
    BY <2>2, <2>3, <2>5, LateGoto
  <2> QED
    BY <1>1, <2>4, <2>5 DEF LeaveRecovery
<1> QED
  BY <1>1, LateClassifies, LateForgets, LateRestoresMarked DEF RecoverPair

-----------------------------------------------------------------------------
(* Publication after an edit.                                              *)

(* An output is captured, whatever it holds now. *)
LEMMA LateCaptures ==
  ASSUME Late, IInv', NEW w \in Procs, NEW here \in {"captureS", "captureR"}, NEW k \in Roles,
         NEW there \in {"captureR", "indexS"}, Capture(w, here, k, there)
  PROVE  Late'
<1>1. proc[w].pc = here /\ UNCHANGED <<dest, index, marker, clock, left>>
  BY DEF Capture, At
<1>2. /\ proc[w].pc \in Owning /\ proc[w].pc \in Locked /\ proc[w].pc \in Unput \ {"putS"}
      /\ proc[w].pc \notin AbortPath
  BY <1>1 DEF Owning, Publishing, Locked, Unput, BeforePut, AbortPath, CommitDone
<1>3. TypeOK /\ Fresh(w) /\ Gave(w) /\ proc[w] \in ProcState /\ Pair(w) \in Pairs
  BY <1>2, LockedPair DEF Late, IInv
<1>4. PICK q \in Pairs, o \in Outputs : q = Pair(w) /\ o = Output(q, k)
  BY <1>3, PairOutputs
<1>5. backup' = [backup EXCEPT ![q][k] = dest[o]] /\ dest[o] \in Present(w) /\ dest' = dest
  BY <1>1, <1>4 DEF Capture, Present
<1>6. Copying(w) /\ Framed(w) /\ clock' = clock /\ left'.edits = 0
  BY <1>1, <1>3, <1>5, BackupCopied DEF Late
<1>7. PICK s : s = [proc[w] EXCEPT !.pc = there, !.seen = [@ EXCEPT ![k] = dest[o]]]
  OBVIOUS
<1>8. /\ s.pc = there /\ s.txn = proc[w].txn /\ s.seen = [proc[w].seen EXCEPT ![k] = dest[o]]
      /\ s.aborting = proc[w].aborting
  BY <1>3, <1>7 DEF ProcState
<1>9. proc' = [proc EXCEPT ![w] = s]
  BY <1>3, <1>4, <1>7 DEF Capture, ProcState, TypeOK
<1>10. \A j \in Roles : s.seen[j] = IF j = k THEN dest[o] ELSE proc[w].seen[j]
  BY <1>3, <1>8 DEF ProcState
<1>11. s.txn # 0 /\ ~s.aborting /\ s.pc \notin {"verifyR", "putR"}
  BY <1>2, <1>3, <1>8 DEF Fresh, Gave
<1>12. \A j \in Roles : \/ s.seen[j] \in {proc[w].seen[j], Absent}
                        \/ proc[w].pc \in Unput /\ \E x \in Outputs : s.seen[j] = dest[x]
  BY <1>2, <1>10
<1>13. s.txn \in {proc[w].txn, 0} /\ (s.pc \in Unput /\ s.txn # 0 => proc[w].pc \in Unput \ {"putS"})
  BY <1>2, <1>8
<1> QED
  BY <1>6, <1>9, <1>11, <1>12, <1>13, LateBecomes

(* begin_anchored. *)
LEMMA LateBegins ==
  ASSUME Late, IInv', NEW w \in Procs, Begin(w)
  PROVE  Late'
<1>1. "summary" \in Roles /\ "report" \in Roles
  BY DEF Roles
<1>2. CASE Capture(w, "captureS", "summary", "captureR") \/ Capture(w, "captureR", "report", "indexS")
  BY <1>1, <1>2, LateCaptures
<1>3. ASSUME ~(Capture(w, "captureS", "summary", "captureR") \/ Capture(w, "captureR", "report", "indexS"))
      PROVE  Late'
  <2>1. UNCHANGED <<dest, backup, clock, left>>
    BY <1>3 DEF Begin, PublishIndex, SealIndex, PublishMarker, SealMarker
  <2>2. PICK here \in Prepared, there \in {"sealS", "indexR", "sealR", "mark", "sealMark", "verify"} :
          At(w, here) /\ Goto(w, there) /\ Track(here, there)
    BY <1>3, PreparedTrack DEF Begin, PublishIndex, SealIndex, PublishMarker, SealMarker
  <2>3. Works(w, there)
    BY <2>1, <2>2, NothingCopied DEF Works
  <2>4. here \notin AbortPath
    BY <2>2 DEF Prepared, AbortPath, CommitDone
  <2> QED
    BY <2>2, <2>3, <2>4, LateWorks
<1> QED
  BY <1>2, <1>3

(* A fault uses up no edit. *)
LEMMA LateMishap ==
  ASSUME Late, NEW kind \in {"faults", "crashes"}, Mishap(kind)
  PROVE  left'.edits = left.edits
BY DEF Late, IInv, TypeOK, Mishap

(* begin_anchored fails. *)
LEMMA LateFailsToBegin ==
  ASSUME Late, IInv', NEW w \in Procs, FailCapture(w) \/ FailIndex(w) \/ FailMarker(w)
  PROVE  Late'
<1>1. dest' = dest /\ backup' = backup /\ clock' = clock /\ left'.edits = left.edits
  BY LateMishap DEF FailCapture, FailIndex, FailIndexAt, FailMarker, files, Late, IInv, TypeOK
<1>2. Copying(w) /\ Framed(w)
  BY <1>1, NothingCopied
<1>3. CASE FailCapture(w)
  <2>1. CASE Fail(w, "notBegun")
    BY <1>1, <1>2, <2>1, LateFail DEF Late
  <2>2. CASE At(w, "captureR") /\ Goto(w, "u1_restore")
    <3>1. proc[w].pc \notin AbortPath /\ "u1_restore" \notin Unput /\ proc[w].pc \in Owning
      BY <2>2 DEF AbortPath, CommitDone, Unput, BeforePut, Recovering, PairCleanup, Owning, Publishing, At
    <3> QED
      BY <1>1, <1>2, <2>2, <3>1, LateGoto DEF Late
  <2> QED
    BY <1>3, <2>1, <2>2 DEF FailCapture
<1>4. CASE FailIndex(w) \/ FailMarker(w)
  <2>1. PICK here \in Prepared \ {"u_restoreS", "u_restoreR"} : At(w, here) /\ Goto(w, "u_restoreS")
    BY <1>4 DEF FailIndex, FailIndexAt, FailMarker, Prepared
  <2>2. Works(w, "u_restoreS") /\ Track(here, "u_restoreS")
    BY <1>1, <1>2, <2>1, PreparedTrack DEF Works
  <2>3. here \notin AbortPath
    BY <2>1 DEF Prepared, AbortPath, CommitDone
  <2> QED
    BY <2>1, <2>2, <2>3, LateWorks
<1> QED
  BY <1>3, <1>4

(* with_rollback. *)
LEMMA LateUnwinds ==
  ASSUME Late, IInv', NEW w \in Procs, Unwind(w)
  PROVE  Late'
<1>1. PICK here \in Unwinding : At(w, here)
  BY DEF Unwind, Restore, DropBackup, DropIndex, Unwinding
<1>2. here \in Locked /\ here \notin AbortPath
  BY <1>1 DEF Locked, Unwinding, AbortPath, CommitDone
<1>3. PICK q \in Pairs : q = Pair(w) /\ \A k \in Roles : Output(q, k) \in OutputsOf(Pair(w))
  BY <1>1, <1>2, LockedPair, PairOutputs DEF Late, IInv, At
<1>4. TypeOK /\ "summary" \in Roles /\ "report" \in Roles
  BY DEF Late, IInv, Roles
<1>5. PICK prev : prev = Previous(w)
  OBVIOUS
<1>6. CASE /\ At(w, "u1_drop") /\ Fail(w, "notBegun")
           /\ backup' = [backup EXCEPT ![q]["summary"] = Absent]
           /\ UNCHANGED <<dest, index, marker, clock, left>>
  <2>1. dest' = dest /\ clock' = clock /\ left'.edits = 0
    BY <1>6 DEF Late
  <2>2. Copying(w) /\ Framed(w)
    BY <1>4, <1>6, <2>1, BackupDropped
  <2> QED
    BY <1>6, <2>1, <2>2, LateFail
<1>7. CASE At(w, "u_indexR") /\ Fail(w, "notBegun") /\ UNCHANGED <<dest, backup, marker, clock, left>>
  BY <1>7, NothingCopied, LateFail DEF Late
<1>8. ASSUME NEW there, Works(w, there), there \in Unwinding, Track(here, there) PROVE Late'
  <2>1. there \notin {"verifyR", "putR"}
    BY <1>8 DEF Unwinding
  <2> QED
    BY <1>1, <1>2, <1>8, <2>1, LateWorks
<1>9. ASSUME NEW there \in Unwinding PROVE Track(here, there)
  BY <1>1, <1>9 DEF Track, Owning, Unwinding, Unput, BeforePut, Recovering, PairCleanup
<1>10. CASE \/ Restore(w, "u1_restore", q, "summary", prev["summary"], "u1_drop")
            \/ Restore(w, "u_restoreS", q, "summary", prev["summary"], "u_restoreR")
            \/ Restore(w, "u_restoreR", q, "report", prev["report"], "u_dropS")
  <2>1. {"u1_restore", "u_restoreS", "u_restoreR"} \subseteq Locked /\ {"u1_drop", "u_restoreR", "u_dropS"} \subseteq Unwinding
    BY DEF Locked, Unwinding
  <2> QED
    BY <1>3, <1>4, <1>8, <1>9, <1>10, <2>1, RestoreWorks
<1>11. CASE \/ DropBackup(w, "u_dropS", q, "summary", "u_dropR")
            \/ DropBackup(w, "u_dropR", q, "report", "u_indexS")
  <2>1. {"u_dropR", "u_indexS"} \subseteq Unwinding
    BY DEF Unwinding
  <2> QED
    BY <1>4, <1>8, <1>9, <1>11, <2>1, BackupWorks
<1>12. CASE DropIndex(w, "u_indexS", SummaryOf[q], "u_indexR")
  <2>1. "u_indexR" \in Unwinding
    BY DEF Unwinding
  <2> QED
    BY <1>8, <1>9, <1>12, <2>1, MarkerWorks
<1> QED
  BY <1>3, <1>5, <1>6, <1>7, <1>10, <1>11, <1>12 DEF Unwind

-----------------------------------------------------------------------------
(* The replacement after an edit.                                          *)

(* The outputs are as captured, or w gives up and leaves the other one. *)
LEMMA LateVerifies ==
  ASSUME Late, IInv', NEW w \in Procs, NEW here, NEW roles, NEW there,
         \/ here = "verify" /\ roles = Roles /\ there = "putS"
         \/ here = "verifyR" /\ roles = {"report"} /\ there = "putR",
         Verify(w, here, roles, there)
  PROVE  Late'
<1>1. proc[w].pc = here /\ UNCHANGED <<files, clock, left>>
  BY DEF Verify, At
<1>2. /\ proc[w].pc \in Owning /\ proc[w].pc \in Locked /\ proc[w].pc \notin AbortPath /\ proc[w].pc # "putS"
      /\ here = "verify" <=> proc[w].pc \in Unput
  BY <1>1 DEF Owning, Publishing, Locked, Unput, BeforePut, Recovering, PairCleanup, AbortPath, CommitDone
<1>3. /\ TypeOK /\ Fresh(w) /\ Gave(w) /\ proc \in [Procs -> ProcState] /\ proc[w] \in ProcState
      /\ Pair(w) \in Pairs /\ proc[w].txn # 0 /\ ~proc[w].aborting
  BY <1>2, LockedPair DEF Late, IInv, TypeOK, Fresh, Gave
<1>4. Copying(w) /\ Framed(w) /\ dest' = dest /\ clock' = clock /\ left'.edits = 0
  BY <1>1, NothingCopied DEF files, Late
<1>5. CASE Goto(w, there) /\ there = "putS"
  BY <1>1, <1>2, <1>4, <1>5, LateGoto
<1>6. ASSUME NEW s, proc' = [proc EXCEPT ![w] = s], s.txn = proc[w].txn, s.seen = proc[w].seen,
             s.pair = proc[w].pair, s.pc \notin Unput, Gave(w)'
      PROVE  Late'
  <2>1. proc'[w] = s /\ \A v \in Procs \ {w} : proc'[v] = proc[v]
    BY <1>3, <1>6
  <2>2. Proceeds(w)
    BY <1>3, <1>4, <1>6, <2>1 DEF Proceeds
  <2> QED
    BY <1>4, <1>6, <2>2, LateStep
<1>7. CASE Goto(w, there) /\ there = "putR"
  <2>1. PICK s : s = [proc[w] EXCEPT !.pc = there]
    OBVIOUS
  <2>2. /\ s.pc = there /\ s.txn = proc[w].txn /\ s.seen = proc[w].seen /\ s.aborting = proc[w].aborting
        /\ s.pair = proc[w].pair /\ proc' = [proc EXCEPT ![w] = s]
    BY <1>3, <1>7, <2>1 DEF Goto, ProcState
  <2>3. proc'[w] = s
    BY <1>3, <2>2
  <2>4. dest[ReportOf[Pair(w)]] # proc[w].txn
    BY <1>1, <1>3, <1>7 DEF Gave
  <2>5. Gave(w)'
    BY <1>3, <1>4, <2>2, <2>3, <2>4 DEF Gave, Pair
  <2>6. there \notin Unput
    BY <1>7 DEF Unput, BeforePut, Recovering, PairCleanup
  <2> QED
    BY <1>6, <2>2, <2>5, <2>6
<1>8. CASE /\ proc' = [proc EXCEPT ![w].pc = "c_link", ![w].aborting = TRUE]
           /\ ~\A k \in roles : Unchanged(w, k)
  <2>1. PICK s : s = [proc[w] EXCEPT !.pc = "c_link", !.aborting = TRUE]
    OBVIOUS
  <2>2. /\ s.pc = "c_link" /\ s.txn = proc[w].txn /\ s.seen = proc[w].seen /\ s.pair = proc[w].pair
        /\ proc' = [proc EXCEPT ![w] = s]
    BY <1>3, <1>8, <2>1 DEF ProcState
  <2>3. proc'[w] = s
    BY <1>3, <2>2
  <2>4. PICK k \in roles : dest[Output(Pair(w), k)] # proc[w].seen[k]
    BY <1>8 DEF Unchanged
  <2>5. k \in Roles /\ Output(Pair(w), k) \in Outputs
    BY <1>3, <2>4, PairOutputs DEF Roles
  <2>6. dest[Output(Pair(w), k)] # proc[w].txn
    <3>1. CASE here = "verify"
      BY <1>2, <1>3, <2>5, <3>1 DEF Fresh
    <3>2. CASE here = "verifyR" /\ k = "report"
      BY <1>1, <1>3, <3>2 DEF Gave, Output
    <3> QED
      BY <2>4, <3>1, <3>2
  <2>7. Preserved(w)'
    BY <1>4, <2>2, <2>3, <2>4, <2>5, <2>6 DEF Preserved, Pair
  <2>8. Gave(w)'
    BY <2>2, <2>3, <2>7 DEF Gave, AbortPath
  <2>9. s.pc \notin Unput
    BY <2>2 DEF Unput, BeforePut, Recovering, PairCleanup
  <2> QED
    BY <1>6, <2>2, <2>8, <2>9
<1> QED
  BY <1>5, <1>7, <1>8 DEF Verify

(* An output is replaced. *)
LEMMA LatePuts ==
  ASSUME Late, IInv', NEW w \in Procs, NEW here, NEW k \in Roles, NEW there,
         \/ here = "putS" /\ k = "summary" /\ there = "verifyR"
         \/ here = "putR" /\ k = "report" /\ there = "settle",
         Put(w, here, k, there)
  PROVE  Late'
<1>1. /\ proc[w].pc = here /\ UNCHANGED <<backup, index, marker, clock, left>> /\ Goto(w, there)
      /\ dest' = [dest EXCEPT ![Output(Pair(w), k)] = proc[w].txn]
  BY DEF Put, At
<1>2. proc[w].pc \in Owning /\ proc[w].pc \in Locked /\ proc[w].pc \notin AbortPath /\ there \notin Unput
  BY <1>1 DEF Owning, Publishing, Locked, Unput, BeforePut, Recovering, PairCleanup, AbortPath, CommitDone
<1>3. /\ TypeOK /\ Fresh(w) /\ Gave(w) /\ proc \in [Procs -> ProcState] /\ proc[w] \in ProcState
      /\ Pair(w) \in Pairs /\ proc[w].txn # 0 /\ ~proc[w].aborting
  BY <1>2, LockedPair DEF Late, IInv, TypeOK, Fresh, Gave
<1>4. PICK x \in OutputsOf(Pair(w)), v \in Present(w) : x = Output(Pair(w), k) /\ v = proc[w].txn
  BY <1>1, <1>3, PairOutputs DEF Present
<1>5. /\ Copying(w) /\ Framed(w) /\ clock' = clock /\ left'.edits = 0
      /\ \A o \in Outputs \ {x} : dest'[o] = dest[o]
  <2>1. dest' = [dest EXCEPT ![x] = v] /\ backup' = backup
    BY <1>1, <1>4
  <2> QED
    BY <1>1, <1>2, <1>3, <2>1, OutputCopied DEF Late
<1>6. CASE there = "settle"
  BY <1>1, <1>2, <1>5, <1>6, LateGoto
<1>7. CASE here = "putS" /\ k = "summary" /\ there = "verifyR"
  <2>1. PICK s : s = [proc[w] EXCEPT !.pc = there]
    OBVIOUS
  <2>2. /\ s.pc = there /\ s.txn = proc[w].txn /\ s.seen = proc[w].seen /\ s.aborting = proc[w].aborting
        /\ s.pair = proc[w].pair /\ proc' = [proc EXCEPT ![w] = s]
    BY <1>1, <1>3, <2>1 DEF Goto, ProcState
  <2>3. proc'[w] = s /\ \A u \in Procs \ {w} : proc'[u] = proc[u]
    BY <1>3, <2>2
  <2>4. Proceeds(w)
    BY <1>2, <1>3, <1>5, <2>2, <2>3 DEF Proceeds
  <2>5. ReportOf[Pair(w)] \in Outputs \ {x}
    BY <1>3, <1>4, <1>7, PairsAssumption DEF Output
  <2>6. dest[ReportOf[Pair(w)]] # proc[w].txn
    BY <1>1, <1>3, <1>7, <2>5 DEF Fresh, Unput, BeforePut
  <2>7. Gave(w)'
    BY <1>3, <1>5, <2>2, <2>3, <2>5, <2>6 DEF Gave, Pair
  <2> QED
    BY <1>5, <2>4, <2>7, LateStep
<1> QED
  BY <1>6, <1>7

(* publish_pair_with_hooks. *)
LEMMA LateReplaces ==
  ASSUME Late, IInv', NEW w \in Procs, Replace(w) \/ FailReplace(w)
  PROVE  Late'
<1>1. "summary" \in Roles /\ "report" \in Roles
  BY DEF Roles
<1>2. CASE Settle(w) \/ FailReplace(w)
  <2>1. UNCHANGED <<files, clock>> /\ left'.edits = left.edits
    BY <1>2, LateMishap DEF Settle, FailReplace
  <2>2. Copying(w) /\ Framed(w) /\ clock' = clock /\ left'.edits = 0
    BY <2>1, NothingCopied DEF files, Late
  <2>3. proc[w].pc \in {"putS", "verifyR", "putR", "settle"} /\ (Goto(w, "c_link") \/ Goto(w, "r_link"))
    BY <1>2 DEF Settle, FailReplace, At
  <2>4. proc[w].pc \notin AbortPath /\ proc[w].pc \in Owning /\ "c_link" \notin Unput /\ "r_link" \notin Unput
    BY <2>3 DEF AbortPath, CommitDone, Owning, Publishing, Unput, BeforePut, Recovering, PairCleanup
  <2> QED
    BY <2>2, <2>3, <2>4, LateGoto
<1> QED
  BY <1>1, <1>2, LateVerifies, LatePuts DEF Replace

-----------------------------------------------------------------------------
(* The decision after an edit.                                             *)

(* The sidecars go with a commit, and with a run that gave up. *)
LEMMA LateCommits ==
  ASSUME Late, IInv', NEW w \in Procs, Commit(w)
  PROVE  Late'
<1>1. PICK here \in AbortPath : At(w, here)
  BY DEF Commit, LinkMarker, RetireActive, DropBackup, DropIndex, RemoveMarker, Finish, AbortPath, CommitDone
<1>2. PICK q \in Pairs : q = Pair(w)
  BY <1>1, LockedPair DEF Late, IInv, Locked, Deciding, AbortPath, CommitDone, At
<1>3. TypeOK /\ "summary" \in Roles /\ "report" \in Roles /\ proc[w].pc \in AbortPath
  BY <1>1 DEF Late, IInv, Roles, At
<1>4. {"c_retire", "c_dropS", "c_dropR", "c_indexS", "c_indexR", "c_rm", "c_done"} \subseteq AbortPath
  BY DEF AbortPath, CommitDone
<1>5. CASE \/ LinkMarker(w, "c_link", q, "committed", "c_retire")
           \/ RetireActive(w, "c_retire", q, "committed", "c_dropS")
           \/ DropIndex(w, "c_indexS", SummaryOf[q], "c_indexR")
           \/ DropIndex(w, "c_indexR", ReportOf[q], "c_rm")
           \/ RemoveMarker(w, "c_rm", q, "committed", "c_done")
  BY <1>3, <1>4, <1>5, MarkerWorks, LateCleans
<1>6. CASE \/ DropBackup(w, "c_dropS", q, "summary", "c_dropR")
           \/ DropBackup(w, "c_dropR", q, "report", "c_indexS")
  BY <1>3, <1>4, <1>6, BackupWorks, LateCleans
<1>7. CASE Finish(w)
  <2>1. UNCHANGED <<files, clock, left>>
    BY <1>7 DEF Finish
  <2>2. Copying(w) /\ Framed(w) /\ clock' = clock /\ left'.edits = 0
    BY <2>1, NothingCopied DEF files, Late
  <2>3. CASE Fail(w, "preserved")
    BY <2>2, <2>3, LateFail
  <2>4. CASE proc' = [proc EXCEPT ![w] = IdleProc]
    BY <2>2, <2>4, LateIdles
  <2> QED
    BY <1>7, <2>3, <2>4 DEF Finish
<1> QED
  BY <1>2, <1>5, <1>6, <1>7 DEF Commit

(* The captured versions are restored. *)
LEMMA LateRollsBack ==
  ASSUME Late, IInv', NEW w \in Procs, RollBack(w)
  PROVE  Late'
<1> DEFINE Path == {"r_link", "r_retire"} \cup RollBackDone
<1>1. PICK here \in Path : At(w, here)
  BY DEF RollBack, LinkMarker, RetireActive, Restore, DropBackup, DropIndex, RollBackDone
<1>2. ASSUME NEW there \in Path
      PROVE  /\ there \in Locked /\ there \notin AbortPath /\ there \notin {"verifyR", "putR"}
             /\ Track(here, there)
  BY <1>1, <1>2 DEF RollBackDone, Locked, Deciding, AbortPath, CommitDone, Track, Owning, Unput, BeforePut,
     Recovering, PairCleanup
<1>3. PICK q \in Pairs : q = Pair(w) /\ \A k \in Roles : Output(q, k) \in OutputsOf(Pair(w))
  BY <1>1, <1>2, LockedPair, PairOutputs DEF Late, IInv, At
<1>4. TypeOK /\ "summary" \in Roles /\ "report" \in Roles
  BY DEF Late, IInv, Roles
<1>5. PICK prev : prev = Previous(w)
  OBVIOUS
<1>6. ASSUME NEW there \in Path, Works(w, there) PROVE Late'
  BY <1>1, <1>2, <1>6, LateWorks
<1>7. {"r_link", "r_retire", "r_restoreS", "r_restoreR", "r_indexS", "r_indexR", "r_dropS", "r_dropR", "r_rm"}
        \subseteq Path
  BY DEF RollBackDone
<1>8. CASE \/ LinkMarker(w, "r_link", q, "rollback", "r_retire")
           \/ RetireActive(w, "r_retire", q, "rollback", "r_restoreS")
           \/ DropIndex(w, "r_indexS", SummaryOf[q], "r_indexR")
           \/ DropIndex(w, "r_indexR", ReportOf[q], "r_dropS")
  BY <1>6, <1>7, <1>8, MarkerWorks
<1>9. CASE \/ Restore(w, "r_restoreS", q, "summary", prev["summary"], "r_restoreR")
           \/ Restore(w, "r_restoreR", q, "report", prev["report"], "r_indexS")
  BY <1>2, <1>3, <1>4, <1>6, <1>7, <1>9, RestoreWorks
<1>10. CASE \/ DropBackup(w, "r_dropS", q, "summary", "r_dropR")
            \/ DropBackup(w, "r_dropR", q, "report", "r_rm")
  BY <1>4, <1>6, <1>7, <1>10, BackupWorks
<1>11. CASE At(w, "r_rm") /\ Fail(w, "rolledBack") /\ UNCHANGED <<dest, backup, index, clock, left>>
  BY <1>11, NothingCopied, LateFail DEF Late
<1> QED
  BY <1>3, <1>5, <1>8, <1>9, <1>10, <1>11 DEF RollBack

-----------------------------------------------------------------------------
(* Runs after an edit.                                                     *)

(* A run begins, stages, publishes or ends. *)
LEMMA LateRuns ==
  ASSUME Late, IInv', NEW w \in Procs,
         (\E p \in Pairs : Start(w, p)) \/ Stage(w) \/ Publish(w) \/ Exit(w) \/ Crash(w)
  PROVE  Late'
<1>1. /\ TypeOK /\ Stamped /\ Fresh(w) /\ Gave(w) /\ proc \in [Procs -> ProcState] /\ proc[w] \in ProcState
      /\ UNCHANGED <<dest, backup>> /\ left'.edits = 0
  BY LateMishap DEF Late, IInv, TypeOK, Start, Stage, Publish, Exit, Crash, files
<1>2. Copying(w) /\ Framed(w)
  BY <1>1, NothingCopied
<1>3. "readIndex" \in Recovering /\ "readIndex" \notin Owning /\ "staged" \notin AbortPath
  BY DEF Recovering, Owning, Publishing, Unwinding, Deciding, AbortPath, CommitDone
<1>4. ASSUME NEW p \in Pairs, Start(w, p) PROVE Late'
  <2>1. PICK s : s = [IdleProc EXCEPT !.pc = "readIndex", !.pair = p]
    OBVIOUS
  <2>2. s.pc = "readIndex" /\ s.txn = 0 /\ ~s.aborting /\ \A k \in Roles : s.seen[k] = Absent
    BY <2>1 DEF IdleProc
  <2>3. proc' = [proc EXCEPT ![w] = s] /\ clock' = clock
    BY <1>4, <2>1 DEF Start
  <2> QED
    BY <1>1, <1>2, <1>3, <2>2, <2>3, LateBecomes
<1>5. CASE Stage(w)
  <2>1. /\ Stamped' /\ \A v \in Procs : Fresh(v)'
        /\ proc'[w].pc = "staged" /\ proc'[w].aborting = proc[w].aborting
        /\ \A v \in Procs \ {w} : proc'[v] = proc[v]
    BY <1>1, <1>5, StageFresh DEF Late
  <2>2. ASSUME NEW v \in Procs \ {w} PROVE Gave(v)'
    BY <1>2, <2>1, OthersGave DEF Late
  <2>3. ~proc[w].aborting
    BY <1>1, <1>3, <1>5 DEF Stage, At, Gave
  <2>4. Gave(w)'
    BY <2>1, <2>3 DEF Gave
  <2> QED
    BY <1>1, <2>1, <2>2, <2>4 DEF Late
<1>6. CASE Publish(w)
  <2>1. PICK s : s = [proc[w] EXCEPT !.pc = "readIndex", !.role = "summary"]
    OBVIOUS
  <2>2. /\ s.pc = "readIndex" /\ s.txn = proc[w].txn /\ s.seen = proc[w].seen
        /\ s.aborting = proc[w].aborting
    BY <1>1, <2>1 DEF ProcState
  <2>3. proc' = [proc EXCEPT ![w] = s] /\ clock' = clock /\ proc[w].pc = "staged"
    BY <1>1, <1>6, <2>1 DEF Publish, At
  <2>4. ~s.aborting /\ proc[w].pc \in Unput \ {"putS"}
    BY <1>1, <1>3, <2>2, <2>3 DEF Gave, Unput
  <2> QED
    BY <1>1, <1>2, <1>3, <2>2, <2>3, <2>4, LateBecomes
<1>7. CASE Exit(w) \/ Crash(w)
  BY <1>1, <1>2, <1>7, LateIdles DEF Exit, Crash
<1> QED
  BY <1>4, <1>5, <1>6, <1>7

(* What the processes know after the one edit, they know after every step. *)
LEMMA LateNext == Late /\ [Next]_vars => Late'
<1> SUFFICES ASSUME Late, [Next]_vars PROVE Late'
  OBVIOUS
<1>1. IInv'
  BY NextSafe DEF Late
<1>2. CASE UNCHANGED vars
  <2>1. UNCHANGED <<dest, backup, index, marker, proc, clock, left>>
    BY <1>2 DEF vars
  <2> QED
    BY <1>1, <2>1 DEF Late, Stamped, Fresh, Gave, Preserved, Pair
<1>3. ~Mishap("edits")
  BY DEF Late, Mishap
<1>4. ASSUME NEW w \in Procs, Step(w) PROVE Late'
  BY <1>1, <1>4, LateRecoversDestination, LateRecoversPair, LateBegins, LateUnwinds, LateReplaces,
     LateCommits, LateRollsBack DEF Step
<1>5. ASSUME NEW w \in Procs,
             \/ (\E p \in Pairs : Start(w, p)) \/ Stage(w) \/ Publish(w) \/ Exit(w) \/ Crash(w)
             \/ FailCapture(w) \/ FailIndex(w) \/ FailMarker(w) \/ FailReplace(w)
      PROVE  Late'
  BY <1>1, <1>5, LateRuns, LateFailsToBegin, LateReplaces
<1> QED
  BY <1>2, <1>3, <1>4, <1>5 DEF Next, Edit, FailVerify

-----------------------------------------------------------------------------
(* The edit itself.                                                        *)

(* A report that w did not replace yet is the one it captured. *)
LEMMA CapturedReport ==
  ASSUME VInv, NEW w \in Procs
  PROVE  /\ ~proc[w].aborting
         /\ proc[w].pc \in {"verifyR", "putR"} =>
              /\ dest[ReportOf[Pair(w)]] # proc[w].txn /\ proc[w].txn # 0 /\ proc[w].txn <= clock
              /\ ReportOf[Pair(w)] \in Outputs
<1>1. Holds(w) /\ Fresh(w) /\ Quiet(w)
  BY DEF VInv
<1>2. CASE proc[w].pc \in {"verifyR", "putR"}
  <2>1. proc[w].pc \in SameR /\ proc[w].pc \in Owning
    BY <1>2 DEF SameR, Owning, Publishing
  <2>2. dest[ReportOf[Pair(w)]] = proc[w].seen["report"] /\ proc[w].txn # 0
    BY <1>1, <2>1 DEF Holds, Fresh
  <2>3. dest[ReportOf[Pair(w)]] # proc[w].txn
    BY <1>1, <2>2 DEF Fresh, Roles
  <2> QED
    BY <1>1, <2>1, <2>2, <2>3, OwnAt DEF Quiet, Fresh
<1> QED
  BY <1>1, <1>2 DEF Quiet

(* An output is edited behind the locks. *)
LEMMA EditLate ==
  ASSUME VInv, IInv', MaxEdits <= 1, NEW o \in Outputs, Edit(o)
  PROVE  Late'
<1>1. /\ TypeOK /\ Stamped /\ left.edits = MaxEdits /\ UNCHANGED <<backup, index, marker, proc>>
      /\ \A w \in Procs : Fresh(w)
  BY DEF VInv, JInv, IInv, Edit
<1>2. left'.edits = 0
  BY <1>1, BoundsAssumption DEF Edit, Mishap, TypeOK
<1>3. PICK x : /\ dest' = [dest EXCEPT ![o] = x] /\ clock' \in {clock, clock + 1}
               /\ (x = clock + 1 /\ clock' = clock + 1) \/ x = 0
  BY DEF Edit, Absent
<1>4. /\ \A y \in Outputs : dest'[y] = IF y = o THEN x ELSE dest[y]
      /\ clock \in Nat /\ clock' \in Nat /\ clock <= clock' /\ x <= clock'
  BY <1>1, <1>3 DEF TypeOK
<1>5. /\ \A y \in Outputs : dest[y] \in Nat
      /\ \A q \in Pairs, k \in Roles : backup[q][k] \in Nat
      /\ \A w \in Procs : proc[w].txn \in Nat /\ \A k \in Roles : proc[w].seen[k] \in Nat
  BY <1>1 DEF TypeOK, ProcState
<1>6. Stamped'
  BY <1>1, <1>4, <1>5 DEF Stamped
<1>7. ASSUME NEW w \in Procs PROVE Fresh(w)' /\ Gave(w)'
  <2>1. proc[w].txn # 0 => x # proc[w].txn
    BY <1>1, <1>3, <1>4, <1>5 DEF Fresh
  <2>2. proc[w].txn <= clock' /\ \A k \in Roles : proc[w].seen[k] <= clock'
    BY <1>1, <1>4, <1>5 DEF Fresh
  <2>3. Fresh(w)'
    BY <1>1, <1>4, <2>1, <2>2 DEF Fresh
  <2>4. Gave(w)'
    BY <1>1, <1>4, <2>1, CapturedReport DEF Gave, Pair
  <2> QED
    BY <2>3, <2>4
<1> QED
  BY <1>2, <1>6, <1>7 DEF Late

(* An output cannot be inspected, and the run gives up. *)
LEMMA UnreadLate ==
  ASSUME VInv, IInv', MaxEdits <= 1, NEW w \in Procs, FailVerify(w)
  PROVE  Late'
<1>1. /\ TypeOK /\ Stamped /\ left.edits = MaxEdits /\ UNCHANGED <<dest, backup, index, marker, clock>>
      /\ proc[w].pc \in {"verify", "verifyR"} /\ proc \in [Procs -> ProcState] /\ proc[w] \in ProcState
      /\ \A v \in Procs : Fresh(v)
  BY DEF VInv, JInv, IInv, TypeOK, FailVerify, files
<1>2. left'.edits = 0
  BY <1>1, BoundsAssumption DEF FailVerify, Mishap, TypeOK
<1>3. PICK s : s = [proc[w] EXCEPT !.pc = "c_link", !.aborting = TRUE, !.why = "unread"]
  OBVIOUS
<1>4. /\ s.pc = "c_link" /\ s.txn = proc[w].txn /\ s.seen = proc[w].seen /\ s.why = "unread"
      /\ proc' = [proc EXCEPT ![w] = s]
  BY <1>1, <1>3 DEF FailVerify, ProcState
<1>5. proc'[w] = s /\ \A v \in Procs \ {w} : proc'[v] = proc[v]
  BY <1>1, <1>4
<1>6. proc[w].pc \in Owning /\ "c_link" \notin Unput
  BY <1>1 DEF Owning, Publishing, Unput, BeforePut, Recovering, PairCleanup
<1>7. Copying(w) /\ Proceeds(w)
  <2>1. Copying(w)
    BY <1>1, NothingCopied
  <2>2. Fresh(w)
    BY <1>1
  <2> QED
    BY <1>1, <1>4, <1>5, <1>6, <2>1, <2>2 DEF Proceeds, Fresh
<1>8. Stamped' /\ \A v \in Procs : Fresh(v)'
  <2>1. TypeOK'
    BY DEF IInv
  <2> QED
    BY <1>1, <1>7, <2>1, FreshStep
<1>9. Gave(w)'
  BY <1>4, <1>5 DEF Gave, AbortPath
<1>10. ASSUME NEW v \in Procs \ {w} PROVE Gave(v)'
  BY <1>1, <1>5, CapturedReport DEF Gave, Pair
<1> QED
  BY <1>2, <1>8, <1>9, <1>10 DEF Late

(* With at most one edit, every step is of one of the two parts. *)
LEMMA ANext == ASSUME MaxEdits <= 1 PROVE AInv /\ [Next]_vars /\ [OneFaultAtATime]_vars => AInv'
<1> SUFFICES ASSUME AInv, [Next]_vars, [OneFaultAtATime]_vars PROVE AInv'
  OBVIOUS
<1>1. CASE Late
  BY <1>1, LateNext DEF AInv
<1>2. CASE VInv /\ ~Edited
  BY <1>2, VNext DEF AInv, Noticed
<1>3. CASE VInv /\ Edited
  <2>1. IInv'
    BY <1>3, NextSafe DEF VInv, JInv
  <2> QED
    BY <1>3, <2>1, EditLate, UnreadLate DEF AInv, Edited
<1> QED
  BY <1>1, <1>2, <1>3 DEF AInv

(* AbortKeepsEdit: a run that gives up because an output changed under it  *)
(* leaves that change in place until it returns, whatever other runs,      *)
(* crashes and faults do in the meantime. *)
THEOREM AbortsKeepEdit == ASSUME MaxEdits <= 1 PROVE SingleFaults => []AbortKeepsEdit
<1>1. Init => AInv
  BY VInit DEF AInv
<1>2. AInv /\ [Next]_vars /\ [OneFaultAtATime]_vars => AInv'
  BY ANext
<1>3. AInv => AbortKeepsEdit
  BY CapturedReport DEF AInv, Late, Gave, Preserved, AbortKeepsEdit
<1> QED
  BY <1>1, <1>2, <1>3, PTL DEF SingleFaults, Spec
=============================================================================
