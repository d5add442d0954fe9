--------------------------- MODULE PairInvariants ---------------------------
(***************************************************************************)
(* The inductive invariants of PairPublication: of the markers and locks   *)
(* (IInv), of what the sidecar files say of each other (JInv), and of the  *)
(* versions that outputs, backups and processes hold (VInv); with each,    *)
(* what a step may change (Touches, Only, Gentle, Within and others).      *)
(* PairPublication_proofs says why they are needed and proves them.        *)
(***************************************************************************)
EXTENDS PairPublication

(* The control points at which an index has been read ... *)
WithIndex == Recovering \ {"readIndex"}

(* ... and those at which a process knows a marker of its own pair absent. *)
Unmarked    == {"pu_dropS", "pu_dropR", "p_leave", "captureS", "captureR",
                "indexS", "sealS", "indexR", "sealR", "mark"}
Replacing   == {"sealMark", "verify", "putS", "verifyR", "putR", "settle"}
NoActive    == Unmarked \cup {"pa_dropS", "pa_dropR", "pr_rmRollback", "pc_rmCommitted"}
NoCommitted == Unmarked \cup Replacing \cup
               {"c_link", "r_link", "pr_dropS", "pr_dropR", "pr_rmActive", "pr_rmRollback",
                "pa_check", "pa_restoreS", "pa_restoreR", "pa_rmActive", "pa_dropS", "pa_dropR"}
NoRollback  == Unmarked \cup Replacing \cup
               {"c_link", "pc_dropS", "pc_dropR", "pc_rmActive", "pc_rmCommitted",
                "pa_check", "pa_restoreS", "pa_restoreR", "pa_rmActive", "pa_dropS", "pa_dropR"}

OwnMarks(w) ==
  /\ proc[w].pc \in NoActive => marker[Pair(w)]["active"] = None
  /\ proc[w].pc \in NoCommitted => marker[Pair(w)]["committed"] = None
  /\ proc[w].pc \in NoRollback => marker[Pair(w)]["rollback"] = None

IndexRead(w) ==
  proc[w].pc \in WithIndex =>
    /\ proc[w].idx \in Index
    /\ ThisOutput(w) \in OutputsOf(IdxPair(w))

(* What w found out about the commit of the pair its index names. *)
ReadMarks(w) ==
  /\ proc[w].pc \in {"readRollback", "decide"} /\ proc[w].marks["committed"] = None
       => marker[IdxPair(w)]["committed"] = None
  /\ proc[w].pc = "d_link" => marker[IdxPair(w)]["committed"] = None

Unsealed(w) ==
  /\ proc[w].pc = "sealS" => index[SummaryOf[Pair(w)]] # None
  /\ proc[w].pc = "sealR" => index[ReportOf[Pair(w)]] # None
  /\ proc[w].pc = "sealMark" => marker[Pair(w)]["active"] # None

Local(w) == OwnMarks(w) /\ IndexRead(w) /\ ReadMarks(w) /\ Unsealed(w)

IndexOwned == \A o \in Outputs : index[o] # None => o \in OutputsOf(index[o].pair)

Exclusive ==
  \A v, w \in Procs :
    v # w /\ proc[v].pc \in Locked /\ proc[w].pc \in Locked
      => OutputsOf(Pair(v)) \cap OutputsOf(Pair(w)) = {}

IInv ==
  /\ TypeOK
  /\ IndexOwned
  /\ Exclusive
  /\ OneDecision
  /\ \A w \in Procs : Local(w)

-----------------------------------------------------------------------------
(* What one step of w leaves alone. *)

Mine(w) == {Pair(w)} \cup (IF proc[w].pc \in WithIndex THEN {IdxPair(w)} ELSE {})

(* w changes no other process, no marker but those of Mine, commits no     *)
(* pair but its own and no index but those of its own outputs.             *)
Touches(w) ==
  /\ \A v \in Procs \ {w} : proc'[v] = proc[v]
  /\ \A q \in Pairs \ Mine(w) : marker'[q] = marker[q]
  /\ \A q \in Pairs \ {Pair(w)} :
       marker[q]["committed"] = None => marker'[q]["committed"] = None
  /\ \A o \in Outputs \ OutputsOf(Pair(w)) : index'[o] = index[o]

(* w goes on at `there', or returns an error. *)
GoesOn(w, there) ==
  /\ proc'[w].pc = there
  /\ proc'[w].pair = Pair(w) /\ proc'[w].idx = proc[w].idx
  /\ proc'[w].role = proc[w].role /\ proc'[w].marks = proc[w].marks

Goes(w, there) == GoesOn(w, there) \/ (proc'[w].pc = "failed" /\ proc'[w].pair = Pair(w))

(* The index beside o names a transaction of the pair q. *)
Names(o, q) == index[o] # None /\ index[o].pair = q

-----------------------------------------------------------------------------
(* What a process knows of the markers of its own pair, beyond OwnMarks. *)

CommitDone   == {"c_dropS", "c_dropR", "c_indexS", "c_indexR", "c_rm"}
RollBackDone == {"r_restoreS", "r_restoreR", "r_indexS", "r_indexR", "r_dropS", "r_dropR", "r_rm"}

Inactive    == Unwinding \cup CommitDone \cup RollBackDone \cup {"c_done"}
Uncommitted == Unwinding \cup {"c_done"}
NotReverted == Unwinding \cup CommitDone \cup {"c_retire", "c_done", "r_link"}
IsCommitted == CommitDone \cup {"c_retire", "pc_dropS", "pc_dropR", "pc_rmActive", "pc_rmCommitted"}
IsReverted  == RollBackDone \cup {"r_retire"}

Choice(w) ==
  LET m == marker[Pair(w)] IN
  /\ proc[w].pc \in Inactive => m["active"] = None
  /\ proc[w].pc \in Uncommitted => m["committed"] = None
  /\ proc[w].pc \in NotReverted => m["rollback"] = None
  /\ proc[w].pc \in Replacing => m["active"] # None
  /\ proc[w].pc \in IsCommitted => m["committed"] # None
  /\ proc[w].pc \in IsReverted => m["rollback"] # None
  /\ proc[w].pc \notin {"pa_check", "pa_restoreS", "pa_restoreR", "pa_rmActive", "pa_dropS", "pa_dropR"}

-----------------------------------------------------------------------------
(* What it knows of the indexes of its own outputs. *)

Unindexed == PairCleanup \cup {"captureS", "captureR", "indexS", "u1_restore", "u1_drop"}
ClearS == Unindexed \cup {"u_indexR", "r_indexR", "r_dropS", "r_dropR", "r_rm", "c_indexR", "c_rm", "c_done"}
ClearR == Unindexed \cup {"sealS", "indexR", "r_dropS", "r_dropR", "r_rm", "c_rm", "c_done"}
Marked == Replacing \cup {"c_link", "r_link", "r_retire", "r_restoreS", "r_restoreR", "r_indexS"}
NamedS == Marked \cup {"sealS", "indexR", "sealR", "mark"}
NamedR == Marked \cup {"sealR", "mark", "r_indexR"}
Owning == Publishing \cup Unwinding \cup Deciding

OwnIndexes(w) ==
  LET S == SummaryOf[Pair(w)]
      R == ReportOf[Pair(w)]
  IN
  /\ proc[w].pc \in ClearS => index[S] = None
  /\ proc[w].pc \in Recovering /\ proc[w].role = "report" => index[S] = None
  /\ proc[w].pc \in ClearR => index[R] = None
  /\ proc[w].pc \in NamedS => index[S] # None
  /\ proc[w].pc \in NamedR => index[R] # None
  /\ proc[w].pc \in Owning =>
       \A k \in Roles : LET o == Output(Pair(w), k) IN
         index[o] # None => index[o].pair = Pair(w) /\ index[o].prev = (proc[w].seen[k] # Absent)

(* What it knows of the backups of its own pair. *)
HeldS == Replacing \cup
         {"captureR", "indexS", "sealS", "indexR", "sealR", "mark", "u1_restore", "u_restoreS", "u_restoreR",
          "c_link", "r_link", "r_retire", "r_restoreS", "r_restoreR", "r_indexS", "r_indexR"}
HeldR == HeldS \ {"captureR", "u1_restore"}
GoneR == {"pr_rmActive", "pr_rmRollback", "pc_rmActive", "pc_rmCommitted", "p_leave",
          "captureS", "captureR", "c_indexS", "c_indexR", "c_rm", "c_done"}
GoneS == (GoneR \ {"captureR"}) \cup {"pr_dropR", "pc_dropR", "pu_dropR", "c_dropR"}

OwnBackups(w) ==
  LET b == backup[Pair(w)] IN
  /\ proc[w].pc \in HeldS => b["summary"] = proc[w].seen["summary"]
  /\ proc[w].pc \in HeldR => b["report"] = proc[w].seen["report"]
  /\ proc[w].pc \in GoneS => b["summary"] = Absent
  /\ proc[w].pc \in GoneR => b["report"] = Absent

-----------------------------------------------------------------------------
(* What it knows of the index it read and of the markers of that pair. *)

Reading  == {"readActive", "readCommitted", "readRollback", "decide"}
Indexed  == Reading \cup {"d_link", "d_retire", "d_restore", "d_dropIndex", "d_keep", "d_sweep", "d_forget"}
Taken    == {"d_dropBackup", "d_peer", "d_rmActive", "d_rmCommitted", "d_rmRollback", "d_leave"}
Removing == {"d_rmActive", "d_rmCommitted", "d_rmRollback"}

(* The markers read so far. *)
ReadAt(here) ==
  {k \in Kinds : \/ here = "decide"
                 \/ here = "readRollback" /\ k # "rollback"
                 \/ here = "readCommitted" /\ k = "active"}

(* What was read absent is absent, what was read decided is decided; a     *)
(* marker read, or still there, records what the others record.            *)
ReadMatch(w) ==
  LET m == marker[IdxPair(w)]
      r == proc[w].marks
      known == ReadAt(proc[w].pc)
  IN
  /\ "active" \in known /\ r["active"] = None => m["active"] = None
  /\ "committed" \in known /\ r["committed"] # None => m["committed"] # None
  /\ "rollback" \in known /\ r["rollback"] # None => m["rollback"] # None
  /\ "rollback" \in known /\ r["rollback"] = None /\ r["active"] = None => m["rollback"] = None
  /\ \A k \in known : r[k] # None =>
       /\ r[k].prev[IdxRole(w)] = proc[w].idx.prev
       /\ \A j \in Kinds : m[j] # None => m[j].prev = r[k].prev
       /\ \A j \in known : r[j] # None => r[j].prev = r[k].prev

(* The index read stays until w removes it, and w knows what it works on. *)
IndexKnown(w) ==
  LET m == marker[IdxPair(w)]
      o == ThisOutput(w)
  IN
  /\ proc[w].pc \in Indexed => index[o] = proc[w].idx
  /\ proc[w].pc \in Taken => index[o] = None
  /\ proc[w].pc \in {"d_retire", "d_restore", "d_dropIndex"} => m["rollback"] # None
  /\ proc[w].pc = "d_keep" => m["committed"] # None
  /\ proc[w].pc = "d_sweep" => \A k \in Kinds : m[k] = None
  /\ proc[w].pc = "d_forget" => m["committed"] # None \/ \A k \in Kinds : m[k] = None
  /\ proc[w].pc \in Removing => ~Names(Peer(IdxPair(w), o), IdxPair(w))
  /\ proc[w].pc \in {"d_rmCommitted", "d_rmRollback"} => m["active"] = None
  /\ proc[w].pc = "d_rmRollback" => m["committed"] = None

-----------------------------------------------------------------------------
(* What the sidecars of a pair q say together. *)

OneInode(q) ==
  \A j, k \in Kinds : marker[q][j] # None /\ marker[q][k] # None => marker[q][j] = marker[q][k]

Agree(q) ==
  \A o \in OutputsOf(q), k \in Kinds :
    Names(o, q) /\ marker[q][k] # None => marker[q][k].prev[RoleIn(q, o)] = index[o].prev

Backed(q) ==
  \A o \in OutputsOf(q) :
    Names(o, q) /\ index[o].prev /\ SelectsRollback(marker[q]) => backup[q][RoleIn(q, o)] # Absent

Unbacked(q) ==
  \A k \in Kinds, role \in Roles :
    marker[q][k] # None /\ ~marker[q][k].prev[role] => backup[q][role] = Absent

ActiveNamed(q) ==
  marker[q]["active"] # None /\ marker[q]["committed"] = None /\ marker[q]["rollback"] = None
    => \A o \in OutputsOf(q) : Names(o, q)

Journal(q) == OneInode(q) /\ Agree(q) /\ Backed(q) /\ Unbacked(q) /\ ActiveNamed(q)

Fine(w) == proc[w].why \notin {"contradiction", "missingBackup", "unexpectedBackup"}

Knows(w) == Choice(w) /\ OwnIndexes(w) /\ OwnBackups(w) /\ ReadMatch(w) /\ IndexKnown(w)

JInv ==
  /\ IInv
  /\ \A q \in Pairs : Journal(q)
  /\ \A w \in Procs : Knows(w) /\ Fine(w)

(* No two system calls fail in one step: what removes a sidecar that could *)
(* not be published succeeds.  A run may meet any number of faults.        *)
OneFaultAtATime == left'.faults >= left.faults - 1

SingleFaults == Spec /\ [][OneFaultAtATime]_vars

-----------------------------------------------------------------------------
(* What one step of w leaves alone, and what others know afterwards. *)

(* No sidecar changes, and no process but w. *)
Calm(w) ==
  /\ UNCHANGED <<backup, index, marker>>
  /\ \A v \in Procs \ {w} : proc'[v] = proc[v]

(* Of the sidecars, w changes only those of the pair q, its own or the one *)
(* it recovers, and only indexes of outputs whose locks it holds.          *)
Only(w, q) ==
  /\ \A v \in Procs \ {w} : proc'[v] = proc[v]
  /\ \A p \in Pairs \ {q} : marker'[p] = marker[p] /\ backup'[p] = backup[p]
  /\ \A p \in Pairs \ {q}, o \in Outputs : Names(o, p) \/ Names(o, p)' => index'[o] = index[o]
  /\ \A o \in Outputs \ OutputsOf(Pair(w)) : index'[o] = index[o]

(* A marker appears only as a link to one that is there. *)
Copies(q) == \A k \in Kinds : marker'[q][k] # None => \E j \in Kinds : marker[q][j] = marker'[q][k]

(* Nobody marks another's pair, and an output of it that w does not hold   *)
(* keeps the choice that was made.                                         *)
Gentle(w, q) ==
  /\ Copies(q)
  /\ \A k \in {"active", "committed"} : marker[q][k] = None => marker'[q][k] = None
  /\ marker[q]["active"] = None /\ marker[q]["rollback"] = None => marker'[q]["rollback"] = None
  /\ (\E o \in OutputsOf(q) \ OutputsOf(Pair(w)) : Names(o, q)) =>
       \A k \in {"committed", "rollback"} : marker[q][k] # None => marker'[q][k] # None
  /\ \A o \in Outputs : Names(o, q)' => index'[o] = index[o]

-----------------------------------------------------------------------------
(* Which version an output, its backup and a process hold.  From here on   *)
(* nobody has edited an output behind the locks yet.                       *)

(* An index beside o asks for a roll-back, or leads to no marker at all,   *)
(* and the backup it then stands for.                                      *)
Chosen(o) == index[o] # None /\ SelectsRollback(marker[index[o].pair])
Open(o)   == index[o] # None /\ \A k \in Kinds : marker[index[o].pair][k] = None
Kept(o)   == backup[index[o].pair][RoleIn(index[o].pair, o)]

(* An unmarked transaction has not replaced an output; one that is rolled  *)
(* back takes no output away.                                              *)
Whole(o) == Open(o) => Kept(o) \in {Absent, dest[o]}
Shown(o) == Chosen(o) /\ index[o].prev => dest[o] # Absent

(* What w knows of the outputs of its own pair: the versions it captured   *)
(* or put there are still the ones in place.                               *)
BeforePut == {"captureR", "indexS", "sealS", "indexR", "sealR", "mark", "sealMark", "verify", "putS"}
SameS == BeforePut \cup Unwinding \cup {"r_restoreR", "r_indexS"}
SameR == (BeforePut \ {"captureR"}) \cup {"verifyR", "putR"} \cup (Unwinding \ {"u1_restore", "u1_drop"})
            \cup {"r_indexS", "r_indexR"}
PutR  == {"settle", "c_link", "c_retire", "c_done"} \cup CommitDone
PutS  == PutR \cup {"verifyR", "putR"}

Holds(w) ==
  LET S == SummaryOf[Pair(w)]
      R == ReportOf[Pair(w)]
  IN
  /\ proc[w].pc \in SameS => dest[S] = proc[w].seen["summary"]
  /\ proc[w].pc \in SameR => dest[R] = proc[w].seen["report"]
  /\ proc[w].pc \in PutS => dest[S] = proc[w].txn
  /\ proc[w].pc \in PutR => dest[R] = proc[w].txn
  /\ proc[w].pc = "d_dropIndex" =>
       dest[ThisOutput(w)] = IF proc[w].idx.prev THEN backup[IdxPair(w)][IdxRole(w)] ELSE Absent

(* A version is staged once, and nothing holds it before it is put.        *)
Unput == Recovering \cup PairCleanup \cup {"staged", "captureS"} \cup BeforePut

Fresh(w) ==
  /\ proc[w].txn <= clock /\ \A k \in Roles : proc[w].seen[k] <= clock
  /\ proc[w].pc \in Owning => proc[w].txn # 0
  /\ proc[w].txn # 0 =>
       /\ \A k \in Roles : proc[w].seen[k] # proc[w].txn
       /\ \A v \in Procs \ {w} : proc[v].txn # proc[w].txn
       /\ proc[w].pc \in Unput =>
            /\ \A o \in Outputs : dest[o] # proc[w].txn
            /\ \A q \in Pairs, k \in Roles : backup[q][k] # proc[w].txn

Quiet(w) == ~proc[w].aborting /\ proc[w].why # "uncommittedBackup"

Stamped ==
  /\ \A o \in Outputs : dest[o] <= clock
  /\ \A q \in Pairs, k \in Roles : backup[q][k] <= clock

VInv ==
  /\ JInv
  /\ left.edits = MaxEdits
  /\ Stamped
  /\ \A w \in Procs : Holds(w) /\ Fresh(w) /\ Quiet(w)
  /\ \A o \in Outputs : Whole(o) /\ Shown(o)

-----------------------------------------------------------------------------
(* The outputs one step of w is about, and what it leaves alone.           *)

Focus(w) == IF proc[w].pc \in Recovering THEN {ThisOutput(w)} ELSE OutputsOf(Pair(w))

Decided(q) == (SelectsRollback(marker'[q]) <=> SelectsRollback(marker[q]))
              /\ \E k \in Kinds : marker'[q][k] # None

Within(w) ==
  /\ \A o \in Outputs \ Focus(w) : dest'[o] = dest[o] /\ index'[o] = index[o]
  /\ \A q \in Pairs, k \in Roles : Output(q, k) \notin Focus(w) => backup'[q][k] = backup[q][k]
  /\ \A q \in Pairs :
       \/ marker'[q] = marker[q] \/ Decided(q)
       \/ \A o \in Outputs \ Focus(w) : ~Names(o, q)

(* The versions there are, with the one that w is about to put. *)
Present(w) ==
  {Absent} \cup {dest[o] : o \in Outputs} \cup {backup[q][k] : q \in Pairs, k \in Roles}
           \cup (IF proc[w].pc \in {"putS", "putR"} THEN {proc[w].txn} ELSE {})

Copying(w) ==
  /\ \A o \in Outputs : dest'[o] \in Present(w)
  /\ \A q \in Pairs, k \in Roles : backup'[q][k] \in Present(w)

(* Nobody but w moves, and w puts no version twice. *)
Proceeds(w) ==
  /\ \A v \in Procs \ {w} : proc'[v] = proc[v]
  /\ clock' = clock
  /\ proc'[w].txn \in {proc[w].txn, 0}
  /\ proc'[w].pc \in Owning => proc'[w].txn # 0
  /\ \A k \in Roles : \/ proc'[w].seen[k] \in {proc[w].seen[k], Absent}
                      \/ proc[w].pc \in Unput /\ \E o \in Outputs : proc'[w].seen[k] = dest[o]
  /\ proc'[w].pc \in Unput /\ proc'[w].txn # 0 => proc[w].pc \in Unput \ {"putS"}

Passes(w) == Proceeds(w) /\ left'.edits = MaxEdits

(* An output changes behind the locks, or cannot be inspected. *)
Edited == (\E o \in Outputs : Edit(o)) \/ (\E w \in Procs : FailVerify(w))

(* What a reader may rely on beside o stays, and o stays whole and shown.  *)
Settled(o) == Whole(o)' /\ Shown(o)' /\ Logical(o)' = Logical(o)
=============================================================================
