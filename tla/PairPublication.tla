-------------------------- MODULE PairPublication --------------------------
(***************************************************************************)
(* How key-insights analyze publishes a summary and a report as a pair     *)
(* (publication.rs) and how a later run recovers an interrupted            *)
(* publication (recovery.rs).                                              *)
(*                                                                         *)
(* A file is its inode: dest[o] is the version the output o names, a       *)
(* backup is a hard link to a version, and the three marker names of a     *)
(* pair are hard links to one marker inode.  Every action is one change    *)
(* of the file system (or one read another process can interleave with);   *)
(* the control state of a process says which one is next.  A system call   *)
(* that fails while a run recovers, commits or rolls back makes the run    *)
(* return with its locks released, which leaves the files as Crash does.   *)
(***************************************************************************)
EXTENDS Naturals, FiniteSets

CONSTANTS Procs,       \* analyzer processes
          Outputs, Pairs, SummaryOf, ReportOf,
          Initial,     \* the versions outputs may hold at first: 0 is no file
          MaxVersion,  \* bound on the versions ever written
          MaxCrashes, MaxFaults, MaxEdits,  \* bounds on what may go wrong
          None

Roles == {"summary", "report"}
Kinds == {"active", "committed", "rollback"}
Absent == 0

Prevs  == [Roles -> BOOLEAN]
Marker == [txn : Nat, prev : Prevs, temp : BOOLEAN]
Index  == [pair : Pairs, prev : BOOLEAN, temp : BOOLEAN]

ASSUME PairsAssumption ==
  /\ SummaryOf \in [Pairs -> Outputs]
  /\ ReportOf \in [Pairs -> Outputs]
  /\ \A p \in Pairs : SummaryOf[p] # ReportOf[p]

ASSUME BoundsAssumption ==
  /\ Initial \subseteq {Absent, 1}
  /\ MaxVersion \in Nat /\ MaxCrashes \in Nat
  /\ MaxFaults \in Nat /\ MaxEdits \in Nat

ASSUME NoneAssumption ==
  /\ None \notin Pairs
  /\ None \notin Index
  /\ None \notin Marker

VARIABLES dest,    \* dest[o]: the version the output file o holds
          backup,  \* backup[p][k]: the version the pair's backup of role k links to
          index,   \* index[o]: the recovery index kept beside o
          marker,  \* marker[p][kind]: the pair's transaction markers
          proc,    \* proc[w]: the control state and local variables of w
          clock,   \* the last version written
          left     \* crashes, faults and edits that may still happen

files == <<dest, backup, index, marker>>
vars  == <<dest, backup, index, marker, proc, clock, left>>

Recovering  == {"readIndex", "readActive", "readCommitted", "readRollback", "decide",
                "d_link", "d_retire", "d_restore", "d_dropIndex", "d_dropBackup",
                "d_keep", "d_sweep", "d_forget", "d_peer",
                "d_rmActive", "d_rmCommitted", "d_rmRollback", "d_leave"}
PairCleanup == {"classify", "pr_dropS", "pr_dropR", "pr_rmActive", "pr_rmRollback",
                "pa_check", "pa_restoreS", "pa_restoreR", "pa_rmActive", "pa_dropS", "pa_dropR",
                "pc_dropS", "pc_dropR", "pc_rmActive", "pc_rmCommitted",
                "pu_dropS", "pu_dropR", "p_leave"}
Publishing  == {"captureS", "captureR", "indexS", "sealS", "indexR", "sealR", "mark", "sealMark",
                "verify", "putS", "verifyR", "putR", "settle"}
Unwinding   == {"u1_restore", "u1_drop",
                "u_restoreS", "u_restoreR", "u_dropS", "u_dropR", "u_indexS", "u_indexR"}
Deciding    == {"c_link", "c_retire", "c_dropS", "c_dropR", "c_indexS", "c_indexR", "c_rm", "c_done",
                "r_link", "r_retire", "r_restoreS", "r_restoreR", "r_indexS", "r_indexR",
                "r_dropS", "r_dropR", "r_rm"}
Locked == Recovering \cup PairCleanup \cup Publishing \cup Unwinding \cup Deciding
PCs    == Locked \cup {"idle", "staged", "failed"}

Reasons == {"none", "unsafeIndex", "unsafeMarker", "contradiction", "raced",
            "missingBackup", "unexpectedBackup", "uncommittedBackup", "unownedBackup",
            "notBegun", "rolledBack", "unread", "preserved"}

NoMarks == [k \in Kinds |-> None]

IdleProc ==
  [pc |-> "idle", pair |-> None, role |-> "summary", txn |-> 0, idx |-> None,
   marks |-> NoMarks, seen |-> [k \in Roles |-> Absent], aborting |-> FALSE, why |-> "none"]

ProcState ==
  [pc : PCs, pair : Pairs \cup {None}, role : Roles, txn : Nat, idx : Index \cup {None},
   marks : [Kinds -> Marker \cup {None}], seen : [Roles -> Nat], aborting : BOOLEAN,
   why : Reasons]

TypeOK ==
  /\ dest \in [Outputs -> Nat]
  /\ backup \in [Pairs -> [Roles -> Nat]]
  /\ index \in [Outputs -> Index \cup {None}]
  /\ marker \in [Pairs -> [Kinds -> Marker \cup {None}]]
  /\ proc \in [Procs -> ProcState]
  /\ clock \in Nat
  /\ left \in [crashes : Nat, faults : Nat, edits : Nat]
  /\ \A w \in Procs : (proc[w].pair = None) = (proc[w].pc = "idle")

-----------------------------------------------------------------------------
(* Names: the files of a pair and the role an output has in it. *)
Output(p, k)   == IF k = "summary" THEN SummaryOf[p] ELSE ReportOf[p]
OutputsOf(p)   == {SummaryOf[p], ReportOf[p]}
RoleIn(p, o)   == IF o = SummaryOf[p] THEN "summary" ELSE "report"
Peer(p, o)     == IF o = SummaryOf[p] THEN ReportOf[p] ELSE SummaryOf[p]

At(w, here)    == proc[w].pc = here
Pair(w)        == proc[w].pair
Goto(w, there) == proc' = [proc EXCEPT ![w].pc = there]

(* The run returns an error: its locks are released, its files stay. *)
Fail(w, reason) ==
  proc' = [proc EXCEPT ![w] = [IdleProc EXCEPT !.pc = "failed", !.pair = proc[w].pair,
                                               !.txn = proc[w].txn, !.why = reason]]

Mishap(kind) == /\ left[kind] > 0
                /\ left' = [left EXCEPT ![kind] = @ - 1]

(* flock of both sidecar lock files, in the order OutputLocks justifies. *)
Lockable(w, p) ==
  \A v \in Procs \ {w} :
    proc[v].pc \in Locked => OutputsOf(proc[v].pair) \cap OutputsOf(p) = {}

(* A marker inode has one link per name, and one more while (or for ever   *)
(* after) a crash left the temporary name it was created under.            *)
Links(q, m) == Cardinality({k \in Kinds : marker[q][k] = m}) + (IF m.temp THEN 1 ELSE 0)
UnsafeMarker(q, m) == m # None /\ Links(q, m) > 2
SameFile(q, j, k) == marker[q][j] # None /\ marker[q][j] = marker[q][k]

-----------------------------------------------------------------------------
(* File operations.  Each is taken at the control point `here' and leads   *)
(* to `there'.                                                             *)

(* transition_child_marker, first half: link the new name to the inode of  *)
(* the active marker, or accept a link that is already there.              *)
LinkMarker(w, here, q, kind, there) ==
  /\ At(w, here)
  /\ IF marker[q][kind] = None
       THEN IF marker[q]["active"] = None
              THEN Fail(w, "raced") /\ UNCHANGED marker
              ELSE /\ marker' = [marker EXCEPT ![q][kind] = marker[q]["active"]]
                   /\ Goto(w, there)
       ELSE /\ IF SameFile(q, "active", kind) THEN Goto(w, there) ELSE Fail(w, "raced")
            /\ UNCHANGED marker
  /\ UNCHANGED <<dest, backup, index, clock, left>>

(* transition_child_marker, second half: unlink the active name. *)
RetireActive(w, here, q, kind, there) ==
  /\ At(w, here)
  /\ IF marker[q]["active"] # None /\ ~SameFile(q, "active", kind)
       THEN Fail(w, "raced") /\ UNCHANGED marker
       ELSE /\ marker' = [marker EXCEPT ![q]["active"] = None]
            /\ Goto(w, there)
  /\ UNCHANGED <<dest, backup, index, clock, left>>

(* OutputBackup::restore: rename a link to the backup over the output, or  *)
(* remove an output that did not exist before.                             *)
Restore(w, here, q, k, prev, there) ==
  /\ At(w, here)
  /\ CASE prev /\ backup[q][k] = Absent   -> Fail(w, "missingBackup") /\ UNCHANGED dest
       [] ~prev /\ backup[q][k] # Absent  -> Fail(w, "unexpectedBackup") /\ UNCHANGED dest
       [] OTHER -> /\ dest' = [dest EXCEPT ![Output(q, k)] = backup[q][k]]
                   /\ Goto(w, there)
  /\ UNCHANGED <<backup, index, marker, clock, left>>

DropBackup(w, here, q, k, there) ==
  /\ At(w, here)
  /\ backup' = [backup EXCEPT ![q][k] = Absent]
  /\ Goto(w, there)
  /\ UNCHANGED <<dest, index, marker, clock, left>>

(* Cleanup after a commit: a backup nobody recorded stops it. *)
DropOwnBackup(w, here, q, k, prev, there) ==
  /\ At(w, here)
  /\ IF ~prev /\ backup[q][k] # Absent
       THEN Fail(w, "unexpectedBackup") /\ UNCHANGED backup
       ELSE /\ backup' = [backup EXCEPT ![q][k] = Absent]
            /\ Goto(w, there)
  /\ UNCHANGED <<dest, index, marker, clock, left>>

(* Cleanup without a transaction: only a backup of the present output goes. *)
DropStaleBackup(w, here, q, k, reason, there) ==
  /\ At(w, here)
  /\ IF backup[q][k] \notin {Absent, dest[Output(q, k)]}
       THEN Fail(w, reason) /\ UNCHANGED backup
       ELSE /\ backup' = [backup EXCEPT ![q][k] = Absent]
            /\ Goto(w, there)
  /\ UNCHANGED <<dest, index, marker, clock, left>>

DropIndex(w, here, o, there) ==
  /\ At(w, here)
  /\ index' = [index EXCEPT ![o] = None]
  /\ Goto(w, there)
  /\ UNCHANGED <<dest, backup, marker, clock, left>>

RemoveMarker(w, here, q, kind, there) ==
  /\ At(w, here)
  /\ marker' = [marker EXCEPT ![q][kind] = None]
  /\ Goto(w, there)
  /\ UNCHANGED <<dest, backup, index, clock, left>>
-----------------------------------------------------------------------------
(* recover_destination: what one output's index says is recovered first.   *)

ThisOutput(w) == Output(Pair(w), proc[w].role)
IdxPair(w)    == proc[w].idx.pair
IdxRole(w)    == RoleIn(IdxPair(w), ThisOutput(w))

(* The summary is recovered before the report, both before the pair. *)
LeaveDestination(w) ==
  proc' = [proc EXCEPT ![w] = [@ EXCEPT
             !.pc = IF proc[w].role = "summary" THEN "readIndex" ELSE "classify",
             !.role = "report", !.idx = None, !.marks = NoMarks]]

ReadIndex(w) ==
  LET i == index[ThisOutput(w)]
  IN  /\ At(w, "readIndex")
      /\ CASE i = None -> LeaveDestination(w)
           [] i # None /\ i.temp -> Fail(w, "unsafeIndex")
           [] OTHER -> proc' = [proc EXCEPT ![w].pc = "readActive", ![w].idx = i]
      /\ UNCHANGED <<files, clock, left>>

ReadMarker(w, here, kind, there) ==
  LET m == marker[IdxPair(w)][kind]
  IN  /\ At(w, here)
      /\ IF UnsafeMarker(IdxPair(w), m)
           THEN Fail(w, "unsafeMarker")
           ELSE proc' = [proc EXCEPT ![w].pc = there,
                                     ![w].marks = [@ EXCEPT ![kind] = m]]
      /\ UNCHANGED <<files, clock, left>>

(* The markers read must describe one transaction that made one choice ... *)
Contradiction(m) ==
  \/ m["committed"] # None /\ m["rollback"] # None
  \/ \E j, k \in Kinds : m[j] # None /\ m[k] # None /\ m[j].prev # m[k].prev

Disagreement(m, k, prev) ==
  \E kind \in Kinds : m[kind] # None /\ m[kind].prev[k] # prev

(* ... and, looked at again, be links of one inode. *)
Moved(q, m) ==
  \E k \in {"committed", "rollback"} :
    m["active"] # None /\ m[k] # None /\ ~SameFile(q, "active", k)

(* mutant: a marked transaction is rolled back even if it is committed *)
SelectsRollbackOfActive(m) == m["rollback"] # None \/ m["active"] # None

(* A marked but uncommitted transaction is rolled back. *)
SelectsRollback(m) == m["rollback"] # None \/ (m["active"] # None /\ m["committed"] = None)

(* mutant: an active transaction is taken for a committed one *)
PlanKeepsActive(m) ==
  CASE m["rollback"] # None -> "d_restore"
    [] m["rollback"] = None /\ (m["committed"] # None \/ m["active"] # None) -> "d_keep"
    [] OTHER -> "d_sweep"

DestinationPlan(m) ==
  CASE SelectsRollback(m) /\ m["rollback"] = None -> "d_link"
    [] m["rollback"] # None -> "d_restore"
    [] ~SelectsRollback(m) /\ m["committed"] # None -> "d_keep"
    [] OTHER -> "d_sweep"

Decide(w) ==
  LET m == proc[w].marks
  IN  /\ At(w, "decide")
      /\ IF Contradiction(m) \/ Disagreement(m, IdxRole(w), proc[w].idx.prev)
           THEN Fail(w, "contradiction")
           ELSE IF Moved(IdxPair(w), m) THEN Fail(w, "raced") ELSE Goto(w, DestinationPlan(m))
      /\ UNCHANGED <<files, clock, left>>

(* mutant: the backup goes before the index that asks for it *)
RollBackDroppingFirst(w) ==
  \/ LinkMarker(w, "d_link", IdxPair(w), "rollback", "d_retire")
  \/ RetireActive(w, "d_retire", IdxPair(w), "rollback", "d_restore")
  \/ Restore(w, "d_restore", IdxPair(w), IdxRole(w), proc[w].idx.prev, "d_dropBackup")
  \/ DropBackup(w, "d_dropBackup", IdxPair(w), IdxRole(w), "d_dropIndex")
  \/ DropIndex(w, "d_dropIndex", ThisOutput(w), "d_peer")

RollBackDestination(w) ==
  \/ LinkMarker(w, "d_link", IdxPair(w), "rollback", "d_retire")
  \/ RetireActive(w, "d_retire", IdxPair(w), "rollback", "d_restore")
  \/ Restore(w, "d_restore", IdxPair(w), IdxRole(w), proc[w].idx.prev, "d_dropIndex")
  \/ DropIndex(w, "d_dropIndex", ThisOutput(w), "d_dropBackup")
  \/ DropBackup(w, "d_dropBackup", IdxPair(w), IdxRole(w), "d_peer")

KeepDestination(w) ==
  \/ DropOwnBackup(w, "d_keep", IdxPair(w), IdxRole(w), proc[w].idx.prev, "d_forget")
  \/ DropStaleBackup(w, "d_sweep", IdxPair(w), IdxRole(w), "uncommittedBackup", "d_forget")
  \/ DropIndex(w, "d_forget", ThisOutput(w), "d_peer")

(* The markers go with the last index that names their transaction. *)
(* mutant: the markers go with the first index *)
CheckNoPeer(w) ==
  /\ At(w, "d_peer")
  /\ Goto(w, "d_rmActive")
  /\ UNCHANGED <<files, clock, left>>

CheckPeer(w) ==
  LET i == index[Peer(IdxPair(w), ThisOutput(w))]
  IN  /\ At(w, "d_peer")
      /\ CASE i # None /\ i.temp -> Fail(w, "unsafeIndex")
           [] i # None /\ ~i.temp /\ i.pair = IdxPair(w) -> Goto(w, "d_leave")
           [] OTHER -> Goto(w, "d_rmActive")
      /\ UNCHANGED <<files, clock, left>>

RetireMarkers(w) ==
  \/ RemoveMarker(w, "d_rmActive", IdxPair(w), "active", "d_rmCommitted")
  \/ RemoveMarker(w, "d_rmCommitted", IdxPair(w), "committed", "d_rmRollback")
  \/ RemoveMarker(w, "d_rmRollback", IdxPair(w), "rollback", "d_leave")

NextDestination(w) ==
  /\ At(w, "d_leave")
  /\ LeaveDestination(w)
  /\ UNCHANGED <<files, clock, left>>

RecoverDestination(w) ==
  \/ ReadIndex(w)
  \/ ReadMarker(w, "readActive", "active", "readCommitted")
  \/ ReadMarker(w, "readCommitted", "committed", "readRollback")
  \/ ReadMarker(w, "readRollback", "rollback", "decide")
  \/ Decide(w)
  \/ RollBackDestination(w)
  \/ KeepDestination(w)
  \/ CheckPeer(w)
  \/ RetireMarkers(w)
  \/ NextDestination(w)

-----------------------------------------------------------------------------
(* recover_pair: what is left of the pair's own transaction.               *)

PairPlan(m) ==
  CASE m["rollback"] # None -> "pr_dropS"
    [] SelectsRollback(m) /\ m["rollback"] = None -> "pa_check"
    [] ~SelectsRollback(m) /\ m["committed"] # None -> "pc_dropS"
    [] OTHER -> "pu_dropS"

Classify(w) ==
  LET m == marker[Pair(w)]
  IN  /\ At(w, "classify")
      /\ IF \E k \in Kinds : UnsafeMarker(Pair(w), m[k])
           THEN Fail(w, "unsafeMarker")
           ELSE IF Contradiction(m) \/ Moved(Pair(w), m)
                  THEN Fail(w, "contradiction")
                  ELSE Goto(w, PairPlan(m))
      /\ UNCHANGED <<files, clock, left>>

(* rolled back already: only the sidecars are left *)
ForgetRolledBack(w) ==
  \/ DropBackup(w, "pr_dropS", Pair(w), "summary", "pr_dropR")
  \/ DropBackup(w, "pr_dropR", Pair(w), "report", "pr_rmActive")
  \/ RemoveMarker(w, "pr_rmActive", Pair(w), "active", "pr_rmRollback")
  \/ RemoveMarker(w, "pr_rmRollback", Pair(w), "rollback", "p_leave")

(* marked, and no index names the transaction any more *)
RestoreMarked(w) ==
  LET prev == marker[Pair(w)]["active"].prev
  IN  \/ /\ At(w, "pa_check")
         /\ IF \E k \in Roles : prev[k] # (backup[Pair(w)][k] # Absent)
              THEN Fail(w, "missingBackup")
              ELSE Goto(w, "pa_restoreS")
         /\ UNCHANGED <<files, clock, left>>
      \/ Restore(w, "pa_restoreS", Pair(w), "summary", prev["summary"], "pa_restoreR")
      \/ Restore(w, "pa_restoreR", Pair(w), "report", prev["report"], "pa_rmActive")
      \/ RemoveMarker(w, "pa_rmActive", Pair(w), "active", "pa_dropS")
      \/ DropBackup(w, "pa_dropS", Pair(w), "summary", "pa_dropR")
      \/ DropBackup(w, "pa_dropR", Pair(w), "report", "p_leave")

ForgetCommitted(w) ==
  LET prev == marker[Pair(w)]["committed"].prev
  IN  \/ DropOwnBackup(w, "pc_dropS", Pair(w), "summary", prev["summary"], "pc_dropR")
      \/ DropOwnBackup(w, "pc_dropR", Pair(w), "report", prev["report"], "pc_rmActive")
      \/ RemoveMarker(w, "pc_rmActive", Pair(w), "active", "pc_rmCommitted")
      \/ RemoveMarker(w, "pc_rmCommitted", Pair(w), "committed", "p_leave")

SweepUnmarked(w) ==
  \/ DropStaleBackup(w, "pu_dropS", Pair(w), "summary", "unownedBackup", "pu_dropR")
  \/ DropStaleBackup(w, "pu_dropR", Pair(w), "report", "unownedBackup", "p_leave")

(* The first recovery of a run ends with its locks released; the second is *)
(* the head of begin_anchored and keeps them.                              *)
LeaveRecovery(w) ==
  /\ At(w, "p_leave")
  /\ Goto(w, IF proc[w].txn = 0 THEN "staged" ELSE "captureS")
  /\ UNCHANGED <<files, clock, left>>

RecoverPair(w) ==
  \/ Classify(w)
  \/ ForgetRolledBack(w)
  \/ RestoreMarked(w)
  \/ ForgetCommitted(w)
  \/ SweepUnmarked(w)
  \/ LeaveRecovery(w)

-----------------------------------------------------------------------------
(* begin_anchored: backups, indexes and the active marker.                 *)

Previous(w) == [k \in Roles |-> proc[w].seen[k] # Absent]

(* mutant: the output is moved to its backup instead of linked *)
CaptureByRename(w, here, k, there) ==
  LET o == Output(Pair(w), k)
  IN  /\ At(w, here)
      /\ backup' = [backup EXCEPT ![Pair(w)][k] = dest[o]]
      /\ dest' = [dest EXCEPT ![o] = Absent]
      /\ proc' = [proc EXCEPT ![w].pc = there, ![w].seen = [@ EXCEPT ![k] = dest[o]]]
      /\ UNCHANGED <<index, marker, clock, left>>

Capture(w, here, k, there) ==
  LET o == Output(Pair(w), k)
  IN  /\ At(w, here)
      /\ backup' = [backup EXCEPT ![Pair(w)][k] = dest[o]]
      /\ proc' = [proc EXCEPT ![w].pc = there, ![w].seen = [@ EXCEPT ![k] = dest[o]]]
      /\ UNCHANGED <<dest, index, marker, clock, left>>

(* publish_private_sidecar: link the written file to its name, then retire *)
(* the temporary name.                                                     *)
PublishIndex(w, here, k, there) ==
  /\ At(w, here)
  /\ index' = [index EXCEPT ![Output(Pair(w), k)] =
                 [pair |-> Pair(w), prev |-> Previous(w)[k], temp |-> TRUE]]
  /\ Goto(w, there)
  /\ UNCHANGED <<dest, backup, marker, clock, left>>

SealIndex(w, here, k, there) ==
  /\ At(w, here)
  /\ index' = [index EXCEPT ![Output(Pair(w), k)] = [@ EXCEPT !.temp = FALSE]]
  /\ Goto(w, there)
  /\ UNCHANGED <<dest, backup, marker, clock, left>>

PublishMarker(w) ==
  /\ At(w, "mark")
  /\ marker' = [marker EXCEPT ![Pair(w)]["active"] =
                  [txn |-> proc[w].txn, prev |-> Previous(w), temp |-> TRUE]]
  /\ Goto(w, "sealMark")
  /\ UNCHANGED <<dest, backup, index, clock, left>>

SealMarker(w) ==
  /\ At(w, "sealMark")
  /\ marker' = [marker EXCEPT ![Pair(w)]["active"] = [@ EXCEPT !.temp = FALSE]]
  /\ Goto(w, "verify")
  /\ UNCHANGED <<dest, backup, index, clock, left>>

Begin(w) ==
  \/ Capture(w, "captureS", "summary", "captureR")
  \/ Capture(w, "captureR", "report", "indexS")
  \/ PublishIndex(w, "indexS", "summary", "sealS")
  \/ SealIndex(w, "sealS", "summary", "indexR")
  \/ PublishIndex(w, "indexR", "report", "sealR")
  \/ SealIndex(w, "sealR", "report", "mark")
  \/ PublishMarker(w)
  \/ SealMarker(w)

(* A system call of begin_anchored fails.  A sidecar whose publication     *)
(* failed is removed again; if a second call fails it stays, which is      *)
(* modelled for the active marker, the sidecar that selects a roll-back.   *)
FailCapture(w) ==
  /\ Mishap("faults")
  /\ \/ At(w, "captureS") /\ Fail(w, "notBegun")
     \/ At(w, "captureR") /\ Goto(w, "u1_restore")
  /\ UNCHANGED <<files, clock>>

FailIndexAt(w, here, dropped) ==
  /\ At(w, here)
  /\ Mishap("faults")
  /\ index' = [o \in Outputs |-> IF o \in dropped THEN None ELSE index[o]]
  /\ Goto(w, "u_restoreS")
  /\ UNCHANGED <<dest, backup, marker, clock>>

FailIndex(w) ==
  \/ FailIndexAt(w, "indexS", {})
  \/ FailIndexAt(w, "sealS", {SummaryOf[Pair(w)]})
  \/ FailIndexAt(w, "indexR", {SummaryOf[Pair(w)]})
  \/ FailIndexAt(w, "sealR", OutputsOf(Pair(w)))

FailMarker(w) ==
  /\ \/ At(w, "mark") /\ UNCHANGED marker /\ Mishap("faults")
     \/ /\ At(w, "sealMark") /\ Mishap("faults")
        /\ marker' = [marker EXCEPT ![Pair(w)]["active"] = None]
     \/ /\ At(w, "sealMark")
        /\ left.faults > 1 /\ left' = [left EXCEPT !.faults = @ - 2]
        /\ \E t \in BOOLEAN : marker' = [marker EXCEPT ![Pair(w)]["active"] = [@ EXCEPT !.temp = t]]
  /\ Goto(w, "u_restoreS")
  /\ UNCHANGED <<dest, backup, index, clock>>

(* with_rollback, then the best-effort removal of the indexes *)
Unwind(w) ==
  \/ Restore(w, "u1_restore", Pair(w), "summary", Previous(w)["summary"], "u1_drop")
  \/ /\ At(w, "u1_drop")
     /\ backup' = [backup EXCEPT ![Pair(w)]["summary"] = Absent]
     /\ Fail(w, "notBegun")
     /\ UNCHANGED <<dest, index, marker, clock, left>>
  \/ Restore(w, "u_restoreS", Pair(w), "summary", Previous(w)["summary"], "u_restoreR")
  \/ Restore(w, "u_restoreR", Pair(w), "report", Previous(w)["report"], "u_dropS")
  \/ DropBackup(w, "u_dropS", Pair(w), "summary", "u_dropR")
  \/ DropBackup(w, "u_dropR", Pair(w), "report", "u_indexS")
  \/ DropIndex(w, "u_indexS", SummaryOf[Pair(w)], "u_indexR")
  \/ /\ At(w, "u_indexR")
     /\ index' = [index EXCEPT ![ReportOf[Pair(w)]] = None]
     /\ Fail(w, "notBegun")
     /\ UNCHANGED <<dest, backup, marker, clock, left>>

-----------------------------------------------------------------------------
(* publish_pair_with_hooks: verify, replace both outputs, decide.          *)

Unchanged(w, k) == dest[Output(Pair(w), k)] = proc[w].seen[k]

(* abort_preserving_destinations takes the path of a commit. *)
(* mutant: a changed output is rolled back like a failed rename *)
VerifyOrRollBack(w, here, roles, there) ==
  /\ At(w, here)
  /\ IF \A k \in roles : Unchanged(w, k)
       THEN Goto(w, there)
       ELSE proc' = [proc EXCEPT ![w].pc = "r_link", ![w].aborting = TRUE]
  /\ UNCHANGED <<files, clock, left>>

Verify(w, here, roles, there) ==
  /\ At(w, here)
  /\ IF \A k \in roles : Unchanged(w, k)
       THEN Goto(w, there)
       ELSE proc' = [proc EXCEPT ![w].pc = "c_link", ![w].aborting = TRUE]
  /\ UNCHANGED <<files, clock, left>>

Put(w, here, k, there) ==
  /\ At(w, here)
  /\ dest' = [dest EXCEPT ![Output(Pair(w), k)] = proc[w].txn]
  /\ Goto(w, there)
  /\ UNCHANGED <<backup, index, marker, clock, left>>

Settle(w) == /\ At(w, "settle")
             /\ Goto(w, "c_link")
             /\ UNCHANGED <<files, clock, left>>

Replace(w) ==
  \/ Verify(w, "verify", Roles, "putS")
  \/ Put(w, "putS", "summary", "verifyR")
  \/ Verify(w, "verifyR", {"report"}, "putR")
  \/ Put(w, "putR", "report", "settle")
  \/ Settle(w)

FailReplace(w) ==
  /\ proc[w].pc \in {"putS", "verifyR", "putR", "settle"}
  /\ Mishap("faults")
  /\ Goto(w, "r_link")
  /\ UNCHANGED <<files, clock>>

(* An output that cannot be inspected is treated like one that changed:    *)
(* it counts as an edit.                                                   *)
FailVerify(w) ==
  /\ proc[w].pc \in {"verify", "verifyR"}
  /\ Mishap("edits")
  /\ proc' = [proc EXCEPT ![w].pc = "c_link", ![w].aborting = TRUE, ![w].why = "unread"]
  /\ UNCHANGED <<files, clock>>

(* mutant: the finished run keeps its pair *)
FinishKeepingPair(w) ==
  /\ At(w, "c_done")
  /\ IF proc[w].aborting THEN Fail(w, "preserved") ELSE Goto(w, "idle")
  /\ UNCHANGED <<files, clock, left>>

Finish(w) ==
  /\ At(w, "c_done")
  /\ IF proc[w].aborting THEN Fail(w, "preserved") ELSE proc' = [proc EXCEPT ![w] = IdleProc]
  /\ UNCHANGED <<files, clock, left>>

(* mutant: the report's index outlives the transaction *)
CommitKeepingIndex(w) ==
  \/ LinkMarker(w, "c_link", Pair(w), "committed", "c_retire")
  \/ RetireActive(w, "c_retire", Pair(w), "committed", "c_dropS")
  \/ DropBackup(w, "c_dropS", Pair(w), "summary", "c_dropR")
  \/ DropBackup(w, "c_dropR", Pair(w), "report", "c_indexS")
  \/ DropIndex(w, "c_indexS", SummaryOf[Pair(w)], "c_rm")
  \/ RemoveMarker(w, "c_rm", Pair(w), "committed", "c_done")
  \/ Finish(w)

Commit(w) ==
  \/ LinkMarker(w, "c_link", Pair(w), "committed", "c_retire")
  \/ RetireActive(w, "c_retire", Pair(w), "committed", "c_dropS")
  \/ DropBackup(w, "c_dropS", Pair(w), "summary", "c_dropR")
  \/ DropBackup(w, "c_dropR", Pair(w), "report", "c_indexS")
  \/ DropIndex(w, "c_indexS", SummaryOf[Pair(w)], "c_indexR")
  \/ DropIndex(w, "c_indexR", ReportOf[Pair(w)], "c_rm")
  \/ RemoveMarker(w, "c_rm", Pair(w), "committed", "c_done")
  \/ Finish(w)

RollBack(w) ==
  \/ LinkMarker(w, "r_link", Pair(w), "rollback", "r_retire")
  \/ RetireActive(w, "r_retire", Pair(w), "rollback", "r_restoreS")
  \/ Restore(w, "r_restoreS", Pair(w), "summary", Previous(w)["summary"], "r_restoreR")
  \/ Restore(w, "r_restoreR", Pair(w), "report", Previous(w)["report"], "r_indexS")
  \/ DropIndex(w, "r_indexS", SummaryOf[Pair(w)], "r_indexR")
  \/ DropIndex(w, "r_indexR", ReportOf[Pair(w)], "r_dropS")
  \/ DropBackup(w, "r_dropS", Pair(w), "summary", "r_dropR")
  \/ DropBackup(w, "r_dropR", Pair(w), "report", "r_rm")
  \/ /\ At(w, "r_rm")
     /\ marker' = [marker EXCEPT ![Pair(w)]["rollback"] = None]
     /\ Fail(w, "rolledBack")
     /\ UNCHANGED <<dest, backup, index, clock, left>>

-----------------------------------------------------------------------------
(* A run of the analyzer: recover, stage, publish (main.rs).               *)

Start(w, p) ==
  /\ At(w, "idle")
  /\ Lockable(w, p)
  /\ proc' = [proc EXCEPT ![w] = [IdleProc EXCEPT !.pc = "readIndex", !.pair = p]]
  /\ UNCHANGED <<files, clock, left>>

(* Both outputs of one run are written under one new version. *)
Stage(w) ==
  /\ At(w, "staged") /\ proc[w].txn = 0
  /\ clock < MaxVersion
  /\ clock' = clock + 1
  /\ proc' = [proc EXCEPT ![w].txn = clock + 1]
  /\ UNCHANGED <<files, left>>

Publish(w) ==
  /\ At(w, "staged") /\ proc[w].txn # 0
  /\ Lockable(w, Pair(w))
  /\ proc' = [proc EXCEPT ![w].pc = "readIndex", ![w].role = "summary"]
  /\ UNCHANGED <<files, clock, left>>

(* The process exits: a failed run reported its error, a stage failed. *)
Exit(w) ==
  /\ proc[w].pc \in {"failed", "staged"}
  /\ proc' = [proc EXCEPT ![w] = IdleProc]
  /\ UNCHANGED <<files, clock, left>>

Crash(w) ==
  /\ proc[w].pc \notin {"idle", "failed"}
  /\ Mishap("crashes")
  /\ proc' = [proc EXCEPT ![w] = IdleProc]
  /\ UNCHANGED <<files, clock>>

(* Somebody who takes no lock replaces or deletes an output. *)
Edit(o) ==
  /\ Mishap("edits")
  /\ \/ /\ clock < MaxVersion
        /\ clock' = clock + 1
        /\ dest' = [dest EXCEPT ![o] = clock + 1]
     \/ /\ dest[o] # Absent
        /\ dest' = [dest EXCEPT ![o] = Absent]
        /\ UNCHANGED clock
  /\ UNCHANGED <<backup, index, marker, proc>>

Step(w) ==
  \/ RecoverDestination(w)
  \/ RecoverPair(w)
  \/ Begin(w)
  \/ Unwind(w)
  \/ Replace(w)
  \/ Commit(w)
  \/ RollBack(w)

Next ==
  \/ \E w \in Procs :
       \/ \E p \in Pairs : Start(w, p)
       \/ Stage(w) \/ Publish(w) \/ Exit(w) \/ Crash(w)
       \/ Step(w)
       \/ FailCapture(w) \/ FailIndex(w) \/ FailMarker(w)
       \/ FailVerify(w) \/ FailReplace(w)
  \/ \E o \in Outputs : Edit(o)

Init ==
  /\ dest \in [Outputs -> Initial]
  /\ backup = [p \in Pairs |-> [k \in Roles |-> Absent]]
  /\ index = [o \in Outputs |-> None]
  /\ marker = [p \in Pairs |-> NoMarks]
  /\ proc = [w \in Procs |-> IdleProc]
  /\ clock = 1
  /\ left = [crashes |-> MaxCrashes, faults |-> MaxFaults, edits |-> MaxEdits]

Spec == Init /\ [][Next]_vars
-----------------------------------------------------------------------------
(* What a reader of o may rely on: the version the output holds, unless    *)
(* the transaction its index names is (to be) rolled back.                 *)
Logical(o) ==
  LET i == index[o]
  IN  IF i # None /\ SelectsRollback(marker[i.pair])
        THEN IF i.prev THEN backup[i.pair][RoleIn(i.pair, o)] ELSE Absent
        ELSE dest[o]

LogicalValue == [o \in Outputs |-> Logical(o)]

Abstract == INSTANCE AtomicPairs WITH value <- LogicalValue

(* PairIsAtomic: whatever crashes, and whichever runs share an output, the *)
(* two files of a run become visible together or not at all, and a run     *)
(* that recovers an old transaction never reverts a newer published one.   *)
PairIsAtomic == Abstract!Spec

(* RollbackIsPossible: as long as recovery would roll an output back, the  *)
(* backup it needs is there (recovery.rs fails with "required publication  *)
(* backup is missing" otherwise, and every later run with it).             *)
RollbackIsPossible ==
  \A o \in Outputs :
    LET i == index[o]
    IN  i # None /\ i.prev /\ SelectsRollback(marker[i.pair])
          => backup[i.pair][RoleIn(i.pair, o)] # Absent

(* OneDecision: a transaction is never marked both committed and rolled    *)
(* back, also while two runs recover its two outputs at the same time.     *)
OneDecision ==
  \A p \in Pairs : marker[p]["committed"] = None \/ marker[p]["rollback"] = None

(* OutputStaysPublic: an interruption never makes an artifact disappear:   *)
(* an output recovery would show a version of is present on disk too.      *)
OutputStaysPublic == \A o \in Outputs : Logical(o) # Absent => dest[o] # Absent

(* JournalIsCoherent: recovery never meets sidecars that contradict each   *)
(* other, never misses a backup or finds one against its record, and, if   *)
(* nobody edits the outputs, finds no unmarked transaction half done.      *)
JournalIsCoherent ==
  \A w \in Procs :
    proc[w].why \notin {"contradiction", "missingBackup", "unexpectedBackup", "uncommittedBackup"}

(* AbortKeepsEdit: a run that gives up because an output changed under it  *)
(* leaves that change in place until it returns (one edit at most).        *)
AbortKeepsEdit ==
  \A w \in Procs :
    proc[w].aborting /\ proc[w].why # "unread" =>
      \E k \in Roles : dest[Output(Pair(w), k)] \notin {proc[w].txn, proc[w].seen[k]}

Sidecars(p) ==
  \/ \E k \in Roles : backup[p][k] # Absent
  \/ \E k \in Kinds : marker[p][k] # None
  \/ \E o \in OutputsOf(p) : index[o] # None

(* RunEndsClean: when a run leaves recovery, or ends with success, nothing *)
(* of its pair's journal is left, and after success both outputs hold what *)
(* it staged.  (Without edits: an edit after the renames may replace one.) *)
RunEndsClean ==
  [][ \A w \in Procs :
        /\ At(w, "p_leave") /\ ~At(w, "p_leave")' /\ proc'[w].why = "none" /\ proc'[w].pc # "idle"
             => ~Sidecars(Pair(w))
        /\ At(w, "c_done") /\ proc'[w].why = "none" /\ left.crashes = left'.crashes
             => /\ ~Sidecars(Pair(w))
                /\ \A o \in OutputsOf(Pair(w)) : dest[o] = proc[w].txn ]_vars

(* NextRunRecovers: docs/local-workflow.md:151, the analyzer "recovers an  *)
(* interrupted paired publication on the next invocation": recovery does   *)
(* not stop at an index a crash left half published, nor at the backup of  *)
(* an older run of the pair.                                               *)
NextRunRecovers == \A w \in Procs : proc[w].why \notin {"unsafeIndex", "unownedBackup"}
=============================================================================
