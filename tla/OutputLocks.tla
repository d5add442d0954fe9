----------------------------- MODULE OutputLocks -----------------------------
(***************************************************************************)
(* The locks a run of the analyzer takes before it recovers or publishes   *)
(* (OutputLocks::acquire_anchored in publication.rs).  Every output has a  *)
(* sidecar lock file beside it.  A run opens the lock files of its two     *)
(* outputs in the order of their paths, creating those that are missing,   *)
(* then locks them with flock in the order of their inodes, a file opened  *)
(* twice only once.  A lock belongs to an inode, not to a name, so the run *)
(* looks each name up again once it holds the lock.                        *)
(*                                                                         *)
(* Two paths may be one directory entry (a case-insensitive directory),    *)
(* and two outputs may have one lock path: its label is cut at 96 bytes.   *)
(* A lock file somebody linked twice is refused, so an entry never shares  *)
(* its inode with another.  Somebody may delete a lock file no run holds.  *)
(***************************************************************************)
EXTENDS Integers, FiniteSets

CONSTANTS Runs,        \* runs of the analyzer
          Outputs,     \* output files
          Targets,     \* the pairs of outputs a run may be started with
          Paths,       \* lock paths, numbered in their lexical order
          LockPath,    \* LockPath[o] is the path of the lock file of o
          Entries,     \* directory entries
          EntryOf,     \* EntryOf[p] is the entry the path p leads to
          Inodes,      \* inode numbers
          MaxRemovals  \* bound: deletions of a lock file

NoFile == 0

ASSUME LockAssumption ==
  /\ Targets \subseteq SUBSET Outputs
  /\ Paths \subseteq Nat
  /\ LockPath \in [Outputs -> Paths]
  /\ EntryOf \in [Paths -> Entries]
  /\ Inodes \subseteq Nat \ {NoFile}
  /\ MaxRemovals \in Nat

VARIABLES entry,     \* entry[e]: the inode of the lock file at e, or NoFile
          pc,        \* pc[r]: what r does next
          out,       \* out[r]: the outputs r was started with
          todo,      \* todo[r]: the lock paths r has not opened and matched yet
          opened,    \* opened[r]: the lock files r has open (PreparedLock)
          held,      \* held[r]: the inodes r has locked
          removals   \* deletions so far

vars == <<entry, pc, out, todo, opened, held, removals>>

Locks == [path : Paths, inode : Inodes]

TypeOK ==
  /\ entry \in [Entries -> Inodes \cup {NoFile}]
  /\ pc \in [Runs -> {"idle", "open", "match", "lock", "verify", "inside", "done"}]
  /\ out \in [Runs -> SUBSET Outputs]
  /\ todo \in [Runs -> SUBSET Paths]
  /\ opened \in [Runs -> SUBSET Locks]
  /\ held \in [Runs -> SUBSET Inodes]
  /\ removals \in 0 .. MaxRemovals

Init ==
  /\ entry \in [Entries -> {NoFile}]
  /\ pc = [r \in Runs |-> "idle"]
  /\ out = [r \in Runs |-> {}]
  /\ todo = [r \in Runs |-> {}]
  /\ opened = [r \in Runs |-> {}]
  /\ held = [r \in Runs |-> {}]
  /\ removals = 0

-----------------------------------------------------------------------------
(* The path opened next: the candidates are sorted by path. *)
IsNextPath(r, p) == p \in todo[r] /\ \A q \in todo[r] : p <= q

(* Mutant: the prepared locks are left in the order of their paths. *)
IsNextLockByPath(r, i) ==
  /\ i \notin held[r]
  /\ \E f \in opened[r] :
       /\ f.inode = i
       /\ \A g \in opened[r] : g.inode \in held[r] \/ f.path <= g.path

(* The lock file the run r waits for or takes next: the prepared locks are *)
(* sorted by identity and each identity is taken once.                     *)
IsNextLock(r, i) ==
  /\ \E f \in opened[r] : f.inode = i
  /\ i \notin held[r]
  /\ \A f \in opened[r] : f.inode \in held[r] \/ i <= f.inode

(* The lock kept of those with one identity: the sort is stable, so it is  *)
(* the one with the first path.                                            *)
IsKept(r, f) ==
  /\ f \in opened[r]
  /\ \A g \in opened[r] : g.inode = f.inode => f.path <= g.path

(* open_file_matches_child: the name still leads to the open file. *)
Matches(f) == entry[EntryOf[f.path]] = f.inode

(* An inode number is free once no name and no open file has it. *)
Free(i) ==
  /\ \A e \in Entries : entry[e] # i
  /\ \A r \in Runs : \A f \in opened[r] : f.inode # i

(* Dropping the files closes them, and closing a file releases its lock. *)
Drop(r) ==
  /\ pc' = [pc EXCEPT ![r] = "done"]
  /\ todo' = [todo EXCEPT ![r] = {}]
  /\ opened' = [opened EXCEPT ![r] = {}]
  /\ held' = [held EXCEPT ![r] = {}]
  /\ UNCHANGED <<entry, out, removals>>

-----------------------------------------------------------------------------
Start(r) ==
  /\ pc[r] = "idle"
  /\ \E t \in Targets :
       /\ out' = [out EXCEPT ![r] = t]
       /\ todo' = [todo EXCEPT ![r] = {LockPath[o] : o \in t}]
  /\ pc' = [pc EXCEPT ![r] = "open"]
  /\ UNCHANGED <<entry, opened, held, removals>>

(* Mutant: the lock file is opened without O_CREAT and a missing one taken for open. *)
OpenExisting(r) ==
  /\ pc[r] = "open"
  /\ \E p \in todo[r] :
       /\ IsNextPath(r, p)
       /\ opened' = [opened EXCEPT ![r] = @ \cup {[path |-> p, inode |-> entry[EntryOf[p]]]}]
  /\ pc' = [pc EXCEPT ![r] = "match"]
  /\ UNCHANGED <<entry, out, todo, held, removals>>

(* open_private_lock_file: O_CREAT without O_EXCL. *)
Open(r) ==
  /\ pc[r] = "open"
  /\ \E p \in todo[r], i \in Inodes :
       /\ IsNextPath(r, p)
       /\ \/ entry[EntryOf[p]] = i
          \/ entry[EntryOf[p]] = NoFile /\ Free(i)
       /\ entry' = [entry EXCEPT ![EntryOf[p]] = i]
       /\ opened' = [opened EXCEPT ![r] = @ \cup {[path |-> p, inode |-> i]}]
  /\ pc' = [pc EXCEPT ![r] = "match"]
  /\ UNCHANGED <<out, todo, held, removals>>

(* The name is looked up again; then the next candidate, or the locks. *)
Match(r) ==
  /\ pc[r] = "match"
  /\ \E f \in opened[r] :
       /\ f.path \in todo[r]
       /\ IF Matches(f)
            THEN /\ todo' = [todo EXCEPT ![r] = @ \ {f.path}]
                 /\ pc' = [pc EXCEPT ![r] = IF todo[r] = {f.path} THEN "lock" ELSE "open"]
                 /\ UNCHANGED <<entry, out, opened, held, removals>>
            ELSE Drop(r)

(* flock waits while another open file of the inode holds the lock. *)
Lock(r) ==
  /\ pc[r] = "lock"
  /\ \E i \in Inodes :
       /\ IsNextLock(r, i)
       /\ \A q \in Runs : i \notin held[q]
       /\ held' = [held EXCEPT ![r] = @ \cup {i}]
  /\ pc' = [pc EXCEPT ![r] = "verify"]
  /\ UNCHANGED <<entry, out, todo, opened, removals>>

(* Mutant: no second look at the name after the wait. *)
VerifyNothing(r) ==
  /\ pc[r] = "verify"
  /\ pc' = [pc EXCEPT ![r] =
               IF \E g \in opened[r] : g.inode \notin held[r] THEN "lock" ELSE "inside"]
  /\ UNCHANGED <<entry, out, todo, opened, held, removals>>

(* Mutant: no dedup_by_key, each open file is locked. *)
VerifyEachFile(r) ==
  /\ pc[r] = "verify"
  /\ pc' = [pc EXCEPT ![r] =
               IF Cardinality(held[r]) < Cardinality(opened[r]) THEN "lock" ELSE "inside"]
  /\ UNCHANGED <<entry, out, todo, opened, held, removals>>

(* The lock taken last is good only if its name still leads to it. *)
Verify(r) ==
  /\ pc[r] = "verify"
  /\ \E f \in opened[r] :
       /\ f.inode \in held[r] /\ \A i \in held[r] : i <= f.inode
       /\ IsKept(r, f)
       /\ IF Matches(f)
            THEN /\ pc' = [pc EXCEPT ![r] =
                             IF \E g \in opened[r] : g.inode \notin held[r]
                               THEN "lock" ELSE "inside"]
                 /\ UNCHANGED <<entry, out, todo, opened, held, removals>>
            ELSE Drop(r)

(* The run has recovered and published, and drops its locks. *)
Leave(r) == pc[r] = "inside" /\ Drop(r)

(* An I/O error, an unsafe lock file, a changed directory or a crash. *)
Stop(r) == pc[r] \notin {"idle", "inside", "done"} /\ Drop(r)

(* Somebody deletes a lock file that no run has locked. *)
Remove(e) ==
  /\ removals < MaxRemovals
  /\ entry[e] # NoFile
  /\ \A r \in Runs : entry[e] \notin held[r]
  /\ entry' = [entry EXCEPT ![e] = NoFile]
  /\ removals' = removals + 1
  /\ UNCHANGED <<pc, out, todo, opened, held>>

Step(r) == Open(r) \/ Match(r) \/ Lock(r) \/ Verify(r) \/ Leave(r)

Next ==
  \/ \E r \in Runs : Start(r) \/ Step(r) \/ Stop(r)
  \/ \E e \in Entries : Remove(e)

Spec == Init /\ [][Next]_vars

(* A started process keeps running, and a publication ends. *)
FairSpec == Spec /\ \A r \in Runs : WF_vars(Step(r))

-----------------------------------------------------------------------------
(* No cycle of waits, nor a run that waits for itself: if r waits for a    *)
(* lock that q holds while q waits too, q waits for a greater inode.       *)
WaitsIncrease ==
  \A r, q \in Runs : \A i, j \in Inodes :
    /\ pc[r] = "lock" /\ IsNextLock(r, i)
    /\ pc[q] = "lock" /\ IsNextLock(q, j)
    /\ i \in held[q]
    => i < j

(* Every run that was started ends: none waits for a lock for ever. *)
EveryRunEnds == \A r \in Runs : pc[r] = "open" ~> pc[r] = "done"

(* The locks give a run its outputs alone, whatever spelling of a path the *)
(* runs use and whatever lock file is deleted and created again meanwhile. *)
Exclusive == INSTANCE ExclusiveOutputs WITH
  inside <- [r \in Runs |-> IF pc[r] = "inside" THEN out[r] ELSE {}]

OutputsAreExclusive == Exclusive!Spec
=============================================================================
