------------------------- MODULE OutputLocks_proofs -------------------------
(***************************************************************************)
(* For any number of runs, outputs, spellings of a path and deletions: the *)
(* locks cannot deadlock (WaitsIncrease), and OutputLocks implements       *)
(* ExclusiveOutputs.                                                       *)
(*                                                                         *)
(* A run that is inside holds the inode of each of its lock files (Local), *)
(* and each of them still has a name, because only names of unlocked files *)
(* disappear.  An open inode has one possible entry (Names), so two runs   *)
(* with an output in common would hold the same inode.                     *)
(***************************************************************************)
EXTENDS OutputLocks, TLAPS

(* An inode has one name, and an open file can only have the one it had.   *)
Names ==
  /\ \A d, e \in Entries : entry[d] = entry[e] /\ entry[d] # NoFile => d = e
  /\ \A r \in Runs : \A f \in opened[r] : \A e \in Entries :
       entry[e] = f.inode => e = EntryOf[f.path]

HeldApart == \A r, q \in Runs : r # q => held[r] \cap held[q] = {}

Covered(r) ==
  pc[r] \notin {"idle", "done"} =>
    \A o \in out[r] : \/ LockPath[o] \in todo[r]
                      \/ \E f \in opened[r] : f.path = LockPath[o]

Phases(r) ==
  /\ pc[r] \in {"lock", "verify", "inside"} => todo[r] = {}
  /\ pc[r] \in {"idle", "open", "match", "done"} => held[r] = {}
  /\ pc[r] = "inside" => \A f \in opened[r] : f.inode \in held[r]

Ascending(r) ==
  \A i \in held[r] : \A f \in opened[r] : f.inode \notin held[r] => i < f.inode

Verified(r) ==
  \A i \in held[r] :
    \/ \E e \in Entries : entry[e] = i
    \/ pc[r] = "verify" /\ \A j \in held[r] : j <= i

Local(r) == Covered(r) /\ Phases(r) /\ Ascending(r) /\ Verified(r)

IInv == TypeOK /\ Names /\ HeldApart /\ \A r \in Runs : Local(r)

-----------------------------------------------------------------------------
LEMMA InitIInv == Init => IInv
  BY LockAssumption
  DEF Init, IInv, TypeOK, Names, HeldApart, Local, Covered, Phases, Ascending, Verified

LEMMA OpenFiles ==
  ASSUME TypeOK, NEW r \in Runs, NEW f \in opened[r]
  PROVE  /\ f.path \in Paths
         /\ EntryOf[f.path] \in Entries
         /\ f.inode \in Nat
         /\ f.inode # NoFile
<1>1. f \in Locks BY DEF TypeOK
<1>2. f.path \in Paths /\ f.inode \in Inodes BY <1>1 DEF Locks
<1> QED BY <1>2, LockAssumption

(* Verified survives every step that takes no name from a locked file. *)
LEMMA DropIInv ==
  ASSUME NEW r \in Runs, IInv, Drop(r)
  PROVE  IInv'
<1>1. TypeOK'
  BY DEF IInv, TypeOK, Drop
<1>2. Names'
  BY DEF IInv, TypeOK, Names, Drop
<1>3. HeldApart'
  BY DEF IInv, TypeOK, HeldApart, Drop
<1>4. ASSUME NEW q \in Runs PROVE Local(q)'
  BY <1>4 DEF IInv, TypeOK, Drop, Local, Covered, Phases, Ascending, Verified
<1> QED BY <1>1, <1>2, <1>3, <1>4 DEF IInv

LEMMA StartIInv ==
  ASSUME NEW r \in Runs, IInv, Start(r)
  PROVE  IInv'
<1> USE LockAssumption
<1>1. TypeOK'
  BY DEF IInv, TypeOK, Start
<1>2. Names' /\ HeldApart'
  BY DEF IInv, TypeOK, Names, HeldApart, Start
<1>3. ASSUME NEW q \in Runs PROVE Local(q)'
  BY <1>3 DEF IInv, TypeOK, Start, Local, Covered, Phases, Ascending, Verified
<1> QED BY <1>1, <1>2, <1>3 DEF IInv

LEMMA OpenIInv ==
  ASSUME NEW r \in Runs, IInv, Open(r)
  PROVE  IInv'
<1> USE LockAssumption
<1>1. PICK p \in todo[r], i \in Inodes :
        /\ \/ entry[EntryOf[p]] = i
           \/ entry[EntryOf[p]] = NoFile /\ Free(i)
        /\ entry' = [entry EXCEPT ![EntryOf[p]] = i]
        /\ opened' = [opened EXCEPT ![r] = @ \cup {[path |-> p, inode |-> i]}]
  BY DEF Open
<1>2. p \in Paths /\ EntryOf[p] \in Entries /\ i \in Nat /\ i # NoFile
  BY <1>1 DEF IInv, TypeOK
<1>3. TypeOK'
  BY <1>1, <1>2 DEF IInv, TypeOK, Open, Locks
<1>4. Names'
  <2>1. ASSUME NEW d \in Entries, NEW e \in Entries, entry'[d] = entry'[e], entry'[d] # NoFile
        PROVE  d = e
    BY <1>1, <1>2, <2>1 DEF IInv, TypeOK, Names, Free
  <2>2. ASSUME NEW q \in Runs, NEW f \in opened'[q], NEW e \in Entries, entry'[e] = f.inode
        PROVE  e = EntryOf[f.path]
    <3>1. CASE f \in opened[q]
      BY <1>1, <1>2, <2>2, <3>1 DEF IInv, TypeOK, Names, Free
    <3>2. CASE f = [path |-> p, inode |-> i]
      BY <1>1, <1>2, <2>2, <3>2 DEF IInv, TypeOK, Names, Free
    <3> QED BY <1>1, <3>1, <3>2 DEF IInv, TypeOK
  <2> QED BY <2>1, <2>2 DEF Names
<1>5. HeldApart'
  BY DEF IInv, TypeOK, HeldApart, Open
<1>6. ASSUME NEW q \in Runs PROVE Local(q)'
  <2>1. Local(q) BY DEF IInv
  <2>2. \A k \in Inodes : (\E e \in Entries : entry[e] = k) => \E e \in Entries : entry'[e] = k
    BY <1>1, <1>2 DEF IInv, TypeOK
  <2>3. held' = held /\ pc[r] = "open" /\ held[r] = {}
    BY DEF IInv, Local, Phases, Open
  <2>4. Covered(q)' BY <1>1, <2>1 DEF IInv, TypeOK, Open, Local, Covered
  <2>5. Phases(q)' BY <1>1, <2>1 DEF IInv, TypeOK, Open, Local, Phases
  <2>6. Ascending(q)' BY <1>1, <2>1, <2>3 DEF IInv, TypeOK, Open, Local, Ascending
  <2>7. Verified(q)' BY <2>1, <2>2, <2>3 DEF IInv, TypeOK, Open, Local, Verified
  <2> QED BY <2>4, <2>5, <2>6, <2>7 DEF Local
<1> QED BY <1>3, <1>4, <1>5, <1>6 DEF IInv

LEMMA MatchIInv ==
  ASSUME NEW r \in Runs, IInv, Match(r)
  PROVE  IInv'
<1>1. CASE Drop(r) BY <1>1, DropIInv
<1>2. CASE ~Drop(r)
  <2>1. PICK f \in opened[r] :
          /\ todo' = [todo EXCEPT ![r] = @ \ {f.path}]
          /\ pc' = [pc EXCEPT ![r] = IF todo[r] = {f.path} THEN "lock" ELSE "open"]
          /\ UNCHANGED <<entry, out, opened, held, removals>>
    BY <1>2 DEF Match
  <2>2. TypeOK' /\ Names' /\ HeldApart'
    BY <2>1 DEF IInv, TypeOK, Names, HeldApart
  <2>3. ASSUME NEW q \in Runs PROVE Local(q)'
    BY <2>1 DEF Match, IInv, TypeOK, Local, Covered, Phases, Ascending, Verified
  <2> QED BY <2>2, <2>3 DEF IInv
<1> QED BY <1>1, <1>2

LEMMA LockIInv ==
  ASSUME NEW r \in Runs, IInv, Lock(r)
  PROVE  IInv'
<1> USE LockAssumption
<1>1. PICK i \in Inodes :
        /\ IsNextLock(r, i)
        /\ \A q \in Runs : i \notin held[q]
        /\ held' = [held EXCEPT ![r] = @ \cup {i}]
  BY DEF Lock
<1>2. pc[r] = "lock" /\ pc' = [pc EXCEPT ![r] = "verify"]
      /\ UNCHANGED <<entry, out, todo, opened, removals>>
  BY DEF Lock
<1>3. TypeOK' /\ Names' /\ HeldApart'
  BY <1>1, <1>2 DEF IInv, TypeOK, Names, HeldApart
<1>4. ASSUME NEW q \in Runs PROVE Local(q)'
  <2>1. Local(q) /\ Local(r) BY DEF IInv
  <2>2. \A k \in held[r] : k \in Nat /\ k < i
    BY <1>1, <2>1 DEF IInv, TypeOK, Local, Ascending, IsNextLock
  <2>3. \A f \in opened[r] : f.inode \in Nat /\ (f.inode \notin held'[r] => i < f.inode)
    BY <1>1, OpenFiles DEF IInv, TypeOK, IsNextLock
  <2>4. Covered(q)' /\ Phases(q)'
    BY <1>1, <1>2, <2>1 DEF IInv, TypeOK, Local, Covered, Phases
  <2>5. Ascending(q)'
    BY <1>1, <1>2, <2>1, <2>2, <2>3 DEF IInv, TypeOK, Local, Ascending
  <2>6. Verified(q)'
    BY <1>1, <1>2, <2>1, <2>2 DEF IInv, TypeOK, Local, Verified
  <2> QED BY <2>4, <2>5, <2>6 DEF Local
<1> QED BY <1>3, <1>4 DEF IInv

LEMMA VerifyIInv ==
  ASSUME NEW r \in Runs, IInv, Verify(r)
  PROVE  IInv'
<1> USE LockAssumption
<1>1. CASE Drop(r) BY <1>1, DropIInv
<1>2. CASE ~Drop(r)
  <2>1. PICK f \in opened[r] :
          /\ f.inode \in held[r] /\ \A i \in held[r] : i <= f.inode
          /\ Matches(f)
          /\ pc' = [pc EXCEPT ![r] = IF \E g \in opened[r] : g.inode \notin held[r]
                                       THEN "lock" ELSE "inside"]
          /\ UNCHANGED <<entry, out, todo, opened, held, removals>>
    BY <1>2 DEF Verify
  <2>2. TypeOK' /\ Names' /\ HeldApart'
    BY <2>1 DEF IInv, TypeOK, Names, HeldApart
  <2>3. f.inode \in Nat /\ EntryOf[f.path] \in Entries /\ entry[EntryOf[f.path]] = f.inode
    BY <2>1, OpenFiles DEF IInv, Matches
  <2>4. ASSUME NEW q \in Runs PROVE Local(q)'
    <3>1. Local(q) BY DEF IInv
    <3>2. Covered(q)' /\ Phases(q)' /\ Ascending(q)'
      BY <2>1, <3>1 DEF Verify, IInv, TypeOK, Local, Covered, Phases, Ascending
    <3>3. ASSUME q = r, NEW i \in held[r], \A j \in held[r] : j <= i PROVE i = f.inode
      BY <2>1, <2>3, <3>3 DEF IInv, TypeOK
    <3>4. Verified(q)'
      BY <2>1, <2>3, <3>1, <3>3 DEF IInv, TypeOK, Local, Verified
    <3> QED BY <3>2, <3>4 DEF Local
  <2> QED BY <2>2, <2>4 DEF IInv
<1> QED BY <1>1, <1>2

LEMMA RemoveIInv ==
  ASSUME NEW e \in Entries, IInv, Remove(e)
  PROVE  IInv'
<1> USE LockAssumption
<1>1. TypeOK'
  BY DEF IInv, TypeOK, Remove
<1>2. Names' /\ HeldApart'
  <2>1. \A r \in Runs : \A f \in opened[r] : f.inode # NoFile
    BY OpenFiles DEF IInv
  <2> QED BY <2>1 DEF IInv, TypeOK, Names, HeldApart, Remove
<1>3. ASSUME NEW q \in Runs PROVE Local(q)'
  <2>1. Local(q) BY DEF IInv
  <2>2. ASSUME NEW i \in held[q], NEW d \in Entries, entry[d] = i PROVE entry'[d] = i
    BY <2>2 DEF IInv, TypeOK, Remove
  <2>3. Verified(q)'
    BY <2>1, <2>2 DEF Local, Verified, Remove
  <2> QED BY <2>1, <2>3 DEF Remove, Local, Covered, Phases, Ascending
<1> QED BY <1>1, <1>2, <1>3 DEF IInv

LEMMA NextIInv == IInv /\ [Next]_vars => IInv'
<1> SUFFICES ASSUME IInv, [Next]_vars PROVE IInv'
  OBVIOUS
<1>1. ASSUME NEW r \in Runs, Start(r) PROVE IInv' BY <1>1, StartIInv
<1>2. ASSUME NEW r \in Runs, Open(r) PROVE IInv' BY <1>2, OpenIInv
<1>3. ASSUME NEW r \in Runs, Match(r) PROVE IInv' BY <1>3, MatchIInv
<1>4. ASSUME NEW r \in Runs, Lock(r) PROVE IInv' BY <1>4, LockIInv
<1>5. ASSUME NEW r \in Runs, Verify(r) PROVE IInv' BY <1>5, VerifyIInv
<1>6. ASSUME NEW r \in Runs, Leave(r) \/ Stop(r) PROVE IInv'
  BY <1>6, DropIInv DEF Leave, Stop
<1>7. ASSUME NEW e \in Entries, Remove(e) PROVE IInv' BY <1>7, RemoveIInv
<1>8. CASE UNCHANGED vars
  BY <1>8 DEF vars, IInv, TypeOK, Names, HeldApart, Local, Covered, Phases, Ascending, Verified
<1> QED BY <1>1, <1>2, <1>3, <1>4, <1>5, <1>6, <1>7, <1>8 DEF Next, Step

LEMMA SpecIInv == Spec => []IInv
<1> QED BY InitIInv, NextIInv, PTL DEF Spec

-----------------------------------------------------------------------------
(* The state of the runs and of the lock files stays well typed.           *)
THEOREM TypeCorrect == Spec => []TypeOK
<1>1. IInv => TypeOK BY DEF IInv
<1> QED BY <1>1, SpecIInv, PTL

(* A run that waits for a lock holds only smaller inodes, so no set of     *)
(* runs waits in a circle: prepare_anchored_locks sorts by identity.       *)
THEOREM NoCircularWait == Spec => []WaitsIncrease
<1>1. IInv => WaitsIncrease
  BY DEF IInv, Local, Ascending, WaitsIncrease, IsNextLock
<1> QED BY <1>1, SpecIInv, PTL

-----------------------------------------------------------------------------
Inside == [r \in Runs |-> IF pc[r] = "inside" THEN out[r] ELSE {}]

Apart ==
  \A r, q \in Runs :
    r # q /\ pc[r] = "inside" /\ pc[q] = "inside" => out[r] \cap out[q] = {}

(* The locks of a run that is inside are the lock files of its outputs.    *)
LEMMA InsideApart ==
  ASSUME IInv
  PROVE  Apart
<1> SUFFICES ASSUME NEW r \in Runs, NEW q \in Runs, r # q,
                    pc[r] = "inside", pc[q] = "inside"
             PROVE  out[r] \cap out[q] = {}
  BY DEF Apart
<1> USE LockAssumption
<1> DEFINE HasLock(w, o) == /\ entry[EntryOf[LockPath[o]]] \in held[w]
<1>1. ASSUME NEW w \in Runs, pc[w] = "inside", NEW o \in out[w] PROVE HasLock(w, o)
  <2>1. PICK f \in opened[w] : f.path = LockPath[o] /\ f.inode \in held[w]
    BY <1>1 DEF IInv, Local, Covered, Phases
  <2>2. PICK e \in Entries : entry[e] = f.inode
    BY <1>1, <2>1 DEF IInv, Local, Verified
  <2>3. e = EntryOf[f.path]
    BY <2>1, <2>2 DEF IInv, Names
  <2> QED BY <2>1, <2>2, <2>3
<1>2. ASSUME NEW o \in out[r], o \in out[q] PROVE FALSE
  <2>1. HasLock(r, o) /\ HasLock(q, o) BY <1>1, <1>2
  <2> QED BY <2>1 DEF IInv, HeldApart
<1> QED BY <1>2

LEMMA StepEntersOrLeaves ==
  ASSUME IInv, Apart', [Next]_vars
  PROVE  [Exclusive!Next]_Inside
<1>1. ASSUME NEW r \in Runs, Drop(r) PROVE Exclusive!Leave(r)
  BY <1>1 DEF IInv, TypeOK, Drop, Exclusive!Leave
<1>2. ASSUME NEW r \in Runs, pc[r] # "inside", pc'[r] # "inside",
             \A q \in Runs \ {r} : pc'[q] = pc[q] /\ out'[q] = out[q]
      PROVE  UNCHANGED Inside
  BY <1>2 DEF Inside
<1>3. ASSUME NEW r \in Runs, Start(r) \/ Open(r) \/ Lock(r) PROVE UNCHANGED Inside
  BY <1>2, <1>3 DEF IInv, TypeOK, Start, Open, Lock
<1>4. ASSUME NEW r \in Runs, Match(r), ~Drop(r) PROVE UNCHANGED Inside
  BY <1>2, <1>4 DEF IInv, TypeOK, Match
<1>5. ASSUME NEW r \in Runs, Verify(r), ~Drop(r) PROVE [Exclusive!Next]_Inside
  <2>1. pc[r] = "verify" /\ out' = out /\ pc'[r] \in {"lock", "inside"}
        /\ pc' = [pc EXCEPT ![r] = pc'[r]]
    BY <1>5 DEF IInv, TypeOK, Verify
  <2>2. CASE pc'[r] # "inside" BY <1>2, <2>1, <2>2 DEF IInv, TypeOK
  <2>3. CASE pc'[r] = "inside"
    <3>1. \A q \in Runs : q # r /\ pc[q] = "inside" => out[q] \cap out[r] = {}
      <4>1. ASSUME NEW q \in Runs, q # r, pc[q] = "inside" PROVE pc'[q] = "inside"
        BY <2>1, <4>1 DEF IInv, TypeOK
      <4> QED BY <2>1, <2>3, <4>1 DEF Apart
    <3>2. out[r] \in SUBSET Outputs BY DEF IInv, TypeOK
    <3>3. \A q \in Runs : Inside[q] \cap out[r] = {}
      BY <2>1, <3>1 DEF Inside
    <3>4. Inside' = [Inside EXCEPT ![r] = out[r]] /\ Inside[r] = {}
      BY <2>1, <2>3 DEF IInv, TypeOK, Inside
    <3>5. Exclusive!Enter(r)
      BY <3>2, <3>3, <3>4 DEF Exclusive!Enter, Inside
    <3> QED BY <3>5 DEF Exclusive!Next
  <2> QED BY <2>2, <2>3
<1>6. ASSUME NEW e \in Entries, Remove(e) PROVE UNCHANGED Inside
  BY <1>6 DEF Remove, Inside
<1>7. CASE UNCHANGED vars BY <1>7 DEF vars, Inside
<1>8. ASSUME NEW r \in Runs, Leave(r) \/ Stop(r) PROVE Drop(r)
  BY <1>8 DEF Leave, Stop
<1> QED
  BY <1>1, <1>3, <1>4, <1>5, <1>6, <1>7, <1>8 DEF Next, Step, Exclusive!Next

(* Every run has the outputs it recovers and publishes to itself: the      *)
(* locks of publication.rs implement ExclusiveOutputs.                     *)
THEOREM LocksExclude == Spec => OutputsAreExclusive
<1>1. Init => Exclusive!Init BY DEF Init, Exclusive!Init
<1>2. IInv => Apart BY InsideApart
<1>3. IInv /\ Apart' /\ [Next]_vars => [Exclusive!Next]_Inside
  BY StepEntersOrLeaves
<1> QED BY <1>1, <1>2, <1>3, SpecIInv, PTL DEF Spec, OutputsAreExclusive, Exclusive!Spec, Inside
=============================================================================
