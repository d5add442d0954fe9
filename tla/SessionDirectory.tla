-------------------------- MODULE SessionDirectory --------------------------
(***************************************************************************)
(* The directory Neovim processes record sessions in: how a session        *)
(* reserves, writes and publishes its file (storage.lua), how a finished   *)
(* session prunes old logs, how :KeyInsightsPurge deletes what is left     *)
(* over (purge.lua), and how both delete a file only if it is still the    *)
(* one they decided on (filesystem.lua).                                   *)
(*                                                                         *)
(* A process does one thing at a time; steps of different processes        *)
(* interleave anywhere.  A step is one file system call, except that a     *)
(* listing with its inspections is one step and so is reading all locks.   *)
(* A step of finish that fails leaves the stage as it was: the user's next *)
(* stop retries it, and a purge of the same process may come first.        *)
(***************************************************************************)
EXTENDS Naturals, FiniteSets

CONSTANTS Procs,         \* Neovim processes
          Pids,          \* their process IDs, which are used again
          Sessions,      \* session IDs, ordered, never used twice (collector.lua draws them)
          KeepSessions, KeepAge,      \* retention.max_sessions and max_age_days
          MaxDeletions, MaxScanned,   \* the budgets of one retention pass
          MaxNow, MaxWrites, MaxCrashes, MaxFaults, MaxEdits, MaxPurges,   \* bounds on what may happen
          None

Name  == [session : Sessions, kind : {"partial", "finalized", "lock"},
          digest : {None}, nonce : {0}]
File  == [session : Sessions, lock : BOOLEAN, size : Nat, mtime : Nat, pid : Pids \cup {None}]
(* A quarantine name carries the identity its file had in the inventory. *)
Quarantine == [session : Sessions, kind : {"partial", "finalized", "lock"},
               digest : File, nonce : Nat]

Entry == [name : Name \cup Quarantine, file : File]

ASSUME RetentionAssumption ==
  /\ IsFiniteSet(Procs) /\ Sessions \subseteq Nat
  /\ KeepSessions \in Nat \ {0} /\ KeepAge \in Nat
  /\ MaxDeletions \in Nat \ {0} /\ MaxScanned \in Nat \ {0}
  /\ MaxWrites \in Nat /\ MaxNow \in Nat
  /\ MaxCrashes \in Nat /\ MaxFaults \in Nat /\ MaxEdits \in Nat /\ MaxPurges \in Nat

ASSUME NoneAssumption ==
  None \notin Pids \cup Sessions \cup File \cup Quarantine \cup Entry

VARIABLES dir,    \* the files, by name
          proc,   \* proc[w]: its process ID, its session and how far that is
          job,    \* job[w]: the retention pass or purge w is in the middle of
          used,   \* the session IDs used so far
          now,    \* the time modification times are taken from
          left    \* writes, crashes, failures, edits and purges that may still happen

vars == <<dir, proc, job, used, now, left>>

Stages == {"none", "reserved", "claimed", "open", "aborting", "published",
           "pruned", "unlocked"}
JobPCs == {"none", "scan", "judge", "recover", "cull", "rescan", "rejudge", "next",
           "move", "verify", "unlink", "restore"}
Causes == {"none", "gone", "changed", "failed"}

(* done: which of the repeatable parts of finish are over.  found and       *)
(* guarded: the last inventory and the sessions it protects; todo: what the *)
(* pass listed or the user confirmed, over: what a purge has dealt with; item, aside, cause: the *)
(* file being unlinked, its quarantine name, and why it must be put back.   *)
NoProc == [pid |-> None, session |-> None, stage |-> "none", done |-> {}]
NoJob  == [pc |-> "none", purge |-> FALSE, found |-> {}, guarded |-> {}, todo |-> {}, over |-> {},
           cutoff |-> 0, budget |-> 0, item |-> None, aside |-> None, cause |-> "none"]

ProcState == [pid : Pids \cup {None}, session : Sessions \cup {None}, stage : Stages,
              done : SUBSET {"retention", "unlock"}]
JobState  == [pc : JobPCs, purge : BOOLEAN, found : SUBSET Entry, guarded : SUBSET Sessions,
              todo : SUBSET Entry, over : SUBSET Entry, cutoff : Nat, budget : Nat,
              item : Entry \cup {None}, aside : Quarantine \cup {None}, cause : Causes]

TypeOK ==
  /\ DOMAIN dir \subseteq Name \cup Quarantine
  /\ \A n \in DOMAIN dir : dir[n] \in File
  /\ proc \in [Procs -> ProcState]
  /\ job \in [Procs -> JobState]
  /\ \A w \in Procs : job[w].over \subseteq job[w].todo
  /\ used \subseteq Sessions
  /\ now \in 0..MaxNow
  /\ left \in [crashes : Nat, faults : Nat, edits : Nat, purges : Nat, writes : Nat]

-----------------------------------------------------------------------------
(* Names and files *)

InPlace(s, kind) == [session |-> s, kind |-> kind, digest |-> None, nonce |-> 0]
Present(n)       == n \in DOMAIN dir
Holds(n, f)      == Present(n) /\ dir[n] = f

With(n, f)    == [m \in DOMAIN dir \cup {n} |-> IF m = n THEN f ELSE dir[m]]
Without(n)    == [m \in DOMAIN dir \ {n} |-> dir[m]]
Renamed(n, m) == [x \in (DOMAIN dir \ {n}) \cup {m} |-> IF x = m THEN dir[n] ELSE dir[x]]

Alive == {proc[v].pid : v \in Procs} \ {None}
Free(w) == proc[w].pid # None /\ job[w].pc = "none"

Spend(kind) == /\ left[kind] > 0
                /\ left' = [left EXCEPT ![kind] = @ - 1]

Enter(w, stage) == proc' = [proc EXCEPT ![w].stage = stage]

LogFile(s, size) == [session |-> s, lock |-> FALSE, size |-> size, mtime |-> now, pid |-> None]
LockFile(s, pid) == [session |-> s, lock |-> TRUE, size |-> IF pid = None THEN 0 ELSE 1,
                     mtime |-> now, pid |-> pid]

-----------------------------------------------------------------------------
(* A session: open_session, write, finish, abort *)

Launch(w) ==
  /\ proc[w].pid = None
  /\ \E p \in Pids \ Alive : proc' = [proc EXCEPT ![w] = [NoProc EXCEPT !.pid = p]]
  /\ UNCHANGED <<dir, job, used, now, left>>

(* open_session creates the lock file exclusively ... *)
Reserve(w, s) ==
  /\ Free(w) /\ proc[w].stage = "none"
  /\ s \notin used
  /\ used' = used \cup {s}
  /\ dir' = With(InPlace(s, "lock"), LockFile(s, None))
  /\ proc' = [proc EXCEPT ![w].stage = "reserved", ![w].session = s, ![w].done = {}]
  /\ UNCHANGED <<job, now, left>>

Drop(w, kind, stage) ==
  LET n == InPlace(proc[w].session, kind)
  IN  /\ dir' = Without(n)
      /\ proc' = [proc EXCEPT ![w].stage = stage,
                              ![w].session = IF stage = "none" THEN None ELSE @]

(* ... writes its owner into it ... *)
Claim(w) ==
  LET s == proc[w].session
  IN  /\ proc[w].stage = "reserved"
      /\ \/ /\ dir' = With(InPlace(s, "lock"), LockFile(s, proc[w].pid))
            /\ Enter(w, "claimed")
            /\ UNCHANGED left
         \/ Spend("faults") /\ Drop(w, "lock", "none")
      /\ UNCHANGED <<job, used, now>>

(* ... and creates the partial file, unless the ID is taken. *)
Create(w) ==
  LET s == proc[w].session
      taken == Present(InPlace(s, "finalized")) \/ Present(InPlace(s, "partial"))
  IN  /\ proc[w].stage = "claimed"
      /\ \/ /\ ~taken
            /\ dir' = With(InPlace(s, "partial"), LogFile(s, 0))
            /\ Enter(w, "open")
            /\ UNCHANGED left
         \/ /\ IF taken THEN UNCHANGED left ELSE Spend("faults")
            /\ Drop(w, "lock", "none")
      /\ UNCHANGED <<job, used, now>>

Write(w) ==
  LET n == InPlace(proc[w].session, "partial")
  IN  /\ Free(w) /\ proc[w].stage = "open"
      /\ Spend("writes")
      /\ dir' = With(n, LogFile(proc[w].session, dir[n].size + 1))
      /\ UNCHANGED <<proc, job, used, now>>

(* Starting failed after the session was opened, or its file could not be  *)
(* protected: both files go, in this order.                                *)
Abort(w) ==
  /\ Free(w)
  /\ \/ proc[w].stage = "open" /\ Spend("faults") /\ Drop(w, "partial", "aborting")
     \/ proc[w].stage = "aborting" /\ UNCHANGED left /\ Drop(w, "lock", "none")
  /\ UNCHANGED <<job, used, now>>

(* finish: flush, close and publish, prune, release the reservation, sync.  *)
(* A flush, close or rename that fails changes nothing here.                *)
Publish(w) ==
  LET s == proc[w].session
  IN  /\ Free(w) /\ proc[w].stage = "open"
      /\ dir' = Renamed(InPlace(s, "partial"), InPlace(s, "finalized"))
      /\ Enter(w, "published")
      /\ UNCHANGED <<job, used, now, left>>

(* What was done is not done again when finish is retried. *)
Prune(w) ==
  /\ Free(w) /\ proc[w].stage = "published"
  /\ IF "retention" \in proc[w].done
       THEN Enter(w, "pruned") /\ UNCHANGED job
       ELSE /\ job' = [job EXCEPT ![w] = [NoJob EXCEPT !.pc = "scan", !.budget = MaxDeletions]]
            /\ UNCHANGED proc
  /\ UNCHANGED <<dir, used, now, left>>

Unlock(w) ==
  /\ Free(w) /\ proc[w].stage = "pruned"
  /\ \/ /\ dir' = Without(InPlace(proc[w].session, "lock"))
        /\ proc' = [proc EXCEPT ![w].stage = "unlocked", ![w].done = @ \cup {"unlock"}]
        /\ UNCHANGED left
     \/ /\ "unlock" \notin proc[w].done
        /\ Spend("faults") /\ Enter(w, "published") /\ UNCHANGED dir
  /\ UNCHANGED <<job, used, now>>

Sync(w) ==
  /\ Free(w) /\ proc[w].stage = "unlocked"
  /\ \/ /\ proc' = [proc EXCEPT ![w].stage = "none", ![w].session = None, ![w].done = {}]
        /\ UNCHANGED left
     \/ Spend("faults") /\ Enter(w, "published")
  /\ UNCHANGED <<dir, job, used, now>>

Session(w) ==
  \/ \E s \in Sessions : Reserve(w, s)
  \/ Claim(w) \/ Create(w) \/ Write(w) \/ Abort(w)
  \/ Publish(w) \/ Prune(w) \/ Unlock(w) \/ Sync(w)

-----------------------------------------------------------------------------
(* Unlinking a file only if it is still the one decided on                 *)
(* (filesystem.lua): it is renamed to a fresh quarantine name, looked at   *)
(* there, and unlinked or renamed back.  What a failure means is read off  *)
(* its message: ENOENT anywhere in it says the file is gone.               *)

Work(w, pc) == proc[w].pid # None /\ job[w].pc = pc

EndPass(w, good) ==
  /\ job' = [job EXCEPT ![w] = NoJob]
  /\ proc' = [proc EXCEPT ![w].stage = "pruned",
                          ![w].done = IF good THEN @ \cup {"retention"} ELSE @]
EndPurge(w) == job' = [job EXCEPT ![w] = NoJob] /\ UNCHANGED proc
GiveUp(w)   == IF job[w].purge THEN EndPurge(w) ELSE EndPass(w, FALSE)

Away(e)   == e.name.digest # None
IsLock(e) == ~Away(e) /\ e.name.kind = "lock"

(* A purge goes on whatever became of the file; a retention pass only if    *)
(* the file is gone.                                                        *)
Settle(w, result) ==
  LET j == job[w]
      rest == [j EXCEPT !.item = None, !.aside = None, !.cause = "none"]
  IN  IF j.purge
        THEN /\ job' = [job EXCEPT ![w] = [rest EXCEPT !.pc = "next", !.over = @ \cup {j.item}]]
             /\ UNCHANGED proc
      ELSE IF result \in {"removed", "gone"}
        THEN /\ job' = [job EXCEPT ![w] = [rest EXCEPT !.pc = IF Away(j.item) THEN "recover" ELSE "cull",
                                                       !.found = @ \ {j.item}, !.budget = @ - 1]]
             /\ UNCHANGED proc
      ELSE EndPass(w, FALSE)

(* Nonces are random: no name anybody still knows of is made again. *)
KnownNames  == DOMAIN dir \cup
               UNION {{e.name : e \in job[v].found \cup job[v].todo \cup ({job[v].item} \ {None})}
                        \cup ({job[v].aside} \ {None}) : v \in Procs}
FreshNonce  == CHOOSE k \in 1..(Cardinality(KnownNames) + 1) : \A n \in KnownNames : n.nonce # k
Hidden(e)   == [session |-> e.name.session, kind |-> e.name.kind, digest |-> e.file,
                nonce |-> FreshNonce]

PutBack(w, cause) == /\ job' = [job EXCEPT ![w].pc = "restore", ![w].cause = cause]
                     /\ UNCHANGED proc

Move(w) ==
  LET e == job[w].item
  IN  /\ Work(w, "move")
      /\ \/ /\ Present(e.name)
            /\ dir' = Renamed(e.name, Hidden(e))
            /\ job' = [job EXCEPT ![w].pc = "verify", ![w].aside = Hidden(e)]
            /\ UNCHANGED <<proc, left>>
         \/ ~Present(e.name) /\ Settle(w, "gone") /\ UNCHANGED <<dir, left>>
         \/ Spend("faults") /\ Settle(w, "failed") /\ UNCHANGED dir
      /\ UNCHANGED <<used, now>>

(* Mutant: unlinks whatever was renamed. *)
VerifyNothing(w) ==
  /\ Work(w, "verify")
  /\ job' = [job EXCEPT ![w].pc = "unlink"]
  /\ UNCHANGED <<dir, proc, used, now, left>>

(* Mutant: a changed file is not renamed back. *)
VerifyOrLeave(w) ==
  /\ Work(w, "verify")
  /\ \/ /\ Holds(job[w].aside, job[w].item.file)
        /\ job' = [job EXCEPT ![w].pc = "unlink"]
        /\ UNCHANGED proc
     \/ ~Holds(job[w].aside, job[w].item.file) /\ Settle(w, "changed")
  /\ UNCHANGED <<dir, used, now, left>>

Verify(w) ==
  /\ Work(w, "verify")
  /\ \/ /\ Holds(job[w].aside, job[w].item.file)
        /\ job' = [job EXCEPT ![w].pc = "unlink"]
        /\ UNCHANGED <<proc, left>>
     \/ /\ ~Holds(job[w].aside, job[w].item.file)
        /\ PutBack(w, IF Present(job[w].aside) THEN "changed" ELSE "gone")
        /\ UNCHANGED left
     \/ Spend("faults") /\ PutBack(w, "failed")
  /\ UNCHANGED <<dir, used, now>>

Unlink(w) ==
  /\ Work(w, "unlink")
  /\ \/ /\ Present(job[w].aside)
        /\ dir' = Without(job[w].aside)
        /\ Settle(w, "removed")
        /\ UNCHANGED left
     \/ ~Present(job[w].aside) /\ PutBack(w, "gone") /\ UNCHANGED <<dir, left>>
     \/ Spend("faults") /\ PutBack(w, "failed") /\ UNCHANGED dir
  /\ UNCHANGED <<used, now>>

(* Renaming back never replaces a file; what cannot go back stays hidden.   *)
PutsBack(w) == Present(job[w].aside) /\ ~Present(job[w].item.name)
Restore(w) ==
  LET j == job[w]
  IN  /\ Work(w, "restore")
      /\ \/ /\ PutsBack(w)
            /\ dir' = Renamed(j.aside, j.item.name)
            /\ Settle(w, j.cause) /\ UNCHANGED left
         \/ /\ ~PutsBack(w)
            /\ Settle(w, IF Present(j.aside) THEN j.cause ELSE "gone")
            /\ UNCHANGED <<dir, left>>
         \/ Spend("faults") /\ Settle(w, j.cause) /\ UNCHANGED dir
      /\ UNCHANGED <<used, now>>

UnlinkIfSame(w) == Move(w) \/ Verify(w) \/ Unlink(w) \/ Restore(w)

-----------------------------------------------------------------------------
(* Inventories and who is protected                                        *)

Listed(kinds) == {[name |-> n, file |-> dir[n]] : n \in {m \in DOMAIN dir :
                    IF m.digest = None THEN m.kind \in kinds ELSE dir[m] = m.digest}}

(* Mutant: the owner is not looked for. *)
OwnerAliveNever(s) == FALSE

(* Retention: a lock counts if its owner runs; an empty lock has no owner. *)
OwnerAlive(s) == Present(InPlace(s, "lock")) /\ dir[InPlace(s, "lock")].pid \in Alive

(* Mutant: a lock without an owner is stale. *)
StaleIfEmpty(e) == Holds(e.name, e.file) /\ e.file.pid \notin Alive

(* Purge: only a readable lock whose owner is gone is stale. *)
Stale(e) == Holds(e.name, e.file) /\ e.file.pid # None /\ e.file.pid \notin Alive
LiveLock(s) == LET n == InPlace(s, "lock")
               IN  Present(n) /\ ~Stale([name |-> n, file |-> dir[n]])
SessionIsProtected(w, s) == proc[w].session = s \/ LiveLock(s)

Scan(w) ==
  /\ Work(w, "scan") \/ Work(w, "rescan")
  /\ \/ /\ Cardinality(DOMAIN dir) <= MaxScanned
        /\ job' = [job EXCEPT ![w].pc = IF @ = "scan" THEN "judge" ELSE "rejudge",
                              ![w].found = Listed(IF job[w].purge THEN {"partial", "finalized", "lock"}
                                                                  ELSE {"finalized", "lock"})]
        /\ UNCHANGED <<proc, left>>
     \/ /\ IF Cardinality(DOMAIN dir) > MaxScanned THEN UNCHANGED left ELSE Spend("faults")
        /\ GiveUp(w)
  /\ UNCHANGED <<dir, used, now>>

JudgeRetention(w) ==
  LET locks == {e \in job[w].found : IsLock(e)}
  IN  /\ Work(w, "judge") /\ ~job[w].purge
      /\ job' = [job EXCEPT ![w].pc = "recover", ![w].found = @ \ locks, ![w].todo = job[w].found \ locks,
                            ![w].guarded = {s \in {e.name.session : e \in locks} : OwnerAlive(s)}]
      /\ UNCHANGED <<dir, proc, used, now, left>>

PurgeGuard(w) == ({proc[w].session} \ {None}) \cup
                 {e.name.session : e \in {l \in job[w].found : IsLock(l) /\ ~Stale(l)}}

(* The preview's targets are shown to the user, who goes on or cancels. *)
JudgePurge(w) ==
  LET guarded == PurgeGuard(w)
      targets == {e \in job[w].found : e.name.session \notin guarded}
  IN  /\ Work(w, "judge") /\ job[w].purge
      /\ \/ EndPurge(w)
         \/ /\ targets # {}
            /\ job' = [job EXCEPT ![w].pc = "rescan", ![w].found = {}, ![w].todo = targets]
            /\ UNCHANGED proc
      /\ UNCHANGED <<dir, used, now, left>>

RejudgePurge(w) ==
  /\ Work(w, "rejudge")
  /\ job' = [job EXCEPT ![w].pc = "next", ![w].guarded = PurgeGuard(w),
                          ![w].found = @ \cap job[w].todo]
  /\ UNCHANGED <<dir, proc, used, now, left>>

-----------------------------------------------------------------------------
(* The retention pass *)

Own(w) == InPlace(proc[w].session, "finalized")
Expendable(w) == {e \in job[w].found : e.name # Own(w) /\ e.name.session \notin job[w].guarded}
Expired(w)    == {e \in Expendable(w) : e.file.mtime < job[w].cutoff}
Surplus(w)    == IF Cardinality(job[w].found) > KeepSessions THEN Expendable(w) ELSE {}
Before(e, f)  == \/ e.file.mtime < f.file.mtime
                 \/ e.file.mtime = f.file.mtime /\ e.name.session <= f.name.session
Oldest(E)     == {e \in E : \A f \in E : Before(e, f)}

Target(w, e)  == /\ job' = [job EXCEPT ![w].pc = "move", ![w].item = e]
                 /\ UNCHANGED proc

(* Interrupted deletions are finished first. *)
Recover(w) ==
  LET left_over == {e \in job[w].found : Away(e)}
  IN  /\ Work(w, "recover")
      /\ IF left_over = {}
           THEN /\ job' = [job EXCEPT ![w].pc = "cull",
                                      ![w].cutoff = IF now > KeepAge THEN now - KeepAge ELSE 0]
                /\ UNCHANGED proc
         ELSE IF job[w].budget = 0 THEN EndPass(w, FALSE)
         ELSE \E e \in left_over : Target(w, e)
      /\ UNCHANGED <<dir, used, now, left>>

Victims(w) == IF Expired(w) # {} THEN Oldest(Expired(w)) ELSE Oldest(Surplus(w))
(* Mutant: a pass cut short by its budget counts as done. *)
CullOrStop(w) ==
  /\ Work(w, "cull")
  /\ IF Victims(w) = {} \/ job[w].budget = 0 THEN EndPass(w, TRUE)
     ELSE \E e \in Victims(w) : Target(w, e)
  /\ UNCHANGED <<dir, used, now, left>>

(* Mutant: no budget. *)
CullAll(w) ==
  /\ Work(w, "cull")
  /\ IF Victims(w) = {} THEN EndPass(w, TRUE) ELSE \E e \in Victims(w) : Target(w, e)
  /\ UNCHANGED <<dir, used, now, left>>

Cull(w) ==
  /\ Work(w, "cull")
  /\ IF Victims(w) = {} THEN EndPass(w, TRUE)
     ELSE IF job[w].budget = 0 THEN EndPass(w, FALSE)
     ELSE \E e \in Victims(w) : Target(w, e)
  /\ UNCHANGED <<dir, used, now, left>>

-----------------------------------------------------------------------------
(* :KeyInsightsPurge *)

Purge(w) ==
  /\ Free(w) /\ proc[w].stage \in {"none", "open", "published"}
  /\ Spend("purges")
  /\ job' = [job EXCEPT ![w] = [NoJob EXCEPT !.pc = "scan", !.purge = TRUE]]
  /\ UNCHANGED <<dir, proc, used, now>>

(* Confirmed, listed again as it was, and its session not protected. *)
Eligible(w, e) ==
  /\ e \in job[w].found
  /\ Holds(e.name, e.file)
  /\ e.name.session \notin job[w].guarded
  /\ ~SessionIsProtected(w, e.name.session)

NextInLine(rest) == IF \A e \in rest : IsLock(e) THEN rest ELSE {e \in rest : ~IsLock(e)}

PurgeNext(w) ==
  LET rest == job[w].todo \ job[w].over
  IN  /\ Work(w, "next")
      /\ IF rest = {} THEN EndPurge(w)
         ELSE \E e \in NextInLine(rest) :
                IF Eligible(w, e)
                  THEN Target(w, e)
                  ELSE job' = [job EXCEPT ![w].over = @ \cup {e}] /\ UNCHANGED proc
      /\ UNCHANGED <<dir, used, now, left>>

-----------------------------------------------------------------------------
(* The rest of the world *)

Crash(w) ==
  /\ proc[w].pid # None
  /\ IF proc[w].stage = "none" /\ job[w].pc = "none" THEN UNCHANGED left ELSE Spend("crashes")
  /\ proc' = [proc EXCEPT ![w] = NoProc]
  /\ job' = [job EXCEPT ![w] = NoJob]
  /\ UNCHANGED <<dir, used, now>>

Edit ==
  /\ Spend("edits")
  /\ \E s \in Sessions :
       LET n == InPlace(s, "finalized")
       IN  Present(n) /\ dir' = With(n, LogFile(s, dir[n].size + 1))
  /\ UNCHANGED <<proc, job, used, now>>

Tick == now < MaxNow /\ now' = now + 1 /\ UNCHANGED <<dir, proc, job, used, left>>

Job(w) ==
  \/ Scan(w) \/ JudgeRetention(w) \/ JudgePurge(w) \/ RejudgePurge(w)
  \/ Recover(w) \/ Cull(w) \/ Purge(w) \/ PurgeNext(w) \/ UnlinkIfSame(w)

Init ==
  /\ dir = [n \in {} |-> None]
  /\ proc = [w \in Procs |-> NoProc]
  /\ job = [w \in Procs |-> NoJob]
  /\ used = {}
  /\ now = 0
  /\ left = [crashes |-> MaxCrashes, faults |-> MaxFaults, edits |-> MaxEdits, purges |-> MaxPurges,
             writes |-> MaxWrites]

Next == Edit \/ Tick \/ \E w \in Procs : Launch(w) \/ Session(w) \/ Job(w) \/ Crash(w)

Spec == Init /\ [][Next]_vars

-----------------------------------------------------------------------------
(* Properties *)

(* As long as a session is open or its reservation is held, nobody else    *)
(* takes its reservation, its partial file or its published log away, even *)
(* when the purge or pass decided before the session existed.              *)
LiveSessionKeepsFiles ==
  \A w \in Procs :
    LET s == proc[w].session
    IN  /\ proc[w].stage \notin {"none", "unlocked"} /\ "unlock" \notin proc[w].done
             => Present(InPlace(s, "lock"))
        /\ proc[w].stage = "open" => Present(InPlace(s, "partial"))
        /\ proc[w].stage \in {"published", "pruned"} /\ "unlock" \notin proc[w].done
             => Present(InPlace(s, "finalized"))

(* A file renamed away is put back or unlinked by whoever renamed it.  Only *)
(* a crash or a failure leaves one hidden, and then the next pass or purge  *)
(* finds it, unless somebody had changed the file in the meantime.          *)
NothingStaysHidden ==
  \A n \in DOMAIN dir :
    \/ n.digest = None
    \/ \E w \in Procs : job[w].aside = n
    \/ /\ left.crashes < MaxCrashes \/ left.faults < MaxFaults
       /\ dir[n] = n.digest \/ left.edits < MaxEdits

Destroys(w) == job[w].pc = "unlink" /\ Present(job[w].aside) /\ job[w].aside \notin DOMAIN dir'

(* Only a file that is unchanged since its deletion was decided, for a      *)
(* purge since the user saw its name, is destroyed.                         *)
DeletesOnlyWhatItSaw ==
  [][\A w \in Procs : Destroys(w) =>
       \E e \in job[w].todo : e.file = dir[job[w].aside]]_vars

(* A pass that reports success has converged: of the logs it listed none    *)
(* is expired or too many, unless protected, and no interrupted deletion it *)
(* could finish is left.  An edit or a failure elsewhere may undo that.     *)
RetentionConverges ==
  [][\A w \in Procs :
       "retention" \in proc'[w].done \ proc[w].done
         /\ left.faults = MaxFaults /\ left.edits = MaxEdits =>
       LET kept == {e \in job[w].todo : Holds(e.name, e.file)}
           free == {e \in kept : e.name # Own(w) /\ e.name.session \notin job[w].guarded}
       IN  /\ \A e \in kept : ~Away(e)
           /\ \A e \in free : e.file.mtime >= job[w].cutoff
           /\ Cardinality(kept) <= KeepSessions \/ free = {}]_vars
=============================================================================
