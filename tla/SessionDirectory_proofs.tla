----------------------- MODULE SessionDirectory_proofs -----------------------
(***************************************************************************)
(* For every number of processes and sessions, every budget and any number *)
(* of crashes, failures and edits: LiveSessionKeepsFiles,                  *)
(* DeletesOnlyWhatItSaw, NothingStaysHidden and RetentionConverges.        *)
(*                                                                         *)
(* A session is held while its reservation must be respected (Holding).    *)
(* The invariant says what protects it from passes and purges that work    *)
(* from inventories of any age: a lock with the ID of a living process, or *)
(* an empty one nothing but the lock is there to be listed for (Keeps,     *)
(* Unwritten); an inventory that lists a file of a held session lists its  *)
(* lock as well (JobSpares), as a session can only become held with an ID  *)
(* no inventory knows; and no file in place that a job is about to rename  *)
(* belongs to a held session.  A quarantine name holds the file it carries *)
(* the identity of when it is unlinked (JobAside), because it is fresh when *)
(* it is made (HiddenIsFresh), and whoever has the same name in an         *)
(* inventory knows of it (KnownHas, Tame).                                 *)
(*                                                                         *)
(* The other two properties need a second invariant, HInv, about where     *)
(* files are.  There is one of a session and kind, in place or hidden      *)
(* (Unique), none of a held session is hidden (Aloof), and a hidden one    *)
(* has an owner and is what its name says, but for crashes, failures and   *)
(* edits (Hiding).  What a job has learnt stays true (Tidy): an entry of   *)
(* its inventory is right wherever its file is, and what it has dropped    *)
(* from the inventory is gone, because a log that is in place comes from   *)
(* the one session that has its ID, before that session's log is listed,   *)
(* or from its quarantine name (Calm, Moved).                              *)
(***************************************************************************)
EXTENDS SessionDirectory, FiniteSetTheorems, WellFoundedInduction, TLAPS

-----------------------------------------------------------------------------
(* Sessions. *)

Early == {"reserved", "claimed", "open", "aborting"}

Holding(w) == proc[w].stage \notin {"none", "unlocked"} /\ "unlock" \notin proc[w].done
Held       == {proc[w].session : w \in {v \in Procs : Holding(v)}}
Reserved   == {proc[w].session : w \in {v \in Procs : proc[v].stage = "reserved"}}

Names == \A n \in DOMAIN dir : n.session \in used

Sessional(w) ==
  LET p == proc[w]
  IN  /\ p.pid = None => p = NoProc
      /\ p.stage = "none" <=> p.session = None
      /\ p.session # None => p.session \in used
      /\ p.stage \in Early => p.done = {}
      /\ p.stage = "unlocked" => "unlock" \in p.done
      /\ \A v \in Procs : proc[v].session = p.session /\ p.session # None => v = w
      /\ p.pid # None => \A v \in Procs : proc[v].pid = p.pid => v = w

Keeps(w) ==
  LET p == proc[w]
      lock == InPlace(p.session, "lock")
  IN  /\ Holding(w) => /\ Present(lock)
                       /\ dir[lock].pid = IF p.stage = "reserved" THEN None ELSE p.pid
      /\ p.stage = "open" => Present(InPlace(p.session, "partial"))
      /\ Holding(w) /\ p.stage \in {"published", "pruned"} => Present(InPlace(p.session, "finalized"))

Unwritten ==
  \A n \in DOMAIN dir : ~(n.digest # None) /\ n.session \in Reserved => n.kind = "lock"

-----------------------------------------------------------------------------
(* Jobs. *)

Aiming   == {"move", "verify", "unlink", "restore"}
Renaming == {"verify", "unlink", "restore"}

JobShape(w, j) ==
  /\ j.pc = "none" => j = NoJob
  /\ j.pc # "none" => /\ proc[w].pid # None
                      /\ proc[w].stage \in IF j.purge THEN {"none", "open", "published"} ELSE {"published"}
  /\ IF j.pc \in Aiming THEN j.item \in j.todo ELSE j.item = None
  /\ IF j.pc \in Renaming THEN j.aside \in Quarantine /\ j.aside.digest = j.item.file
                          ELSE j.aside = None
  /\ ~j.purge => /\ j.pc \notin {"rescan", "rejudge", "next"}
                 /\ j.pc \in Aiming => j.budget > 0
                 /\ IF j.pc \in {"scan", "judge"} THEN j.todo = {}
                    ELSE j.found \subseteq j.todo /\ \A e \in j.todo : ~IsLock(e)
  /\ j.purge => /\ j.pc \notin {"recover", "cull"}
                /\ j.pc \in {"scan", "judge"} => j.todo = {}
  /\ j.over \subseteq j.todo
  /\ IsFiniteSet(j.found) /\ IsFiniteSet(j.todo)

JobKnows(j) ==
  \A e \in j.found \cup j.todo :
    /\ e.name.session \in used
    /\ Away(e) => /\ e.file = e.name.digest
                  /\ Present(e.name) => dir[e.name] = e.name.digest

JobSpares(j) ==
  /\ j.purge => \A e \in j.todo : e.name.session \notin Held
  /\ ~j.purge /\ j.pc \notin {"scan", "judge"} =>
       \A e \in j.found : ~Away(e) /\ e.name.session \in Held => e.name.session \in j.guarded
  /\ j.pc \in Aiming /\ ~Away(j.item) => j.item.name.session \notin Held
  /\ j.pc = "judge" =>
       \A e \in j.found : e.name.session \in Held =>
         \E l \in j.found : l.name = InPlace(e.name.session, "lock")
  /\ \A e \in j.found : ~Away(e) /\ e.name.session \in Reserved => IsLock(e)

JobAside(j) ==
  j.pc \in Renaming /\ Present(j.aside) /\ (Away(j.item) \/ j.pc = "unlink")
    => dir[j.aside] = j.aside.digest

JobOK(w, j) == j \in JobState /\ JobShape(w, j) /\ JobKnows(j) /\ JobSpares(j) /\ JobAside(j)

SessionsOK == \A w \in Procs : Sessional(w) /\ Keeps(w)
JobsOK     == \A w \in Procs : JobOK(w, job[w])

IInv == TypeOK /\ IsFiniteSet(DOMAIN dir) /\ Names /\ Unwritten /\ SessionsOK /\ JobsOK

-----------------------------------------------------------------------------
(* Names. *)

Kinds3 == {"partial", "finalized", "lock"}

LEMMA InPlaceNames ==
  ASSUME NEW s, NEW kind
  PROVE  /\ InPlace(s, kind).session = s /\ InPlace(s, kind).kind = kind
         /\ InPlace(s, kind).digest = None
         /\ s \in Sessions /\ kind \in Kinds3 => InPlace(s, kind) \in Name
BY DEF InPlace, Name, Kinds3

LEMMA NamesInPlace ==
  ASSUME NEW n \in Name
  PROVE  n = InPlace(n.session, n.kind) /\ n.digest = None /\ n.session \in Sessions
BY DEF InPlace, Name

LEMMA NamesAside ==
  ASSUME NEW n \in Quarantine
  PROVE  n.digest \in File /\ n.digest # None /\ n \notin Name /\ n.session \in Sessions
<1>1. n.digest \in File /\ n.session \in Sessions
  BY DEF Quarantine
<1>2. n.digest # None
  BY <1>1, NoneAssumption
<1> QED BY <1>1, <1>2 DEF Name

LEMMA Entries ==
  ASSUME NEW e \in Entry
  PROVE  /\ e.name \in Name \cup Quarantine /\ e.file \in File /\ e # None
         /\ IF Away(e) THEN e.name \in Quarantine ELSE e.name \in Name
<1>1. e.name \in Name \cup Quarantine /\ e.file \in File /\ e # None
  BY NoneAssumption DEF Entry
<1> QED BY <1>1, NamesInPlace, NamesAside DEF Away

(* The names a process still knows of. *)
KnownOf(v) == {e.name : e \in job[v].found \cup job[v].todo \cup ({job[v].item} \ {None})}
                \cup ({job[v].aside} \ {None})

LEMMA KnownHas ==
  /\ DOMAIN dir \subseteq KnownNames
  /\ \A v \in Procs : /\ \A e \in job[v].found \cup job[v].todo : e.name \in KnownNames
                      /\ job[v].aside # None => job[v].aside \in KnownNames
                      /\ job[v].item # None => job[v].item.name \in KnownNames
<1>1. KnownNames = DOMAIN dir \cup UNION {KnownOf(v) : v \in Procs}
  BY DEF KnownNames, KnownOf
<1>2. \A v \in Procs : KnownOf(v) \subseteq KnownNames
  BY <1>1
<1>3. ASSUME NEW v \in Procs
      PROVE  /\ \A e \in job[v].found \cup job[v].todo : e.name \in KnownOf(v)
             /\ job[v].aside # None => job[v].aside \in KnownOf(v)
             /\ job[v].item # None => job[v].item.name \in KnownOf(v)
  BY DEF KnownOf
<1> QED BY <1>1, <1>2, <1>3

LEMMA ImageFinite ==
  ASSUME NEW S, IsFiniteSet(S), NEW T, NEW f \in [S -> T], T = {f[x] : x \in S}
  PROVE  IsFiniteSet(T) /\ Cardinality(T) <= Cardinality(S)
<1>1. f \in Surjection(S, T)
  BY DEF Surjection
<1> QED BY <1>1, FS_Surjection

LEMMA KnownFinite ==
  ASSUME IInv
  PROVE  IsFiniteSet(KnownNames)
<1>1. ASSUME NEW v \in Procs PROVE IsFiniteSet(KnownOf(v))
  <2> DEFINE E == job[v].found \cup job[v].todo \cup ({job[v].item} \ {None})
             N == {e.name : e \in E}
             f == [e \in E |-> e.name]
  <2>1. IsFiniteSet(job[v].found) /\ IsFiniteSet(job[v].todo)
    BY DEF IInv, JobsOK, JobOK, JobShape
  <2>2. IsFiniteSet(job[v].found \cup job[v].todo)
    BY <2>1, FS_Union
  <2>3. \A x : IsFiniteSet({x} \ {None})
    BY FS_Singleton, FS_Difference
  <2>4. IsFiniteSet(E)
    <3>1. IsFiniteSet({job[v].item} \ {None})
      BY <2>3
    <3> QED BY <2>2, <3>1, FS_Union
  <2>5. IsFiniteSet(N)
    <3>1. f \in [E -> N] /\ N = {f[e] : e \in E}
      OBVIOUS
    <3> HIDE DEF E, N, f
    <3> QED BY <2>4, <3>1, ImageFinite
  <2>6. KnownOf(v) = N \cup ({job[v].aside} \ {None})
    BY DEF KnownOf
  <2>7. IsFiniteSet({job[v].aside} \ {None})
    BY <2>3
  <2> HIDE DEF N
  <2> QED BY <2>5, <2>6, <2>7, FS_Union
<1> DEFINE F == [v \in Procs |-> KnownOf(v)]
           K == {F[v] : v \in Procs}
<1>2. IsFiniteSet(K)
  <2>1. F \in [Procs -> K]
    OBVIOUS
  <2> HIDE DEF F
  <2> QED BY <2>1, ImageFinite, RetentionAssumption
<1>3. \A T \in K : IsFiniteSet(T)
  BY <1>1
<1>4. IsFiniteSet(UNION K)
  <2> HIDE DEF K
  <2> QED BY <1>2, <1>3, FS_UNION
<1>5. KnownNames = DOMAIN dir \cup UNION K
  BY DEF KnownNames, KnownOf
<1> HIDE DEF K
<1> QED BY <1>4, <1>5, FS_Union DEF IInv

(* Among one nonce more than there are names, one is fresh. *)
LEMMA Fresh ==
  ASSUME IInv
  PROVE  FreshNonce \in Nat /\ \A n \in KnownNames : n.nonce # FreshNonce
<1> DEFINE c == Cardinality(KnownNames)
           N == {n.nonce : n \in KnownNames}
           f == [n \in KnownNames |-> n.nonce]
<1>1. IsFiniteSet(KnownNames) /\ c \in Nat
  BY KnownFinite, FS_CardinalityType
<1>2. IsFiniteSet(N) /\ Cardinality(N) <= c
  <2>1. f \in [KnownNames -> N] /\ N = {f[n] : n \in KnownNames}
    OBVIOUS
  <2> HIDE DEF N, f
  <2> QED BY <1>1, <2>1, ImageFinite
<1>3. IsFiniteSet(1 .. (c + 1)) /\ Cardinality(1 .. (c + 1)) = c + 1
  <2>1. 1 \in Int /\ c + 1 \in Int /\ ~(1 > c + 1) /\ (c + 1) - 1 + 1 = c + 1
    BY <1>1
  <2> HIDE DEF c
  <2> QED BY <2>1, FS_Interval
<1>4. ~(1 .. (c + 1) \subseteq N)
  <2>1. 1 .. (c + 1) \subseteq N => Cardinality(1 .. (c + 1)) <= Cardinality(N)
    BY <1>2, FS_Subset
  <2>2. Cardinality(N) \in Nat
    BY <1>2, FS_CardinalityType
  <2> HIDE DEF N, c
  <2> QED BY <1>1, <1>2, <1>3, <2>1, <2>2
<1>5. \E k \in 1 .. (c + 1) : \A n \in KnownNames : n.nonce # k
  BY <1>4
<1>6. FreshNonce \in 1 .. (c + 1) /\ \A n \in KnownNames : n.nonce # FreshNonce
  BY <1>5 DEF FreshNonce
<1> QED BY <1>1, <1>6

LEMMA HiddenIsFresh ==
  ASSUME IInv, NEW e \in Entry
  PROVE  /\ Hidden(e) \in Quarantine /\ Hidden(e) \notin KnownNames
         /\ Hidden(e).session = e.name.session /\ Hidden(e).digest = e.file
<1>1. /\ e.name.session \in Sessions /\ e.name.kind \in {"partial", "finalized", "lock"}
      /\ e.file \in File
  BY DEF Entry, Name, Quarantine
<1>2. Hidden(e).nonce = FreshNonce
  BY DEF Hidden
<1> QED BY <1>1, <1>2, Fresh DEF Hidden, Quarantine

-----------------------------------------------------------------------------
LEMMA NoJobState == NoJob \in JobState
BY DEF NoJob, JobState, JobPCs, Causes

LEMMA IdleOK ==
  ASSUME NEW w
  PROVE  JobOK(w, NoJob)
<1>1. /\ NoJob.pc = "none" /\ NoJob.found = {} /\ NoJob.todo = {} /\ NoJob.over = {}
      /\ NoJob.item = None /\ NoJob.aside = None /\ ~NoJob.purge
  BY DEF NoJob
<1>2. JobShape(w, NoJob)
  BY <1>1, FS_EmptySet DEF JobShape, Aiming, Renaming
<1>3. JobKnows(NoJob) /\ JobSpares(NoJob) /\ JobAside(NoJob)
  BY <1>1 DEF JobKnows, JobSpares, JobAside, Aiming, Renaming
<1> QED BY <1>2, <1>3, NoJobState DEF JobOK

LEMMA InitIInv == Init => IInv
<1> SUFFICES ASSUME Init PROVE IInv
  OBVIOUS
<1>1. NoProc \in ProcState /\ NoProc.pid = None /\ NoProc.stage = "none" /\ NoProc.session = None
  BY DEF NoProc, ProcState, Stages
<1>2. \A w \in Procs : proc[w] = NoProc /\ job[w] = NoJob
  BY DEF Init
<1>3. DOMAIN dir = {} /\ IsFiniteSet(DOMAIN dir)
  BY FS_EmptySet DEF Init
<1>4. TypeOK
  <2>1. proc \in [Procs -> ProcState] /\ job \in [Procs -> JobState]
    BY <1>1, NoJobState DEF Init
  <2>2. \A w \in Procs : job[w].over \subseteq job[w].todo
    BY <1>2 DEF NoJob
  <2>3. used \subseteq Sessions /\ now \in 0 .. MaxNow
    BY RetentionAssumption DEF Init
  <2>4. left \in [crashes : Nat, faults : Nat, edits : Nat, purges : Nat, writes : Nat]
    BY RetentionAssumption DEF Init
  <2> QED BY <1>3, <2>1, <2>2, <2>3, <2>4 DEF TypeOK
<1>5. SessionsOK
  BY <1>1, <1>2 DEF SessionsOK, Sessional, Keeps, Holding, Early
<1>6. JobsOK
  BY <1>2, IdleOK DEF JobsOK
<1> QED BY <1>3, <1>4, <1>5, <1>6 DEF IInv, Names, Unwritten

-----------------------------------------------------------------------------
(* What a step may do to the directory without anybody else's job noticing. *)

FilesTyped ==
  /\ DOMAIN dir \subseteq Name \cup Quarantine
  /\ \A n \in DOMAIN dir : dir[n] \in File
  /\ IsFiniteSet(DOMAIN dir)

(* Whatever is under a quarantine name somebody knows of is what was there, *)
(* or the file the name carries.                                            *)
Tame ==
  \A n \in Quarantine : n \in KnownNames /\ n \in DOMAIN dir' =>
    (n \in DOMAIN dir /\ dir'[n] = dir[n]) \/ dir'[n] = n.digest

(* Sessions are only ever opened with new IDs. *)
Opening ==
  /\ used \subseteq used'
  /\ \A s \in Held' : s \in Held \/ s \notin used
  /\ \A s \in Reserved' : s \in Reserved \/ s \notin used

LEMMA JobEntries ==
  ASSUME NEW j \in JobState
  PROVE  /\ j.found \subseteq Entry /\ j.todo \subseteq Entry /\ j.guarded \subseteq Sessions
         /\ j.item \in Entry \cup {None} /\ j.aside \in Quarantine \cup {None}
         /\ j.budget \in Nat /\ j.cutoff \in Nat /\ j.pc \in JobPCs /\ j.purge \in BOOLEAN
BY DEF JobState

LEMMA JobKept ==
  ASSUME IInv, NEW v \in Procs, job'[v] = job[v], Tame, Opening,
         job[v].pc # "none" => proc'[v].pid = proc[v].pid /\ proc'[v].stage = proc[v].stage
  PROVE  JobOK(v, job[v])'
<1> DEFINE j == job[v]
<1>1. j \in JobState /\ JobShape(v, j) /\ JobKnows(j) /\ JobSpares(j) /\ JobAside(j)
  BY DEF IInv, JobsOK, JobOK
<1>2. JobShape(v, job[v])'
  BY <1>1 DEF JobShape, IsLock, Away
<1>3. j.found \subseteq Entry /\ j.todo \subseteq Entry /\ j.aside \in Quarantine \cup {None}
  BY <1>1, JobEntries
<1>4. JobKnows(job[v])'
  <2> SUFFICES ASSUME NEW e \in j.found \cup j.todo
               PROVE  /\ e.name.session \in used'
                      /\ Away(e) => /\ e.file = e.name.digest
                                    /\ Present(e.name)' => dir'[e.name] = e.name.digest
    BY DEF JobKnows, Away
  <2>1. e.name.session \in used /\ e \in Entry
    BY <1>1, <1>3 DEF JobKnows
  <2>2. e.name.session \in used'
    BY <2>1 DEF Opening
  <2>3. e.name \in KnownNames
    BY KnownHas
  <2>4. ASSUME Away(e), Present(e.name)'
        PROVE  dir'[e.name] = e.name.digest
    <3>1. e.name \in Quarantine
      BY <2>1, <2>4, Entries
    <3> QED BY <1>1, <2>3, <2>4, <3>1 DEF Tame, JobKnows, Present
  <2> QED BY <1>1, <2>2, <2>4 DEF JobKnows
<1>5. \A e \in j.found \cup j.todo : e.name.session \in used
  BY <1>1 DEF JobKnows
<1>6. JobSpares(job[v])'
  <2> DEFINE Settled(e) == /\ e.name.session \in Held' => e.name.session \in Held
                           /\ e.name.session \in Reserved' => e.name.session \in Reserved
  <2>0. \A e \in j.found \cup j.todo : Settled(e)
    BY <1>5 DEF Opening
  <2>1. (\A e \in j.found : Settled(e)) /\ (\A e \in j.todo : Settled(e))
    BY <2>0
  <2>2. j.pc \in Aiming => j.item \in j.todo
    BY <1>1 DEF JobShape
  <2>3. job'[v] = j
    OBVIOUS
  <2>4. j.purge => \A e \in j.todo : e.name.session \notin Held'
    BY <1>1, <2>1 DEF JobSpares
  <2>5. ~j.purge /\ j.pc \notin {"scan", "judge"} =>
          \A e \in j.found : ~Away(e) /\ e.name.session \in Held' => e.name.session \in j.guarded
    BY <1>1, <2>1 DEF JobSpares
  <2>6. j.pc \in Aiming /\ ~Away(j.item) => j.item.name.session \notin Held'
    BY <1>1, <2>1, <2>2 DEF JobSpares
  <2>7. j.pc = "judge" =>
          \A e \in j.found : e.name.session \in Held' =>
            \E l \in j.found : l.name = InPlace(e.name.session, "lock")
    BY <1>1, <2>1 DEF JobSpares
  <2>8. \A e \in j.found : ~Away(e) /\ e.name.session \in Reserved' => IsLock(e)
    BY <1>1, <2>1 DEF JobSpares
  <2> HIDE DEF j
  <2> QED BY <2>3, <2>4, <2>5, <2>6, <2>7, <2>8 DEF JobSpares, Away, IsLock
<1>7. JobAside(job[v])'
  <2>1. j.pc \in Renaming => j.aside \in Quarantine
    BY <1>1 DEF JobShape
  <2>2. j.pc \in Renaming => j.aside \in KnownNames
    BY <2>1, <1>1, NoneAssumption, KnownHas
  <2> QED BY <1>1, <2>1, <2>2 DEF JobAside, Away, Tame, Present
<1> QED BY <1>1, <1>2, <1>4, <1>6, <1>7 DEF JobOK

(* A process takes a step in its session: it does no job meanwhile, and     *)
(* touches no names but those of its session.                               *)
LEMMA SessionStep ==
  ASSUME IInv, NEW w \in Procs, NEW p \in ProcState, job[w].pc = "none", proc[w].pid # None,
         proc' = [proc EXCEPT ![w] = p], job' = job, UNCHANGED now,
         left' \in [crashes : Nat, faults : Nat, edits : Nat, purges : Nat, writes : Nat],
         p.pid = proc[w].pid,
         NEW s \in Sessions,
         \/ proc[w].session = s /\ s \in used /\ used' = used /\ p.session \in {s, None}
         \/ proc[w].session = None /\ s \notin used /\ used' = used \cup {s} /\ p.session = s,
         p.stage = "none" <=> p.session = None,
         p.stage \in Early => p.done = {},
         p.stage = "unlocked" => "unlock" \in p.done,
         s \in used => /\ p.stage # "reserved"
                       /\ p.stage \notin {"none", "unlocked"} /\ "unlock" \notin p.done => Holding(w),
         FilesTyped',
         \A n : n.digest # None \/ n.session # s =>
            (n \in DOMAIN dir' <=> n \in DOMAIN dir) /\ (n \in DOMAIN dir => dir'[n] = dir[n]),
         p.stage = "reserved" => \A n \in DOMAIN dir' : n.digest = None /\ n.session = s => n.kind = "lock",
         Keeps(w)'
  PROVE  IInv'
<1>1. TypeOK
  BY DEF IInv
<1>2. proc'[w] = p /\ (\A v \in Procs \ {w} : proc'[v] = proc[v]) /\ proc' \in [Procs -> ProcState]
  BY <1>1 DEF TypeOK
<1>3. \A v \in Procs : Sessional(v)
  BY DEF IInv, SessionsOK
<1>4. /\ \A v \in Procs \ {w} : proc[v].session # s
      /\ \A v \in Procs : proc[v].session # None => proc[v].session \in used
      /\ proc[w].session \in {s, None}
  <2>1. \A v \in Procs : proc[v].session # None => proc[v].session \in used
    BY <1>3 DEF Sessional
  <2>2. s # None
    BY NoneAssumption
  <2>3. CASE proc[w].session = s
    BY <1>3, <2>1, <2>2, <2>3 DEF Sessional
  <2>4. CASE proc[w].session = None /\ s \notin used
    BY <2>1, <2>2, <2>4
  <2> QED BY <2>1, <2>3, <2>4
<1>5. \A v \in Procs \ {w} : Holding(v)' = Holding(v)
  BY <1>2 DEF Holding
<1>6. Opening
  <2>1. ASSUME NEW v \in Procs, Holding(v)'
        PROVE  proc'[v].session \in Held \/ proc'[v].session \notin used
    <3>1. CASE v # w
      BY <1>2, <1>5, <2>1, <3>1 DEF Held
    <3>2. CASE v = w /\ s \in used
      <4>1. p.stage \notin {"none", "unlocked"} /\ "unlock" \notin p.done
        BY <1>2, <2>1, <3>2 DEF Holding
      <4>3. Holding(w) /\ p.session = s
        BY <3>2, <4>1
      <4>2. proc[w].session = s
        BY <3>2
      <4> QED BY <1>2, <3>2, <4>2, <4>3 DEF Held
    <3>3. CASE v = w /\ s \notin used
      BY <1>2, <3>3
    <3> QED BY <3>1, <3>2, <3>3
  <2>2. ASSUME NEW v \in Procs, proc'[v].stage = "reserved"
        PROVE  proc'[v].session \in Reserved \/ proc'[v].session \notin used
    <3>1. CASE v # w
      BY <1>2, <2>2, <3>1 DEF Reserved
    <3>2. CASE v = w
      <4>1. p.stage = "reserved" /\ p.session # None
        BY <1>2, <2>2, <3>2
      <4>2. s \notin used /\ p.session = s
        BY <4>1
      <4> QED BY <1>2, <3>2, <4>2
    <3> QED BY <3>1, <3>2
  <2>3. used \subseteq used'
    OBVIOUS
  <2> QED BY <2>1, <2>2, <2>3 DEF Opening, Held, Reserved
<1>7. Tame
  BY NamesAside DEF Tame
<1>8. JobsOK'
  <2>1. ASSUME NEW v \in Procs PROVE JobOK(v, job[v])'
    <3>1. job[v].pc # "none" => v # w
      OBVIOUS
    <3>2. job'[v] = job[v]
      OBVIOUS
    <3> QED BY <1>2, <1>6, <1>7, <3>1, <3>2, JobKept
  <2> QED BY <2>1 DEF JobsOK
<1>9. TypeOK'
  <2>1. used' \subseteq Sessions
    BY <1>1 DEF TypeOK
  <2> QED BY <1>1, <1>2, <2>1 DEF TypeOK, FilesTyped
<1>10. Names'
  <2> SUFFICES ASSUME NEW n \in DOMAIN dir' PROVE n.session \in used'
    BY DEF Names
  <2>1. CASE n.session = s
    BY <2>1
  <2>2. CASE n.session # s
    <3>1. n \in DOMAIN dir
      BY <2>2
    <3> QED BY <3>1 DEF IInv, Names
  <2> QED BY <2>1, <2>2
<1>11. Unwritten'
  <2> SUFFICES ASSUME NEW n \in DOMAIN dir', n.digest = None, n.session \in Reserved'
               PROVE  n.kind = "lock"
    BY DEF Unwritten
  <2>1. PICK v \in Procs : proc'[v].stage = "reserved" /\ n.session = proc'[v].session
    BY DEF Reserved
  <2>2. CASE v = w
    <3>1. p.stage = "reserved" /\ p.session = s
      BY <1>2, <2>1, <2>2
    <3> QED BY <1>2, <2>1, <2>2, <3>1
  <2>3. CASE v # w
    <3>1. n.session # s /\ n.session \in Reserved
      BY <1>2, <1>4, <2>1, <2>3 DEF Reserved
    <3>2. n \in DOMAIN dir
      BY <3>1
    <3> QED BY <3>1, <3>2 DEF IInv, Unwritten
  <2> QED BY <2>2, <2>3
<1>12. SessionsOK'
  <2>1. ASSUME NEW v \in Procs PROVE Sessional(v)'
    <3>1. CASE v = w
      <4>1. p.pid # None /\ p.session \in {s, None} /\ s \in used' /\ s # None
        BY NoneAssumption
      <4>2. \A u \in Procs : proc[u].pid = proc[w].pid => u = w
        BY <1>3 DEF Sessional
      <4> QED BY <1>2, <1>4, <3>1, <4>1, <4>2 DEF Sessional
    <3>2. CASE v # w
      <4>1. proc'[v] = proc[v] /\ proc[v].session # s /\ Sessional(v) /\ used \subseteq used'
        BY <1>2, <1>3, <1>4, <3>2
      <4>2. \A u \in Procs : proc'[u].pid = proc[u].pid
                          /\ (proc'[u].session = proc[u].session \/ proc'[u].session \in {s, None})
        BY <1>2
      <4> QED BY <3>2, <4>1, <4>2 DEF Sessional
    <3> QED BY <3>1, <3>2
  <2>2. ASSUME NEW v \in Procs PROVE Keeps(v)'
    <3>1. CASE v = w
      BY <3>1
    <3>2. CASE v # w
      <4>1. Keeps(v) /\ proc'[v] = proc[v] /\ Holding(v)' = Holding(v) /\ proc[v].session # s
        BY <1>2, <1>4, <1>5, <3>2 DEF IInv, SessionsOK
      <4>2. \A k : LET n == InPlace(proc[v].session, k)
                   IN  (n \in DOMAIN dir' <=> n \in DOMAIN dir) /\ (n \in DOMAIN dir => dir'[n] = dir[n])
        BY <4>1, InPlaceNames
      <4> QED BY <4>1, <4>2 DEF Keeps, Present
    <3> QED BY <3>1, <3>2
  <2> QED BY <2>1, <2>2 DEF SessionsOK
<1> QED BY <1>8, <1>9, <1>10, <1>11, <1>12 DEF IInv, FilesTyped

-----------------------------------------------------------------------------
(* Files. *)

LEMMA FilesAreTyped ==
  ASSUME IInv
  PROVE  FilesTyped
BY DEF IInv, TypeOK, FilesTyped

LEMMA WithFiles ==
  ASSUME FilesTyped, NEW n \in Name \cup Quarantine, NEW f \in File, dir' = With(n, f)
  PROVE  /\ FilesTyped'
         /\ DOMAIN dir' = DOMAIN dir \cup {n} /\ dir'[n] = f
         /\ \A m : m # n => (m \in DOMAIN dir' <=> m \in DOMAIN dir)
                            /\ (m \in DOMAIN dir => dir'[m] = dir[m])
<1>1. DOMAIN dir' = DOMAIN dir \cup {n} /\ dir'[n] = f
      /\ \A m : m # n /\ m \in DOMAIN dir => dir'[m] = dir[m]
  BY DEF With
<1>2. IsFiniteSet(DOMAIN dir')
  BY <1>1, FS_AddElement DEF FilesTyped
<1> QED BY <1>1, <1>2 DEF FilesTyped

LEMMA WithoutFiles ==
  ASSUME FilesTyped, NEW n, dir' = Without(n)
  PROVE  /\ FilesTyped'
         /\ DOMAIN dir' = DOMAIN dir \ {n}
         /\ \A m : m # n => (m \in DOMAIN dir' <=> m \in DOMAIN dir)
                            /\ (m \in DOMAIN dir => dir'[m] = dir[m])
<1>1. DOMAIN dir' = DOMAIN dir \ {n} /\ \A m \in DOMAIN dir' : dir'[m] = dir[m]
  BY DEF Without
<1>2. IsFiniteSet(DOMAIN dir')
  BY <1>1, FS_Difference DEF FilesTyped
<1> QED BY <1>1, <1>2 DEF FilesTyped

LEMMA RenamedFiles ==
  ASSUME FilesTyped, NEW n \in DOMAIN dir, NEW m \in Name \cup Quarantine, dir' = Renamed(n, m)
  PROVE  /\ FilesTyped'
         /\ DOMAIN dir' = (DOMAIN dir \ {n}) \cup {m} /\ dir'[m] = dir[n]
         /\ \A x : x # n /\ x # m => (x \in DOMAIN dir' <=> x \in DOMAIN dir)
                                    /\ (x \in DOMAIN dir => dir'[x] = dir[x])
<1>1. DOMAIN dir' = (DOMAIN dir \ {n}) \cup {m} /\ dir'[m] = dir[n]
      /\ \A x \in DOMAIN dir' : x # m => dir'[x] = dir[x]
  BY DEF Renamed
<1>2. IsFiniteSet(DOMAIN dir \ {n})
  BY FS_Difference DEF FilesTyped
<1>3. IsFiniteSet(DOMAIN dir')
  BY <1>1, <1>2, FS_AddElement
<1> QED BY <1>1, <1>3 DEF FilesTyped

LEMMA NewFiles ==
  ASSUME TypeOK, NEW s \in Sessions, NEW size \in Nat, NEW pid \in Pids \cup {None}
  PROVE  /\ LogFile(s, size) \in File /\ LockFile(s, pid) \in File
         /\ LogFile(s, size).pid = None /\ LockFile(s, pid).pid = pid
BY RetentionAssumption DEF TypeOK, LogFile, LockFile, File

LEMMA Spending ==
  ASSUME TypeOK, NEW kind \in {"crashes", "faults", "edits", "purges", "writes"},
         Spend(kind) \/ UNCHANGED left
  PROVE  left' \in [crashes : Nat, faults : Nat, edits : Nat, purges : Nat, writes : Nat]
BY DEF TypeOK, Spend

-----------------------------------------------------------------------------
(* Steps of a session. *)

LEMMA SessionFacts ==
  ASSUME IInv, NEW w \in Procs, proc[w].stage # "none"
  PROVE  /\ proc[w] \in ProcState /\ proc[w].pid \in Pids /\ proc[w].pid # None
         /\ proc[w].session \in Sessions /\ proc[w].session \in used /\ proc[w].session # None
         /\ proc[w].stage \in Early => Holding(w) /\ proc[w].done = {}
         /\ proc[w].stage \in {"reserved", "claimed", "aborting", "pruned", "unlocked"} => job[w].pc = "none"
<1>1. proc[w] \in ProcState /\ Sessional(w) /\ JobShape(w, job[w]) /\ job[w] \in JobState
  BY DEF IInv, TypeOK, SessionsOK, JobsOK, JobOK
<1>2. proc[w].pid # None
  BY <1>1 DEF Sessional, NoProc
<1>3. proc[w].session # None /\ proc[w].session \in used
  BY <1>1 DEF Sessional
<1>4. proc[w].stage \in Early => Holding(w) /\ proc[w].done = {}
  BY <1>1 DEF Sessional, Holding, Early
<1>5. proc[w].stage \in {"reserved", "claimed", "aborting", "pruned", "unlocked"} => job[w].pc = "none"
  BY <1>1 DEF JobShape
<1> QED BY <1>1, <1>2, <1>3, <1>4, <1>5 DEF ProcState

LEMMA ReserveStep ==
  ASSUME IInv, NEW w \in Procs, NEW s \in Sessions, Reserve(w, s)
  PROVE  IInv'
<1> DEFINE lock == InPlace(s, "lock")
           p == [proc[w] EXCEPT !.stage = "reserved", !.session = s, !.done = {}]
<1>1. TypeOK /\ FilesTyped /\ proc[w] \in ProcState /\ Sessional(w) /\ Names
  BY FilesAreTyped DEF IInv, TypeOK, SessionsOK
<1>2. /\ p \in ProcState /\ p.pid = proc[w].pid /\ p.session = s /\ p.stage = "reserved"
      /\ p.done = {}
  BY <1>1 DEF ProcState, Stages
<1>3. /\ proc[w].pid # None /\ job[w].pc = "none" /\ proc[w].session = None /\ s \notin used
      /\ used' = used \cup {s} /\ job' = job /\ now' = now
      /\ dir' = With(lock, LockFile(s, None))
      /\ left' \in [crashes : Nat, faults : Nat, edits : Nat, purges : Nat, writes : Nat]
  BY <1>1 DEF Reserve, Free, Sessional, TypeOK
<1>4. proc' = [proc EXCEPT ![w] = p]
  BY <1>1 DEF Reserve, TypeOK
<1>5. /\ lock \in Name \cup Quarantine /\ lock.digest = None /\ lock.session = s /\ lock.kind = "lock"
      /\ LockFile(s, None) \in File /\ LockFile(s, None).pid = None
  BY <1>1, InPlaceNames, NewFiles, RetentionAssumption DEF Kinds3
<1>6. /\ FilesTyped' /\ DOMAIN dir' = DOMAIN dir \cup {lock} /\ dir'[lock].pid = None
      /\ \A m : m # lock => (m \in DOMAIN dir' <=> m \in DOMAIN dir)
                            /\ (m \in DOMAIN dir => dir'[m] = dir[m])
  BY <1>1, <1>3, <1>5, WithFiles
<1>7. proc'[w] = p
  BY <1>1, <1>4 DEF TypeOK
<1> HIDE DEF lock, p
<1>8. Keeps(w)'
  BY <1>2, <1>6, <1>7 DEF Keeps, Holding, Present, lock
<1>9. \A n \in DOMAIN dir' : n.digest = None /\ n.session = s => n.kind = "lock"
  BY <1>1, <1>3, <1>5, <1>6 DEF Names
<1>10. \A n : n.digest # None \/ n.session # s =>
         (n \in DOMAIN dir' <=> n \in DOMAIN dir) /\ (n \in DOMAIN dir => dir'[n] = dir[n])
  BY <1>5, <1>6
<1>11. p.stage # "none" /\ p.session # None
  BY <1>2, NoneAssumption
<1> QED BY <1>2, <1>3, <1>4, <1>6, <1>8, <1>9, <1>10, <1>11, SessionStep

(* A step of an open session s that leaves everything but the file n alone. *)
LEMMA OpenStep ==
  ASSUME IInv, NEW w \in Procs, proc[w].stage # "none", job[w].pc = "none",
         NEW p \in ProcState, proc' = [proc EXCEPT ![w] = p], UNCHANGED <<job, used, now>>,
         NEW kind \in {"crashes", "faults", "edits", "purges", "writes"}, Spend(kind) \/ UNCHANGED left,
         p.pid = proc[w].pid,
         IF p.stage = "none" THEN p.session = None ELSE p.session = proc[w].session,
         p.stage # "reserved",
         p.stage \in Early => p.done = {},
         p.stage = "unlocked" => "unlock" \in p.done,
         p.stage \notin {"none", "unlocked"} /\ "unlock" \notin p.done => Holding(w),
         FilesTyped',
         \A n : n.digest # None \/ n.session # proc[w].session =>
            (n \in DOMAIN dir' <=> n \in DOMAIN dir) /\ (n \in DOMAIN dir => dir'[n] = dir[n]),
         Keeps(w)'
  PROVE  IInv'
<1> DEFINE s == proc[w].session
<1>1. s \in Sessions /\ s \in used /\ s # None /\ proc[w].pid # None
  BY SessionFacts
<1>2. left' \in [crashes : Nat, faults : Nat, edits : Nat, purges : Nat, writes : Nat]
  BY Spending DEF IInv
<1>3. p.session \in {s, None} /\ (p.stage = "none" <=> p.session = None)
  BY <1>1
<1>4. \A n : n.digest # None \/ n.session # s =>
            (n \in DOMAIN dir' <=> n \in DOMAIN dir) /\ (n \in DOMAIN dir => dir'[n] = dir[n])
  OBVIOUS
<1>5. proc[w].session = s /\ used' = used /\ now' = now /\ job' = job
  OBVIOUS
<1> HIDE DEF s
<1> QED BY <1>1, <1>2, <1>3, <1>4, <1>5, SessionStep

(* A file of the session is removed. *)
LEMMA DropStep ==
  ASSUME IInv, NEW w \in Procs, UNCHANGED <<job, used, now>>,
         NEW kind \in {"crashes", "faults", "edits", "purges", "writes"}, Spend(kind) \/ UNCHANGED left,
         \/ /\ proc[w].stage \in {"claimed", "reserved", "aborting"} /\ Drop(w, "lock", "none")
         \/ /\ proc[w].stage = "open" /\ job[w].pc = "none" /\ Drop(w, "partial", "aborting")
  PROVE  IInv'
<1> DEFINE s == proc[w].session
           lock == InPlace(s, "lock")
<1>1. /\ proc[w].stage # "none" /\ proc[w].stage \in Early /\ job[w].pc = "none" /\ FilesTyped
      /\ proc[w] \in ProcState /\ proc[w].done = {} /\ Holding(w)
  BY SessionFacts, FilesAreTyped DEF Early
<1>2. CASE Drop(w, "lock", "none")
  <2> DEFINE p == [proc[w] EXCEPT !.stage = "none", !.session = None]
  <2>1. dir' = Without(lock) /\ proc' = [proc EXCEPT ![w] = p]
    BY <1>2 DEF Drop, IInv, TypeOK
  <2>2. p \in ProcState /\ p.stage = "none" /\ p.session = None /\ p.pid = proc[w].pid
    BY <1>1 DEF ProcState, Stages
  <2>3. FilesTyped' /\ \A m : m # lock => (m \in DOMAIN dir' <=> m \in DOMAIN dir)
                            /\ (m \in DOMAIN dir => dir'[m] = dir[m])
    BY <1>1, <2>1, WithoutFiles
  <2>4. proc'[w] = p
    BY <2>1 DEF IInv, TypeOK
  <2> HIDE DEF p
  <2>5. Keeps(w)'
    BY <2>2, <2>4 DEF Keeps, Holding
  <2>6. \A n : n.digest # None \/ n.session # s => n # lock
    BY InPlaceNames
  <2> HIDE DEF lock
  <2> QED BY <1>1, <2>1, <2>2, <2>3, <2>5, <2>6, OpenStep DEF Early
<1>3. CASE proc[w].stage = "open" /\ Drop(w, "partial", "aborting")
  <2> DEFINE p == [proc[w] EXCEPT !.stage = "aborting"]
             partial == InPlace(s, "partial")
  <2>1. dir' = Without(partial) /\ proc' = [proc EXCEPT ![w] = p]
    <3>1. [proc[w] EXCEPT !.stage = "aborting", !.session = proc[w].session] = p
      BY <1>1 DEF ProcState
    <3> QED BY <1>3, <3>1 DEF Drop, IInv, TypeOK
  <2>2. p \in ProcState /\ p.stage = "aborting" /\ p.session = s /\ p.pid = proc[w].pid /\ p.done = {}
    BY <1>1 DEF ProcState, Stages
  <2>3. FilesTyped' /\ \A m : m # partial => (m \in DOMAIN dir' <=> m \in DOMAIN dir)
                            /\ (m \in DOMAIN dir => dir'[m] = dir[m])
    BY <1>1, <2>1, WithoutFiles
  <2>4. proc'[w] = p
    BY <2>1 DEF IInv, TypeOK
  <2>5. lock # partial /\ Present(lock) /\ dir[lock].pid = proc[w].pid
    BY <1>1, <1>3, InPlaceNames DEF IInv, SessionsOK, Keeps
  <2>6. \A n : n.digest # None \/ n.session # s => n # partial
    BY InPlaceNames
  <2> HIDE DEF p, partial
  <2>7. Keeps(w)'
    BY <2>2, <2>3, <2>4, <2>5 DEF Keeps, Holding, Present
  <2> HIDE DEF lock
  <2> QED BY <1>1, <2>1, <2>2, <2>3, <2>6, <2>7, OpenStep
<1> QED BY <1>2, <1>3

LEMMA ClaimStep ==
  ASSUME IInv, NEW w \in Procs, Claim(w)
  PROVE  IInv'
<1>1. CASE Spend("faults") /\ Drop(w, "lock", "none")
  BY <1>1, DropStep DEF Claim
<1> DEFINE s == proc[w].session
           lock == InPlace(s, "lock")
           p == [proc[w] EXCEPT !.stage = "claimed"]
           file == LockFile(s, proc[w].pid)
<1>2. CASE dir' = With(lock, file) /\ Enter(w, "claimed") /\ UNCHANGED left
  <2>1. /\ proc[w].stage = "reserved" /\ job[w].pc = "none" /\ Holding(w) /\ proc[w].done = {}
        /\ proc[w] \in ProcState /\ proc[w].pid \in Pids /\ proc[w].session \in Sessions
        /\ FilesTyped /\ TypeOK
    BY SessionFacts, FilesAreTyped DEF Claim, Early, IInv
  <2>2. proc' = [proc EXCEPT ![w] = p]
    BY <1>2, <2>1 DEF Enter, TypeOK
  <2>3. p \in ProcState /\ p.stage = "claimed" /\ p.session = s /\ p.pid = proc[w].pid /\ p.done = {}
    BY <2>1 DEF ProcState, Stages
  <2>4. lock \in Name /\ file \in File /\ file.pid = proc[w].pid
    BY <2>1, InPlaceNames, NewFiles DEF Kinds3
  <2>5. FilesTyped' /\ DOMAIN dir' = DOMAIN dir \cup {lock} /\ dir'[lock] = file
        /\ \A m : m # lock => (m \in DOMAIN dir' <=> m \in DOMAIN dir)
                            /\ (m \in DOMAIN dir => dir'[m] = dir[m])
    BY <1>2, <2>1, <2>4, WithFiles
  <2>6. proc'[w] = p
    BY <2>1, <2>2 DEF TypeOK
  <2>7. \A n : n.digest # None \/ n.session # s => n # lock
    BY InPlaceNames
  <2>8. UNCHANGED <<job, used, now, left>>
    BY <1>2 DEF Claim
  <2> HIDE DEF p, file
  <2>9. Keeps(w)'
    BY <2>3, <2>4, <2>5, <2>6 DEF Keeps, Holding, Present
  <2> HIDE DEF lock
  <2> QED BY <2>1, <2>2, <2>3, <2>5, <2>7, <2>8, <2>9, OpenStep
<1> QED BY <1>1, <1>2 DEF Claim

LEMMA CreateStep ==
  ASSUME IInv, NEW w \in Procs, Create(w)
  PROVE  IInv'
<1>1. CASE Drop(w, "lock", "none") /\ (Spend("faults") \/ UNCHANGED left)
  BY <1>1, DropStep DEF Create
<1> DEFINE s == proc[w].session
           lock == InPlace(s, "lock")
           partial == InPlace(s, "partial")
           p == [proc[w] EXCEPT !.stage = "open"]
           file == LogFile(s, 0)
<1>2. CASE dir' = With(partial, file) /\ Enter(w, "open") /\ UNCHANGED left
  <2>1. /\ proc[w].stage = "claimed" /\ job[w].pc = "none" /\ Holding(w) /\ proc[w].done = {}
        /\ proc[w] \in ProcState /\ proc[w].pid \in Pids /\ proc[w].session \in Sessions
        /\ FilesTyped /\ TypeOK
    BY SessionFacts, FilesAreTyped DEF Create, Early, IInv
  <2>2. proc' = [proc EXCEPT ![w] = p]
    BY <1>2, <2>1 DEF Enter, TypeOK
  <2>3. p \in ProcState /\ p.stage = "open" /\ p.session = s /\ p.pid = proc[w].pid /\ p.done = {}
    BY <2>1 DEF ProcState, Stages
  <2>4. partial \in Name /\ file \in File /\ lock # partial
    BY <2>1, InPlaceNames, NewFiles DEF Kinds3
  <2>5. FilesTyped' /\ DOMAIN dir' = DOMAIN dir \cup {partial}
        /\ \A m : m # partial => (m \in DOMAIN dir' <=> m \in DOMAIN dir)
                            /\ (m \in DOMAIN dir => dir'[m] = dir[m])
    BY <1>2, <2>1, <2>4, WithFiles
  <2>6. proc'[w] = p
    BY <2>1, <2>2 DEF TypeOK
  <2>7. \A n : n.digest # None \/ n.session # s => n # partial
    BY InPlaceNames
  <2>8. UNCHANGED <<job, used, now, left>>
    BY <1>2 DEF Create
  <2>9. Present(lock) /\ dir[lock].pid = proc[w].pid
    BY <2>1 DEF IInv, SessionsOK, Keeps
  <2> HIDE DEF p, file, partial
  <2>10. Keeps(w)'
    BY <2>3, <2>4, <2>5, <2>6, <2>9 DEF Keeps, Holding, Present, partial
  <2> HIDE DEF lock
  <2> QED BY <2>1, <2>2, <2>3, <2>5, <2>7, <2>8, <2>10, OpenStep
<1> QED BY <1>1, <1>2 DEF Create

LEMMA AbortStep ==
  ASSUME IInv, NEW w \in Procs, Abort(w)
  PROVE  IInv'
<1>1. CASE proc[w].stage = "open" /\ Spend("faults") /\ Drop(w, "partial", "aborting")
  BY <1>1, DropStep DEF Abort, Free
<1>2. CASE proc[w].stage = "aborting" /\ UNCHANGED left /\ Drop(w, "lock", "none")
  BY <1>2, DropStep DEF Abort
<1> QED BY <1>1, <1>2 DEF Abort

LEMMA WriteStep ==
  ASSUME IInv, NEW w \in Procs, Write(w)
  PROVE  IInv'
<1> DEFINE s == proc[w].session
           lock == InPlace(s, "lock")
           partial == InPlace(s, "partial")
           p == proc[w]
           file == LogFile(s, dir[partial].size + 1)
<1>1. /\ p.stage = "open" /\ job[w].pc = "none" /\ Holding(w) /\ p.done = {}
      /\ p \in ProcState /\ s \in Sessions /\ FilesTyped /\ TypeOK
  BY SessionFacts, FilesAreTyped DEF Write, Free, Early, IInv
<1>2. Present(lock) /\ dir[lock].pid = p.pid /\ Present(partial)
  BY <1>1 DEF IInv, SessionsOK, Keeps
<1>3. dir[partial].size + 1 \in Nat
  BY <1>1, <1>2 DEF FilesTyped, Present, File
<1>4. partial \in Name /\ file \in File /\ lock # partial
  BY <1>1, <1>3, InPlaceNames, NewFiles DEF Kinds3
<1>5. dir' = With(partial, file) /\ Spend("writes") /\ UNCHANGED <<proc, job, used, now>>
  BY DEF Write
<1>6. FilesTyped' /\ DOMAIN dir' = DOMAIN dir \cup {partial}
      /\ \A m : m # partial => (m \in DOMAIN dir' <=> m \in DOMAIN dir)
                            /\ (m \in DOMAIN dir => dir'[m] = dir[m])
  BY <1>1, <1>4, <1>5, WithFiles
<1>7. \A n : n.digest # None \/ n.session # s => n # partial
  BY InPlaceNames
<1> HIDE DEF file, partial
<1>8. Keeps(w)'
  BY <1>1, <1>2, <1>4, <1>5, <1>6 DEF Keeps, Holding, Present, partial
<1>9. proc' = [proc EXCEPT ![w] = p]
  BY <1>1, <1>5 DEF TypeOK
<1>10. p.pid = proc[w].pid /\ p.session = proc[w].session /\ p.stage # "reserved" /\ p.stage # "none"
  BY <1>1
<1> HIDE DEF lock
<1> QED BY <1>1, <1>5, <1>6, <1>7, <1>8, <1>9, <1>10, OpenStep

LEMMA PublishStep ==
  ASSUME IInv, NEW w \in Procs, Publish(w)
  PROVE  IInv'
<1> DEFINE s == proc[w].session
           lock == InPlace(s, "lock")
           partial == InPlace(s, "partial")
           final == InPlace(s, "finalized")
           p == [proc[w] EXCEPT !.stage = "published"]
<1>1. /\ proc[w].stage = "open" /\ job[w].pc = "none" /\ Holding(w) /\ proc[w].done = {}
      /\ proc[w] \in ProcState /\ s \in Sessions /\ FilesTyped /\ TypeOK
  BY SessionFacts, FilesAreTyped DEF Publish, Free, Early, IInv
<1>2. Present(lock) /\ dir[lock].pid = proc[w].pid /\ Present(partial)
  BY <1>1 DEF IInv, SessionsOK, Keeps
<1>3. final \in Name /\ lock # partial /\ lock # final /\ final # partial
  BY <1>1, InPlaceNames DEF Kinds3
<1>4. dir' = Renamed(partial, final) /\ UNCHANGED <<job, used, now, left>>
      /\ proc' = [proc EXCEPT ![w] = p]
  BY <1>1 DEF Publish, Enter, TypeOK
<1>5. /\ p \in ProcState /\ p.stage = "published" /\ p.session = s /\ p.pid = proc[w].pid
      /\ p.done = {} /\ proc'[w] = p
  BY <1>1, <1>4 DEF ProcState, Stages, TypeOK
<1>6. FilesTyped' /\ DOMAIN dir' = (DOMAIN dir \ {partial}) \cup {final}
      /\ \A m : m # partial /\ m # final => (m \in DOMAIN dir' <=> m \in DOMAIN dir)
                            /\ (m \in DOMAIN dir => dir'[m] = dir[m])
  BY <1>1, <1>2, <1>3, <1>4, RenamedFiles DEF Present
<1>7. \A n : n.digest # None \/ n.session # s => n # partial /\ n # final
  BY InPlaceNames
<1> HIDE DEF p, partial
<1>8. Keeps(w)'
  BY <1>2, <1>3, <1>5, <1>6 DEF Keeps, Holding, Present
<1> HIDE DEF lock, final
<1> QED BY <1>1, <1>4, <1>5, <1>6, <1>7, <1>8, OpenStep

LEMMA UnlockStep ==
  ASSUME IInv, NEW w \in Procs, Unlock(w)
  PROVE  IInv'
<1> DEFINE s == proc[w].session
           lock == InPlace(s, "lock")
<1>1. /\ proc[w].stage = "pruned" /\ job[w].pc = "none" /\ proc[w] \in ProcState
      /\ FilesTyped /\ TypeOK /\ Keeps(w)
  BY SessionFacts, FilesAreTyped DEF Unlock, IInv, SessionsOK
<1>2. CASE /\ dir' = Without(lock)
           /\ proc' = [proc EXCEPT ![w].stage = "unlocked", ![w].done = @ \cup {"unlock"}]
           /\ UNCHANGED left
  <2> DEFINE p == [proc[w] EXCEPT !.stage = "unlocked", !.done = @ \cup {"unlock"}]
  <2>1. proc' = [proc EXCEPT ![w] = p]
    BY <1>1, <1>2 DEF TypeOK
  <2>2. p \in ProcState /\ p.stage = "unlocked" /\ p.session = s /\ p.pid = proc[w].pid
        /\ "unlock" \in p.done
    BY <1>1 DEF ProcState, Stages
  <2>3. FilesTyped' /\ \A m : m # lock => (m \in DOMAIN dir' <=> m \in DOMAIN dir)
                            /\ (m \in DOMAIN dir => dir'[m] = dir[m])
    BY <1>1, <1>2, WithoutFiles
  <2>4. proc'[w] = p
    BY <1>1, <2>1 DEF TypeOK
  <2>5. \A n : n.digest # None \/ n.session # s => n # lock
    BY InPlaceNames
  <2>6. UNCHANGED <<job, used, now, left>>
    BY <1>2 DEF Unlock
  <2> HIDE DEF p
  <2>7. Keeps(w)'
    BY <2>2, <2>4 DEF Keeps, Holding
  <2> HIDE DEF lock
  <2> QED BY <1>1, <2>1, <2>2, <2>3, <2>5, <2>6, <2>7, OpenStep DEF Early
<1>3. CASE Spend("faults") /\ Enter(w, "published") /\ UNCHANGED dir
  <2> DEFINE p == [proc[w] EXCEPT !.stage = "published"]
  <2>1. proc' = [proc EXCEPT ![w] = p]
    BY <1>1, <1>3 DEF TypeOK, Enter
  <2>2. p \in ProcState /\ p.stage = "published" /\ p.session = s /\ p.pid = proc[w].pid
        /\ p.done = proc[w].done
    BY <1>1 DEF ProcState, Stages
  <2>3. FilesTyped'
    BY <1>1, <1>3 DEF FilesTyped
  <2>4. proc'[w] = p
    BY <1>1, <2>1 DEF TypeOK
  <2>5. UNCHANGED <<job, used, now>>
    BY DEF Unlock
  <2> HIDE DEF p
  <2>6. Keeps(w)'
    BY <1>1, <1>3, <2>2, <2>4 DEF Keeps, Holding, Present
  <2> HIDE DEF lock
  <2> QED BY <1>1, <1>3, <2>1, <2>2, <2>3, <2>5, <2>6, OpenStep DEF Early, Holding
<1> QED BY <1>2, <1>3 DEF Unlock

LEMMA SyncStep ==
  ASSUME IInv, NEW w \in Procs, Sync(w)
  PROVE  IInv'
<1>1. /\ proc[w].stage = "unlocked" /\ job[w].pc = "none" /\ proc[w] \in ProcState
      /\ FilesTyped /\ TypeOK /\ UNCHANGED <<dir, job, used, now>>
  BY SessionFacts, FilesAreTyped DEF Sync, IInv
<1>2. FilesTyped'
  BY <1>1 DEF FilesTyped
<1>3. CASE /\ proc' = [proc EXCEPT ![w].stage = "none", ![w].session = None, ![w].done = {}]
           /\ UNCHANGED left
  <2> DEFINE p == [proc[w] EXCEPT !.stage = "none", !.session = None, !.done = {}]
  <2>1. proc' = [proc EXCEPT ![w] = p]
    BY <1>1, <1>3 DEF TypeOK
  <2>2. p \in ProcState /\ p.stage = "none" /\ p.session = None /\ p.pid = proc[w].pid
    BY <1>1 DEF ProcState, Stages
  <2>3. proc'[w] = p
    BY <1>1, <2>1 DEF TypeOK
  <2> HIDE DEF p
  <2>4. Keeps(w)'
    BY <2>2, <2>3 DEF Keeps, Holding
  <2> QED BY <1>1, <1>2, <1>3, <2>1, <2>2, <2>4, OpenStep DEF Early
<1>4. CASE Spend("faults") /\ Enter(w, "published")
  <2> DEFINE p == [proc[w] EXCEPT !.stage = "published"]
  <2>1. proc' = [proc EXCEPT ![w] = p]
    BY <1>1, <1>4 DEF TypeOK, Enter
  <2>2. p \in ProcState /\ p.stage = "published" /\ p.session = proc[w].session /\ p.pid = proc[w].pid
        /\ p.done = proc[w].done
    BY <1>1 DEF ProcState, Stages
  <2>3. proc'[w] = p
    BY <1>1, <2>1 DEF TypeOK
  <2>4. "unlock" \in proc[w].done
    BY <1>1 DEF IInv, SessionsOK, Sessional
  <2> HIDE DEF p
  <2>5. Keeps(w)'
    BY <2>2, <2>3, <2>4 DEF Keeps, Holding
  <2> QED BY <1>1, <1>2, <1>4, <2>1, <2>2, <2>4, <2>5, OpenStep DEF Early
<1> QED BY <1>3, <1>4 DEF Sync

-----------------------------------------------------------------------------
(* Steps of jobs and of the rest of the world. *)

(* A session goes on as it was, but for the end of its retention pass. *)
GoesOn(v) ==
  \/ proc'[v] = proc[v]
  \/ /\ proc'[v] \in ProcState
     /\ proc'[v].pid = proc[v].pid /\ proc'[v].session = proc[v].session
     /\ proc[v].stage = "published" /\ proc'[v].stage = "pruned"
     /\ "unlock" \in proc'[v].done <=> "unlock" \in proc[v].done

(* The files of sessions that are held stay, and their reservations as they are. *)
HeldStay ==
  \A n \in Name : n.session \in Held =>
    /\ n \in DOMAIN dir' <=> n \in DOMAIN dir
    /\ n \in DOMAIN dir /\ n.kind = "lock" => dir'[n] = dir[n]

LEMMA HoldingGoesOn ==
  ASSUME NEW v \in Procs, GoesOn(v)
  PROVE  /\ Holding(v)' = Holding(v)
         /\ proc'[v].pid = proc[v].pid /\ proc'[v].session = proc[v].session
         /\ proc'[v].stage = "reserved" <=> proc[v].stage = "reserved"
BY DEF GoesOn, Holding

LEMMA HeldGoOn ==
  ASSUME used' = used, \A v \in Procs : GoesOn(v)
  PROVE  Held' = Held /\ Reserved' = Reserved /\ Opening
<1>1. \A v \in Procs : /\ Holding(v)' = Holding(v)
                       /\ proc'[v].pid = proc[v].pid /\ proc'[v].session = proc[v].session
                       /\ proc'[v].stage = "reserved" <=> proc[v].stage = "reserved"
  BY HoldingGoesOn
<1>2. Held' = Held
  BY <1>1 DEF Held
<1>3. Reserved' = Reserved
  BY <1>1 DEF Reserved
<1> QED BY <1>2, <1>3 DEF Opening

LEMMA QuietStep ==
  ASSUME IInv, used' = used, now' \in 0 .. MaxNow,
         left' \in [crashes : Nat, faults : Nat, edits : Nat, purges : Nat, writes : Nat],
         proc' \in [Procs -> ProcState], \A v \in Procs : GoesOn(v),
         FilesTyped', HeldStay, \A n \in DOMAIN dir' : n.session \in used,
         \A n \in DOMAIN dir' : n.digest = None /\ n.session \in Reserved => n \in DOMAIN dir,
         job' \in [Procs -> JobState], \A v \in Procs : JobOK(v, job[v])'
  PROVE  IInv'
<1>1. Held' = Held /\ Reserved' = Reserved
  BY HeldGoOn
<1>2. \A v \in Procs : /\ Holding(v)' = Holding(v)
                       /\ proc'[v].pid = proc[v].pid /\ proc'[v].session = proc[v].session
                       /\ proc'[v].stage = "reserved" <=> proc[v].stage = "reserved"
  BY HoldingGoesOn
<1>3. TypeOK'
  <2>1. \A v \in Procs : job'[v].over \subseteq job'[v].todo
    BY DEF JobOK, JobShape
  <2> QED BY <2>1 DEF IInv, TypeOK, FilesTyped
<1>4. Names' /\ Unwritten'
  BY <1>1 DEF IInv, Names, Unwritten
<1>5. JobsOK'
  BY DEF JobsOK
<1>6. ASSUME NEW v \in Procs PROVE Sessional(v)'
  <2>1. Sessional(v) /\ proc[v] \in ProcState /\ proc'[v].pid = proc[v].pid
        /\ proc'[v].session = proc[v].session
    BY <1>2 DEF IInv, SessionsOK, TypeOK
  <2>2. CASE proc'[v] = proc[v]
    BY <1>2, <2>1, <2>2 DEF Sessional
  <2>3. CASE proc[v].stage = "published" /\ proc'[v].stage = "pruned"
    <3>1. proc[v].pid # None
      BY <2>1, <2>3 DEF Sessional, NoProc
    <3> QED BY <1>2, <2>1, <2>3, <3>1 DEF Sessional, Early
  <2> QED BY <2>2, <2>3 DEF GoesOn
<1>7. ASSUME NEW v \in Procs PROVE Keeps(v)'
  <2> DEFINE s == proc[v].session
             lock == InPlace(s, "lock")
             partial == InPlace(s, "partial")
             final == InPlace(s, "finalized")
  <2>1. Keeps(v) /\ Sessional(v) /\ proc[v] \in ProcState
    BY DEF IInv, SessionsOK, TypeOK
  <2>2. CASE ~Holding(v)
    <3>1. proc'[v].stage # "open"
      BY <1>2, <2>1, <2>2 DEF Sessional, Holding, GoesOn, Early
    <3> QED BY <1>2, <2>2, <3>1 DEF Keeps
  <2>3. CASE Holding(v)
    <3>1. s \in Sessions /\ s \in Held
      BY <2>1, <2>3, SessionFacts DEF Held, Holding
    <3>2. /\ lock \in Name /\ partial \in Name /\ final \in Name /\ lock.kind = "lock"
          /\ lock.session = s /\ partial.session = s /\ final.session = s
      BY <3>1, InPlaceNames DEF Kinds3
    <3> HIDE DEF lock, partial, final
    <3>3. /\ lock \in DOMAIN dir' <=> lock \in DOMAIN dir
          /\ partial \in DOMAIN dir' <=> partial \in DOMAIN dir
          /\ final \in DOMAIN dir' <=> final \in DOMAIN dir
          /\ lock \in DOMAIN dir => dir'[lock] = dir[lock]
      BY <3>1, <3>2 DEF HeldStay
    <3>4. proc'[v] = proc[v] \/ (proc[v].stage = "published" /\ proc'[v].stage = "pruned")
      BY DEF GoesOn
    <3> QED BY <1>2, <2>1, <2>3, <3>3, <3>4 DEF Keeps, Present, lock, partial, final
  <2> QED BY <2>2, <2>3
<1> QED BY <1>3, <1>4, <1>5, <1>6, <1>7 DEF IInv, SessionsOK, FilesTyped

(* What a job may do to the directory. *)
Safe ==
  /\ FilesTyped' /\ HeldStay /\ Tame
  /\ \A n \in DOMAIN dir' : /\ n.session \in used
                            /\ n.digest = None /\ n.session \in Reserved => n \in DOMAIN dir

LEMMA NothingIsSafe ==
  ASSUME IInv, dir' = dir
  PROVE  Safe
<1>1. FilesTyped'
  BY FilesAreTyped DEF FilesTyped
<1> QED BY <1>1 DEF Safe, HeldStay, Tame, IInv, Names

LEMMA JobStep ==
  ASSUME IInv, Safe, NEW w \in Procs, NEW j \in JobState, job' = [job EXCEPT ![w] = j],
         proc' \in [Procs -> ProcState], GoesOn(w), \A v \in Procs \ {w} : proc'[v] = proc[v],
         UNCHANGED <<used, now>>,
         left' \in [crashes : Nat, faults : Nat, edits : Nat, purges : Nat, writes : Nat],
         JobOK(w, job[w])'
  PROVE  IInv'
<1>1. \A v \in Procs : GoesOn(v)
  BY DEF GoesOn
<1>2. Opening
  BY <1>1, HeldGoOn
<1>3. ASSUME NEW v \in Procs PROVE JobOK(v, job[v])'
  <2>1. CASE v = w
    BY <2>1
  <2>2. CASE v # w
    <3>1. job'[v] = job[v] /\ proc'[v] = proc[v]
      BY <2>2 DEF IInv, TypeOK
    <3> QED BY <1>2, <3>1, JobKept DEF Safe
  <2> QED BY <2>1, <2>2
<1>4. job' \in [Procs -> JobState] /\ now' \in 0 .. MaxNow
  BY DEF IInv, TypeOK
<1> QED BY <1>1, <1>3, <1>4, QuietStep DEF Safe

(* A job goes on and leaves the directory alone. *)
LEMMA LookStep ==
  ASSUME IInv, NEW w \in Procs, NEW j, JobOK(w, j), job' = [job EXCEPT ![w] = j],
         UNCHANGED <<dir, proc, used, now>>,
         left' \in [crashes : Nat, faults : Nat, edits : Nat, purges : Nat, writes : Nat]
  PROVE  IInv'
<1>1. \A v \in Procs : GoesOn(v)
  BY DEF GoesOn
<1>2. Held' = Held /\ Reserved' = Reserved
  BY <1>1, HeldGoOn
<1>3. job'[w] = j
  BY DEF IInv, TypeOK
<1>4. j \in JobState /\ JobShape(w, j) /\ JobKnows(j) /\ JobSpares(j) /\ JobAside(j)
  BY DEF JobOK
<1>5. JobShape(w, job[w])'
  BY <1>3, <1>4 DEF JobShape, IsLock, Away
<1>6. JobKnows(job[w])' /\ JobAside(job[w])'
  BY <1>3, <1>4 DEF JobKnows, JobAside, Away, Present
<1>7. JobSpares(job[w])'
  BY <1>2, <1>3, <1>4 DEF JobSpares, IsLock, Away
<1>8. JobOK(w, job[w])'
  BY <1>3, <1>4, <1>5, <1>6, <1>7 DEF JobOK
<1>9. proc' \in [Procs -> ProcState]
  BY DEF IInv, TypeOK
<1> QED BY <1>1, <1>4, <1>8, <1>9, NothingIsSafe, JobStep

(* A retention pass ends, or a purge does. *)
LEMMA EndGoesOn ==
  ASSUME IInv, NEW w \in Procs, NEW good \in BOOLEAN, job[w].pc # "none",
         IF job[w].purge THEN EndPurge(w) ELSE EndPass(w, good)
  PROVE  GoesOn(w) /\ proc' \in [Procs -> ProcState] /\ \A v \in Procs \ {w} : proc'[v] = proc[v]
<1>1. CASE job[w].purge
  BY <1>1 DEF EndPurge, GoesOn, IInv, TypeOK
<1>2. CASE ~job[w].purge
  <2>1. proc[w] \in ProcState /\ proc[w].stage = "published" /\ proc \in [Procs -> ProcState]
    BY <1>2 DEF IInv, TypeOK, JobsOK, JobOK, JobShape
  <2> DEFINE p == [proc[w] EXCEPT !.stage = "pruned",
                                  !.done = IF good THEN @ \cup {"retention"} ELSE @]
  <2>2. proc' = [proc EXCEPT ![w] = p]
    BY <1>2, <2>1 DEF EndPass
  <2>3. p \in ProcState /\ p.stage = "pruned" /\ p.pid = proc[w].pid /\ p.session = proc[w].session
        /\ ("unlock" \in p.done <=> "unlock" \in proc[w].done)
    BY <2>1 DEF ProcState, Stages
  <2> HIDE DEF p
  <2> QED BY <2>1, <2>2, <2>3 DEF GoesOn
<1> QED BY <1>1, <1>2

LEMMA EndStep ==
  ASSUME IInv, Safe, NEW w \in Procs, NEW good \in BOOLEAN,
         job[w].pc # "none",
         IF job[w].purge THEN EndPurge(w) ELSE EndPass(w, good),
         UNCHANGED <<used, now>>,
         left' \in [crashes : Nat, faults : Nat, edits : Nat, purges : Nat, writes : Nat]
  PROVE  IInv'
<1>1. job' = [job EXCEPT ![w] = NoJob]
  BY DEF EndPurge, EndPass
<1>2. job'[w] = NoJob
  BY <1>1 DEF IInv, TypeOK
<1>4. JobOK(w, job[w])'
  <2>1. /\ NoJob.pc = "none" /\ NoJob.found = {} /\ NoJob.todo = {} /\ NoJob.over = {}
        /\ NoJob.item = None /\ NoJob.aside = None /\ ~NoJob.purge
    BY DEF NoJob
  <2>2. JobShape(w, job[w])'
    BY <1>2, <2>1, FS_EmptySet DEF JobShape, Aiming, Renaming
  <2>3. JobKnows(job[w])' /\ JobSpares(job[w])' /\ JobAside(job[w])'
    BY <1>2, <2>1 DEF JobKnows, JobSpares, JobAside, Aiming, Renaming
  <2> QED BY <1>2, <2>2, <2>3, NoJobState DEF JobOK
<1>5. GoesOn(w) /\ proc' \in [Procs -> ProcState] /\ \A v \in Procs \ {w} : proc'[v] = proc[v]
  BY EndGoesOn
<1> QED BY <1>1, <1>4, <1>5, NoJobState, JobStep

-----------------------------------------------------------------------------
(* Inventories. *)

LEMMA ListedEntries ==
  ASSUME IInv, NEW kinds
  PROVE  /\ Listed(kinds) \subseteq Entry /\ IsFiniteSet(Listed(kinds))
         /\ \A e \in Listed(kinds) :
              /\ e.name \in DOMAIN dir /\ e.file = dir[e.name] /\ e.name.session \in used
              /\ Away(e) => e.file = e.name.digest
         /\ \A n \in DOMAIN dir : n.digest = None /\ n.kind \in kinds =>
              [name |-> n, file |-> dir[n]] \in Listed(kinds)
<1> DEFINE M == {m \in DOMAIN dir : IF m.digest = None THEN m.kind \in kinds ELSE dir[m] = m.digest}
           f == [m \in M |-> [name |-> m, file |-> dir[m]]]
<1>1. Listed(kinds) = {[name |-> m, file |-> dir[m]] : m \in M}
  BY DEF Listed
<1>2. M \subseteq DOMAIN dir /\ \A m \in M : m.digest = None \/ dir[m] = m.digest
  OBVIOUS
<1>3. \A m \in DOMAIN dir : m \in Name \cup Quarantine /\ dir[m] \in File /\ m.session \in used
  BY DEF IInv, TypeOK, Names
<1>4. \A n \in DOMAIN dir : n.digest = None /\ n.kind \in kinds => n \in M
  OBVIOUS
<1>5. IsFiniteSet(M)
  BY <1>2, FS_Subset DEF IInv
<1> HIDE DEF M
<1>6. f \in [M -> Listed(kinds)] /\ Listed(kinds) = {f[m] : m \in M}
  BY <1>1
<1>7. IsFiniteSet(Listed(kinds))
  <2> HIDE DEF f
  <2> QED BY <1>5, <1>6, ImageFinite
<1>8. Listed(kinds) \subseteq Entry
  BY <1>1, <1>2, <1>3 DEF Entry
<1>9. ASSUME NEW e \in Listed(kinds)
      PROVE  /\ e.name \in DOMAIN dir /\ e.file = dir[e.name] /\ e.name.session \in used
             /\ Away(e) => e.file = e.name.digest
  <2>1. PICK m \in M : e = [name |-> m, file |-> dir[m]]
    BY <1>1
  <2> QED BY <1>2, <1>3, <2>1 DEF Away
<1>10. \A n \in DOMAIN dir : n.digest = None /\ n.kind \in kinds =>
              [name |-> n, file |-> dir[n]] \in Listed(kinds)
  BY <1>1, <1>4
<1> QED BY <1>7, <1>8, <1>9, <1>10

LEMMA HeldLocks ==
  ASSUME IInv, NEW s \in Held
  PROVE  \E v \in Procs :
           LET lock == InPlace(s, "lock")
           IN  /\ proc[v].session = s /\ Holding(v) /\ s \in Sessions
               /\ lock \in DOMAIN dir /\ proc[v].pid \in Alive
               /\ dir[lock].pid = IF s \in Reserved THEN None ELSE proc[v].pid
<1>1. PICK v \in Procs : Holding(v) /\ proc[v].session = s
  BY DEF Held
<1>2. proc[v].stage # "none"
  BY <1>1 DEF Holding
<1>3. /\ s \in Sessions /\ s # None /\ proc[v].pid # None /\ Keeps(v)
      /\ \A u \in Procs : proc[u].session = s => u = v
  BY <1>1, <1>2, SessionFacts DEF IInv, SessionsOK, Sessional
<1>4. s \in Reserved <=> proc[v].stage = "reserved"
  BY <1>1, <1>3 DEF Reserved
<1>5. proc[v].pid \in Alive
  BY <1>3 DEF Alive
<1> QED BY <1>1, <1>3, <1>4, <1>5 DEF Keeps, Present

LEMMA ScanStep ==
  ASSUME IInv, NEW w \in Procs, Scan(w)
  PROVE  IInv'
<1>1. /\ job[w].pc \in {"scan", "rescan"} /\ UNCHANGED <<dir, used, now>> /\ TypeOK
      /\ JobOK(w, job[w]) /\ job[w] \in JobState
  BY DEF Scan, Work, IInv, JobsOK, JobOK
<1>2. CASE GiveUp(w) /\ (Spend("faults") \/ UNCHANGED left)
  <2>1. left' \in [crashes : Nat, faults : Nat, edits : Nat, purges : Nat, writes : Nat]
    BY <1>1, <1>2, Spending
  <2>2. IF job[w].purge THEN EndPurge(w) ELSE EndPass(w, FALSE)
    BY <1>2 DEF GiveUp
  <2> QED BY <1>1, <2>1, <2>2, NothingIsSafe, EndStep
<1> DEFINE kinds == IF job[w].purge THEN {"partial", "finalized", "lock"} ELSE {"finalized", "lock"}
           j == [job[w] EXCEPT !.pc = IF @ = "scan" THEN "judge" ELSE "rejudge", !.found = Listed(kinds)]
<1>3. CASE /\ job' = [job EXCEPT ![w].pc = IF @ = "scan" THEN "judge" ELSE "rejudge",
                                 ![w].found = Listed(kinds)]
           /\ UNCHANGED <<proc, left>>
  <2>1. job' = [job EXCEPT ![w] = j]
    BY <1>1, <1>3 DEF TypeOK
  <2>2. Listed(kinds) \subseteq Entry /\ IsFiniteSet(Listed(kinds))
    BY ListedEntries
  <2>3. /\ j \in JobState /\ j.pc = (IF job[w].pc = "scan" THEN "judge" ELSE "rejudge")
        /\ j.found = Listed(kinds) /\ j.todo = job[w].todo /\ j.purge = job[w].purge
        /\ j.over = job[w].over /\ j.item = job[w].item /\ j.aside = job[w].aside
        /\ j.guarded = job[w].guarded
    BY <1>1, <2>2 DEF JobState, JobPCs
  <2>4. \A e \in j.found : /\ e.name \in DOMAIN dir /\ e.file = dir[e.name] /\ e.name.session \in used
                           /\ Away(e) => e.file = e.name.digest
    BY <2>3, ListedEntries
  <2>5. \A n \in DOMAIN dir : n.digest = None /\ n.kind = "lock" => [name |-> n, file |-> dir[n]] \in j.found
    BY <2>3, ListedEntries
  <2>6. j.pc = "judge" \/ j.pc = "rejudge"
    BY <2>3
  <2> HIDE DEF j, kinds
  <2>7. JobShape(w, j)
    BY <1>1, <2>2, <2>3 DEF JobOK, JobShape, Aiming, Renaming
  <2>8. JobKnows(j)
    <3>1. \A e \in job[w].todo :
            /\ e.name.session \in used
            /\ Away(e) => /\ e.file = e.name.digest
                          /\ Present(e.name) => dir[e.name] = e.name.digest
      BY <1>1 DEF JobOK, JobKnows
    <3> SUFFICES ASSUME NEW e \in j.found \cup j.todo
                 PROVE  /\ e.name.session \in used
                        /\ Away(e) => /\ e.file = e.name.digest
                                      /\ Present(e.name) => dir[e.name] = e.name.digest
      BY DEF JobKnows
    <3>2. CASE e \in j.found
      BY <2>4, <3>2
    <3>3. CASE e \in job[w].todo
      BY <3>1, <3>3
    <3> QED BY <2>3, <3>2, <3>3
  <2>9. JobSpares(j)
    <3>1. j.purge => \A e \in j.todo : e.name.session \notin Held
      BY <1>1, <2>3 DEF JobOK, JobSpares
    <3>2. ~j.purge => j.pc = "judge"
      BY <1>1, <2>3 DEF JobOK, JobShape
    <3>3. ASSUME NEW e \in j.found, e.name.session \in Held
          PROVE  \E l \in j.found : l.name = InPlace(e.name.session, "lock")
      <4> DEFINE n == InPlace(e.name.session, "lock")
      <4>1. n \in DOMAIN dir
        BY <3>3, HeldLocks
      <4>2. n.digest = None /\ n.kind = "lock"
        BY InPlaceNames
      <4>3. [name |-> n, file |-> dir[n]] \in j.found
        BY <2>5, <4>1, <4>2
      <4> QED BY <4>3
    <3>4. \A e \in j.found : ~Away(e) /\ e.name.session \in Reserved => IsLock(e)
      BY <2>4 DEF IInv, Unwritten, Away, IsLock
    <3> QED BY <2>6, <3>1, <3>2, <3>3, <3>4 DEF JobSpares, Aiming
  <2>10. JobAside(j)
    BY <2>6 DEF JobAside, Renaming
  <2>11. JobOK(w, j)
    BY <2>3, <2>7, <2>8, <2>9, <2>10 DEF JobOK
  <2> QED BY <1>1, <1>3, <2>1, <2>11, LookStep DEF TypeOK
<1> QED BY <1>2, <1>3 DEF Scan

(* Nobody's session is taken for an old one. *)
LEMMA RetentionGuards ==
  ASSUME IInv, NEW w \in Procs, job[w].pc = "judge",
         NEW e \in job[w].found, ~IsLock(e), ~Away(e), e.name.session \in Held
  PROVE  e.name.session \in {s \in {l.name.session : l \in {k \in job[w].found : IsLock(k)}} : OwnerAlive(s)}
<1> DEFINE s == e.name.session
<1>1. JobSpares(job[w])
  BY DEF IInv, JobsOK, JobOK
<1>2. PICK l \in job[w].found : l.name = InPlace(s, "lock")
  BY <1>1 DEF JobSpares
<1>3. IsLock(l) /\ l.name.session = s
  BY <1>2, InPlaceNames DEF IsLock, Away
<1>4. s \notin Reserved
  BY <1>1 DEF JobSpares
<1>5. OwnerAlive(s)
  BY <1>4, HeldLocks DEF OwnerAlive, Present
<1> QED BY <1>3, <1>5

LEMMA PurgeGuards ==
  ASSUME IInv, NEW w \in Procs, job[w].pc = "judge",
         NEW e \in job[w].found, e.name.session \in Held
  PROVE  e.name.session \in PurgeGuard(w)
<1> DEFINE s == e.name.session
           lock == InPlace(s, "lock")
<1>1. JobSpares(job[w])
  BY DEF IInv, JobsOK, JobOK
<1>2. PICK l \in job[w].found : l.name = lock
  BY <1>1 DEF JobSpares
<1>3. IsLock(l) /\ l.name.session = s
  BY <1>2, InPlaceNames DEF IsLock, Away
<1>4. dir[lock].pid = None \/ dir[lock].pid \in Alive
  BY HeldLocks
<1>5. ~Stale(l)
  BY <1>2, <1>4 DEF Stale, Holds
<1> HIDE DEF lock
<1> QED BY <1>3, <1>5 DEF PurgeGuard

LEMMA GuardTypes ==
  ASSUME IInv, NEW w \in Procs
  PROVE  /\ PurgeGuard(w) \subseteq Sessions
         /\ {s \in {l.name.session : l \in {k \in job[w].found : IsLock(k)}} : OwnerAlive(s)} \subseteq Sessions
<1>1. \A e \in job[w].found : e.name.session \in Sessions
  <2>1. job[w].found \subseteq Entry
    BY JobEntries DEF IInv, TypeOK
  <2>2. \A e \in Entry : e.name.session \in Sessions
    BY Entries, NamesInPlace, NamesAside
  <2> QED BY <2>1, <2>2
<1>2. proc[w].session \in Sessions \cup {None}
  BY DEF IInv, TypeOK, ProcState
<1> QED BY <1>1, <1>2 DEF PurgeGuard

LEMMA JudgeRetentionStep ==
  ASSUME IInv, NEW w \in Procs, JudgeRetention(w)
  PROVE  IInv'
<1> DEFINE old == job[w]
           locks == {e \in old.found : IsLock(e)}
           guarded == {s \in {e.name.session : e \in locks} : OwnerAlive(s)}
           logs == old.found \ locks
           j == [old EXCEPT !.pc = "recover", !.found = logs, !.todo = logs, !.guarded = guarded]
<1>1. /\ old.pc = "judge" /\ ~old.purge /\ JobOK(w, old) /\ old \in JobState
      /\ UNCHANGED <<dir, proc, used, now, left>> /\ TypeOK
  BY DEF JudgeRetention, Work, IInv, JobsOK, JobOK
<1>2. job' = [job EXCEPT ![w] = j]
  <2>1. job' = [job EXCEPT ![w].pc = "recover", ![w].found = logs, ![w].todo = logs, ![w].guarded = guarded]
    BY <1>1 DEF JudgeRetention, TypeOK
  <2> QED BY <1>1, <2>1 DEF TypeOK
<1>3. guarded \subseteq Sessions /\ old.found \subseteq Entry /\ IsFiniteSet(old.found)
  BY <1>1, GuardTypes, JobEntries DEF JobOK, JobShape
<1>4. logs \subseteq Entry /\ IsFiniteSet(logs)
  BY <1>3, FS_Difference
<1>5. \A e \in logs : e \in old.found /\ ~IsLock(e)
  OBVIOUS
<1>6. \A e \in logs : ~Away(e) /\ e.name.session \in Held => e.name.session \in guarded
  BY <1>1, <1>5, RetentionGuards
<1> HIDE DEF logs, guarded
<1>7. /\ j \in JobState /\ j.pc = "recover" /\ j.found = logs /\ j.todo = logs /\ j.guarded = guarded
      /\ ~j.purge /\ j.over = old.over /\ j.item = old.item /\ j.aside = old.aside
  BY <1>1, <1>3, <1>4 DEF JobState, JobPCs
<1>8. old.over = {} /\ old.item = None /\ old.aside = None /\ proc[w].pid # None /\ proc[w].stage = "published"
  BY <1>1 DEF JobOK, JobShape, Aiming, Renaming
<1> HIDE DEF j
<1>9. JobShape(w, j)
  BY <1>4, <1>5, <1>7, <1>8 DEF JobShape, Aiming, Renaming
<1>10. JobKnows(j)
  <2>1. \A e \in old.found :
          /\ e.name.session \in used
          /\ Away(e) => /\ e.file = e.name.digest
                        /\ Present(e.name) => dir[e.name] = e.name.digest
    BY <1>1 DEF JobOK, JobKnows
  <2> QED BY <1>5, <1>7, <2>1 DEF JobKnows
<1>11. JobSpares(j)
  <2>1. \A e \in old.found : ~Away(e) /\ e.name.session \in Reserved => IsLock(e)
    BY <1>1 DEF JobOK, JobSpares
  <2> QED BY <1>5, <1>6, <1>7, <2>1 DEF JobSpares, Aiming
<1>12. JobAside(j)
  BY <1>7 DEF JobAside, Renaming
<1> QED BY <1>1, <1>2, <1>7, <1>9, <1>10, <1>11, <1>12, LookStep DEF JobOK, TypeOK

LEMMA JudgePurgeStep ==
  ASSUME IInv, NEW w \in Procs, JudgePurge(w)
  PROVE  IInv'
<1> DEFINE old == job[w]
           targets == {e \in old.found : e.name.session \notin PurgeGuard(w)}
           j == [old EXCEPT !.pc = "rescan", !.found = {}, !.todo = targets]
<1>1. /\ old.pc = "judge" /\ old.purge /\ JobOK(w, old) /\ old \in JobState
      /\ UNCHANGED <<dir, used, now, left>> /\ TypeOK
  BY DEF JudgePurge, Work, IInv, JobsOK, JobOK
<1>2. CASE EndPurge(w)
  BY <1>1, <1>2, NothingIsSafe, EndStep DEF TypeOK
<1>3. CASE job' = [job EXCEPT ![w].pc = "rescan", ![w].found = {}, ![w].todo = targets] /\ UNCHANGED proc
  <2>1. job' = [job EXCEPT ![w] = j]
    BY <1>1, <1>3 DEF TypeOK
  <2>2. targets \subseteq Entry /\ IsFiniteSet(targets)
    <3>1. old.found \subseteq Entry /\ IsFiniteSet(old.found)
      BY <1>1, JobEntries DEF JobOK, JobShape
    <3> QED BY <3>1, FS_Subset
  <2>3. \A e \in targets : e \in old.found /\ e.name.session \notin Held
    BY <1>1, PurgeGuards
  <2> HIDE DEF targets
  <2>4. /\ j \in JobState /\ j.pc = "rescan" /\ j.found = {} /\ j.todo = targets
        /\ j.purge = old.purge /\ j.over = old.over /\ j.item = old.item /\ j.aside = old.aside
    BY <1>1, <2>2 DEF JobState, JobPCs
  <2>5. /\ old.over = {} /\ old.item = None /\ old.aside = None /\ proc[w].pid # None
        /\ proc[w].stage \in {"none", "open", "published"}
    BY <1>1 DEF JobOK, JobShape, Aiming, Renaming
  <2> HIDE DEF j
  <2>6. JobShape(w, j)
    BY <1>1, <2>2, <2>4, <2>5, FS_EmptySet DEF JobShape, Aiming, Renaming
  <2>7. JobKnows(j)
    <3>1. \A e \in old.found :
            /\ e.name.session \in used
            /\ Away(e) => /\ e.file = e.name.digest
                          /\ Present(e.name) => dir[e.name] = e.name.digest
      BY <1>1 DEF JobOK, JobKnows
    <3> QED BY <2>3, <2>4, <3>1 DEF JobKnows
  <2>8. JobSpares(j)
    BY <1>1, <2>3, <2>4 DEF JobSpares, Aiming
  <2>9. JobAside(j)
    BY <2>4 DEF JobAside, Renaming
  <2> QED BY <1>1, <1>3, <2>1, <2>4, <2>6, <2>7, <2>8, <2>9, LookStep DEF JobOK, TypeOK
<1> QED BY <1>1, <1>2, <1>3 DEF JudgePurge

LEMMA RejudgePurgeStep ==
  ASSUME IInv, NEW w \in Procs, RejudgePurge(w)
  PROVE  IInv'
<1> DEFINE old == job[w]
           both == old.found \cap old.todo
           j == [old EXCEPT !.pc = "next", !.guarded = PurgeGuard(w), !.found = both]
<1>1. /\ old.pc = "rejudge" /\ JobOK(w, old) /\ old \in JobState /\ old.purge
      /\ UNCHANGED <<dir, proc, used, now, left>> /\ TypeOK
  <2>1. old.pc = "rejudge" /\ JobOK(w, old) /\ UNCHANGED <<dir, proc, used, now, left>> /\ TypeOK
    BY DEF RejudgePurge, Work, IInv, JobsOK
  <2> QED BY <2>1 DEF JobOK, JobShape
<1>2. job' = [job EXCEPT ![w] = j]
  BY <1>1 DEF TypeOK, RejudgePurge
<1>3. PurgeGuard(w) \subseteq Sessions /\ both \subseteq Entry /\ IsFiniteSet(both) /\ both \subseteq old.found
  <2>1. old.found \subseteq Entry /\ IsFiniteSet(old.found) /\ PurgeGuard(w) \subseteq Sessions
    BY <1>1, JobEntries, GuardTypes DEF JobOK, JobShape
  <2> QED BY <2>1, FS_Subset
<1> HIDE DEF both
<1>4. /\ j \in JobState /\ j.pc = "next" /\ j.found = both /\ j.todo = old.todo
      /\ j.purge = old.purge /\ j.over = old.over /\ j.item = old.item /\ j.aside = old.aside
  BY <1>1, <1>3 DEF JobState, JobPCs
<1> HIDE DEF j
<1>5. JobShape(w, j)
  BY <1>1, <1>3, <1>4 DEF JobOK, JobShape, Aiming, Renaming
<1>6. JobKnows(j)
  <2>1. \A e \in old.found \cup old.todo :
          /\ e.name.session \in used
          /\ Away(e) => /\ e.file = e.name.digest
                        /\ Present(e.name) => dir[e.name] = e.name.digest
    BY <1>1 DEF JobOK, JobKnows
  <2>2. j.found \cup j.todo \subseteq old.found \cup old.todo
    BY <1>3, <1>4
  <2> QED BY <2>1, <2>2 DEF JobKnows
<1>7. JobSpares(j)
  BY <1>1, <1>3, <1>4 DEF JobOK, JobSpares, Aiming
<1>8. JobAside(j)
  BY <1>4 DEF JobAside, Renaming
<1> QED BY <1>1, <1>2, <1>4, <1>5, <1>6, <1>7, <1>8, LookStep DEF JobOK, TypeOK

-----------------------------------------------------------------------------
(* The retention pass and the purge choose what to unlink. *)

LEMMA PruneStep ==
  ASSUME IInv, NEW w \in Procs, Prune(w)
  PROVE  IInv'
<1>1. /\ proc[w].stage = "published" /\ job[w].pc = "none" /\ proc[w].pid # None
      /\ proc[w] \in ProcState /\ TypeOK /\ Keeps(w) /\ UNCHANGED <<dir, used, now, left>>
  BY DEF Prune, Free, IInv, TypeOK, SessionsOK
<1>2. CASE Enter(w, "pruned") /\ UNCHANGED job
  <2> DEFINE p == [proc[w] EXCEPT !.stage = "pruned"]
  <2>1. proc' = [proc EXCEPT ![w] = p]
    BY <1>1, <1>2 DEF TypeOK, Enter
  <2>2. p \in ProcState /\ p.stage = "pruned" /\ p.session = proc[w].session /\ p.pid = proc[w].pid
        /\ p.done = proc[w].done
    BY <1>1 DEF ProcState, Stages
  <2>3. proc'[w] = p
    BY <1>1, <2>1 DEF TypeOK
  <2>4. FilesTyped'
    BY <1>1, FilesAreTyped DEF FilesTyped
  <2> HIDE DEF p
  <2>5. Keeps(w)'
    BY <1>1, <2>2, <2>3 DEF Keeps, Holding, Present
  <2> QED BY <1>1, <1>2, <2>1, <2>2, <2>4, <2>5, OpenStep DEF Early, Holding
<1>3. CASE /\ job' = [job EXCEPT ![w] = [NoJob EXCEPT !.pc = "scan", !.budget = MaxDeletions]]
           /\ UNCHANGED proc
  <2> DEFINE j == [NoJob EXCEPT !.pc = "scan", !.budget = MaxDeletions]
  <2>1. /\ j.pc = "scan" /\ ~j.purge /\ j.found = {} /\ j.todo = {} /\ j.over = {}
        /\ j.item = None /\ j.aside = None
    BY DEF NoJob
  <2>2. j \in JobState
    BY NoJobState, RetentionAssumption DEF JobState, JobPCs
  <2> HIDE DEF j
  <2>3. JobShape(w, j)
    BY <1>1, <2>1, FS_EmptySet DEF JobShape, Aiming, Renaming
  <2>4. JobKnows(j) /\ JobSpares(j) /\ JobAside(j)
    BY <2>1 DEF JobKnows, JobSpares, JobAside, Aiming, Renaming
  <2>5. job' = [job EXCEPT ![w] = j]
    BY <1>3 DEF j
  <2> QED BY <1>1, <1>3, <2>2, <2>3, <2>4, <2>5, LookStep DEF JobOK, TypeOK
<1> QED BY <1>2, <1>3 DEF Prune

LEMMA PurgeStep ==
  ASSUME IInv, NEW w \in Procs, Purge(w)
  PROVE  IInv'
<1> DEFINE j == [NoJob EXCEPT !.pc = "scan", !.purge = TRUE]
<1>1. /\ proc[w].stage \in {"none", "open", "published"} /\ proc[w].pid # None
      /\ UNCHANGED <<dir, proc, used, now>> /\ Spend("purges")
      /\ job' = [job EXCEPT ![w] = j]
  BY DEF Purge, Free
<1>2. left' \in [crashes : Nat, faults : Nat, edits : Nat, purges : Nat, writes : Nat]
  BY <1>1, Spending DEF IInv
<1>3. /\ j.pc = "scan" /\ j.purge /\ j.found = {} /\ j.todo = {} /\ j.over = {}
      /\ j.item = None /\ j.aside = None
  BY DEF NoJob
<1>4. j \in JobState
  BY NoJobState DEF JobState, JobPCs
<1> HIDE DEF j
<1>5. JobShape(w, j)
  BY <1>1, <1>3, FS_EmptySet DEF JobShape, Aiming, Renaming
<1>6. JobKnows(j) /\ JobSpares(j) /\ JobAside(j)
  BY <1>3 DEF JobKnows, JobSpares, JobAside, Aiming, Renaming
<1> QED BY <1>1, <1>2, <1>4, <1>5, <1>6, LookStep DEF JobOK

LEMMA TargetStep ==
  ASSUME IInv, NEW w \in Procs, job[w].pc \in {"recover", "cull", "next"},
         NEW e \in job[w].todo, ~job[w].purge => job[w].budget > 0,
         ~Away(e) => e.name.session \notin Held,
         Target(w, e), UNCHANGED <<dir, used, now, left>>
  PROVE  IInv'
<1> DEFINE old == job[w]
           j == [old EXCEPT !.pc = "move", !.item = e]
<1>1. JobOK(w, old) /\ old \in JobState /\ TypeOK
  BY DEF IInv, JobsOK, JobOK
<1>2. job' = [job EXCEPT ![w] = j] /\ UNCHANGED proc
  BY <1>1 DEF Target, TypeOK
<1>3. e \in Entry
  BY <1>1, JobEntries
<1>4. /\ j \in JobState /\ j.pc = "move" /\ j.item = e /\ j.purge = old.purge /\ j.found = old.found
      /\ j.todo = old.todo /\ j.over = old.over /\ j.aside = old.aside /\ j.budget = old.budget
      /\ j.guarded = old.guarded
  BY <1>1, <1>3 DEF JobState, JobPCs
<1> HIDE DEF j
<1>5. JobShape(w, j)
  BY <1>1, <1>4 DEF JobOK, JobShape, Aiming, Renaming
<1>6. JobKnows(j) /\ JobAside(j)
  BY <1>1, <1>4 DEF JobOK, JobKnows, JobAside, Renaming
<1>7. JobSpares(j)
  <2>1. ~j.purge => \A f \in j.found : ~Away(f) /\ f.name.session \in Held => f.name.session \in j.guarded
    BY <1>1, <1>4 DEF JobOK, JobSpares
  <2> QED BY <1>1, <1>4, <2>1 DEF JobOK, JobSpares
<1> QED BY <1>1, <1>2, <1>4, <1>5, <1>6, <1>7, LookStep DEF JobOK, TypeOK

LEMMA RecoverStep ==
  ASSUME IInv, NEW w \in Procs, Recover(w)
  PROVE  IInv'
<1> DEFINE old == job[w]
           leftover == {e \in old.found : Away(e)}
           cutoff == IF now > KeepAge THEN now - KeepAge ELSE 0
           j == [old EXCEPT !.pc = "cull", !.cutoff = cutoff]
<1>1. /\ old.pc = "recover" /\ JobOK(w, old) /\ old \in JobState /\ TypeOK
      /\ UNCHANGED <<dir, used, now, left>>
  BY DEF Recover, Work, IInv, JobsOK, JobOK
<1>2. ~old.purge /\ old.found \subseteq old.todo /\ old.budget \in Nat
  BY <1>1, JobEntries DEF JobOK, JobShape
<1>3. CASE leftover = {} /\ UNCHANGED proc
           /\ job' = [job EXCEPT ![w].pc = "cull", ![w].cutoff = cutoff]
  <2>1. job' = [job EXCEPT ![w] = j] /\ UNCHANGED proc
    BY <1>1, <1>3 DEF TypeOK
  <2>2. cutoff \in Nat
    BY <1>1, RetentionAssumption DEF TypeOK
  <2> HIDE DEF cutoff
  <2>3. /\ j \in JobState /\ j.pc = "cull" /\ j.item = old.item /\ j.purge = old.purge
        /\ j.found = old.found /\ j.todo = old.todo /\ j.over = old.over /\ j.aside = old.aside
        /\ j.guarded = old.guarded
    BY <1>1, <2>2 DEF JobState, JobPCs
  <2> HIDE DEF j
  <2>4. JobShape(w, j)
    BY <1>1, <2>3 DEF JobOK, JobShape, Aiming, Renaming
  <2>5. JobKnows(j) /\ JobAside(j)
    BY <1>1, <2>3 DEF JobOK, JobKnows, JobAside, Renaming
  <2>6. JobSpares(j)
    BY <1>1, <2>3 DEF JobOK, JobSpares, Aiming
  <2> QED BY <1>1, <2>1, <2>3, <2>4, <2>5, <2>6, LookStep DEF JobOK, TypeOK
<1>4. CASE EndPass(w, FALSE)
  BY <1>1, <1>2, <1>4, NothingIsSafe, EndStep DEF TypeOK
<1>5. CASE old.budget # 0 /\ \E e \in leftover : Target(w, e)
  <2>1. PICK e \in leftover : Target(w, e)
    BY <1>5
  <2>2. e \in old.todo /\ Away(e) /\ old.budget > 0
    BY <1>2, <1>5
  <2> QED BY <1>1, <2>1, <2>2, TargetStep
<1> QED BY <1>1, <1>3, <1>4, <1>5 DEF Recover

LEMMA CullStep ==
  ASSUME IInv, NEW w \in Procs, Cull(w)
  PROVE  IInv'
<1> DEFINE old == job[w]
<1>1. /\ old.pc = "cull" /\ JobOK(w, old) /\ old \in JobState /\ TypeOK
      /\ UNCHANGED <<dir, used, now, left>>
  BY DEF Cull, Work, IInv, JobsOK, JobOK
<1>2. ~old.purge /\ old.found \subseteq old.todo /\ old.budget \in Nat
  BY <1>1, JobEntries DEF JobOK, JobShape
<1>3. CASE EndPass(w, TRUE) \/ EndPass(w, FALSE)
  BY <1>1, <1>2, <1>3, NothingIsSafe, EndStep DEF TypeOK
<1>4. CASE old.budget # 0 /\ \E e \in Victims(w) : Target(w, e)
  <2>1. PICK e \in Victims(w) : Target(w, e)
    BY <1>4
  <2>2. e \in Expendable(w)
    BY <2>1 DEF Victims, Oldest, Expired, Surplus
  <2>3. e \in old.found /\ e.name.session \notin old.guarded
    BY <2>2 DEF Expendable
  <2>4. ~Away(e) => e.name.session \notin Held
    BY <1>1, <1>2, <2>3 DEF JobOK, JobSpares
  <2> QED BY <1>1, <1>2, <1>4, <2>1, <2>3, <2>4, TargetStep
<1> QED BY <1>3, <1>4 DEF Cull

LEMMA PurgeNextStep ==
  ASSUME IInv, NEW w \in Procs, PurgeNext(w)
  PROVE  IInv'
<1> DEFINE old == job[w]
           rest == old.todo \ old.over
<1>1. /\ old.pc = "next" /\ JobOK(w, old) /\ old \in JobState /\ TypeOK
      /\ UNCHANGED <<dir, used, now, left>>
  BY DEF PurgeNext, Work, IInv, JobsOK, JobOK
<1>2. old.purge
  BY <1>1 DEF JobOK, JobShape
<1>3. CASE EndPurge(w)
  BY <1>1, <1>2, <1>3, NothingIsSafe, EndStep DEF TypeOK
<1>4. ASSUME NEW e \in NextInLine(rest),
             \/ Target(w, e)
             \/ job' = [job EXCEPT ![w].over = @ \cup {e}] /\ UNCHANGED proc
      PROVE  IInv'
  <2>1. e \in old.todo
    BY <1>4 DEF NextInLine
  <2>2. CASE Target(w, e)
    <3>1. e.name.session \notin Held
      BY <1>1, <1>2, <2>1 DEF JobOK, JobSpares
    <3> QED BY <1>1, <1>2, <2>1, <2>2, <3>1, TargetStep
  <2>3. CASE job' = [job EXCEPT ![w].over = @ \cup {e}] /\ UNCHANGED proc
    <3> DEFINE j == [old EXCEPT !.over = @ \cup {e}]
    <3>1. job' = [job EXCEPT ![w] = j]
      BY <1>1, <2>3 DEF TypeOK
    <3>2. e \in Entry
      BY <1>1, <2>1, JobEntries
    <3>3. /\ j \in JobState /\ j.pc = old.pc /\ j.item = old.item /\ j.purge = old.purge
          /\ j.found = old.found /\ j.todo = old.todo /\ j.over = old.over \cup {e}
          /\ j.aside = old.aside /\ j.guarded = old.guarded
      BY <1>1, <3>2 DEF JobState
    <3> HIDE DEF j
    <3>4. JobShape(w, j)
      BY <1>1, <2>1, <3>3 DEF JobOK, JobShape, Aiming, Renaming
    <3>5. JobKnows(j) /\ JobAside(j)
      BY <1>1, <3>3 DEF JobOK, JobKnows, JobAside, Renaming
    <3>6. JobSpares(j)
      BY <1>1, <3>3 DEF JobOK, JobSpares, Aiming
    <3> QED BY <1>1, <2>3, <3>1, <3>3, <3>4, <3>5, <3>6, LookStep DEF JobOK, TypeOK
  <2> QED BY <1>4, <2>2, <2>3
<1> QED BY <1>3, <1>4 DEF PurgeNext

-----------------------------------------------------------------------------
(* Unlinking. *)

(* What a job knows stays true when the step is tame. *)
LEMMA KnowsKept ==
  ASSUME IInv, NEW w \in Procs, Tame, used \subseteq used'
  PROVE  \A e \in job[w].found \cup job[w].todo :
           /\ e.name.session \in used'
           /\ Away(e) => /\ e.file = e.name.digest
                         /\ e.name \in DOMAIN dir' => dir'[e.name] = e.name.digest
<1> DEFINE j == job[w]
<1>1. JobKnows(j) /\ j.found \subseteq Entry /\ j.todo \subseteq Entry
  BY JobEntries DEF IInv, JobsOK, JobOK
<1> SUFFICES ASSUME NEW e \in j.found \cup j.todo
             PROVE  /\ e.name.session \in used'
                    /\ Away(e) => /\ e.file = e.name.digest
                                  /\ e.name \in DOMAIN dir' => dir'[e.name] = e.name.digest
  OBVIOUS
<1>2. e.name.session \in used /\ e \in Entry /\ e.name \in KnownNames
  BY <1>1, KnownHas DEF JobKnows
<1>3. Away(e) => e.file = e.name.digest
  BY <1>1 DEF JobKnows
<1>4. ASSUME Away(e), e.name \in DOMAIN dir'
      PROVE  dir'[e.name] = e.name.digest
  <2>1. e.name \in Quarantine
    BY <1>2, <1>4, Entries
  <2> QED BY <1>1, <1>2, <1>4, <2>1 DEF Tame, JobKnows, Present
<1> QED BY <1>2, <1>3, <1>4

LEMMA ReservedAreHeld ==
  ASSUME IInv
  PROVE  Reserved \subseteq Held
<1>1. ASSUME NEW v \in Procs, proc[v].stage = "reserved"
      PROVE  Holding(v)
  BY <1>1, SessionFacts DEF Early
<1> QED BY <1>1 DEF Reserved, Held

(* The file being unlinked. *)
LEMMA ItemFacts ==
  ASSUME IInv, NEW w \in Procs, job[w].pc \in Aiming
  PROVE  LET e == job[w].item
             j == job[w]
         IN  /\ e \in j.todo /\ e \in Entry /\ e # None /\ e.name.session \in used
             /\ ~Away(e) => e.name \in Name /\ e.name.session \notin Held
             /\ Away(e) => e.name \in Quarantine /\ e.file = e.name.digest
             /\ Away(e) /\ Present(e.name) => dir[e.name] = e.name.digest
             /\ j.pc \in Renaming => j.aside \in Quarantine /\ j.aside.digest = e.file
             /\ ~j.purge => j.budget > 0
<1> DEFINE j == job[w]
           e == job[w].item
<1>1. JobShape(w, j) /\ JobKnows(j) /\ JobSpares(j) /\ j.todo \subseteq Entry
  BY JobEntries DEF IInv, JobsOK, JobOK
<1>2. e \in j.todo /\ (j.pc \in Renaming => j.aside \in Quarantine /\ j.aside.digest = e.file)
      /\ (~j.purge => j.budget > 0)
  BY <1>1 DEF JobShape
<1>3. e \in Entry /\ e # None /\ IF Away(e) THEN e.name \in Quarantine ELSE e.name \in Name
  BY <1>1, <1>2, Entries
<1>4. /\ e.name.session \in used
      /\ Away(e) => e.file = e.name.digest
      /\ Away(e) /\ Present(e.name) => dir[e.name] = e.name.digest
  BY <1>1, <1>2 DEF JobKnows
<1>5. ~Away(e) => e.name.session \notin Held
  BY <1>1 DEF JobSpares
<1> QED BY <1>2, <1>3, <1>4, <1>5

LEMMA SettleStep ==
  ASSUME IInv, Safe, NEW w \in Procs, NEW result, job[w].pc \in Aiming,
         Settle(w, result), UNCHANGED <<used, now>>,
         left' \in [crashes : Nat, faults : Nat, edits : Nat, purges : Nat, writes : Nat]
  PROVE  IInv'
<1> DEFINE old == job[w]
           rest == [old EXCEPT !.item = None, !.aside = None, !.cause = "none"]
<1>1. JobOK(w, old) /\ old \in JobState /\ TypeOK /\ old.pc # "none"
  BY DEF IInv, JobsOK, JobOK, Aiming
<1>2. JobShape(w, old) /\ JobSpares(old)
  BY <1>1 DEF JobOK
<1>3. /\ old.item \in old.todo /\ old.item \in Entry /\ (~old.purge => old.budget > 0)
      /\ old.budget \in Nat /\ old.found \subseteq Entry
  BY <1>1, ItemFacts, JobEntries
<1>4. CASE ~old.purge /\ EndPass(w, FALSE)
  BY <1>1, <1>4, EndStep
<1>5. \A v \in Procs : proc' = proc => GoesOn(v)
  BY DEF GoesOn
<1>6. proc' = proc => Held' = Held /\ Reserved' = Reserved
  BY <1>5, HeldGoOn
<1>7. ASSUME NEW j \in JobState, job' = [job EXCEPT ![w] = j], UNCHANGED proc,
             j.pc \in {"next", "recover", "cull"}, j.purge = old.purge,
             j.purge <=> j.pc = "next",
             j.found \subseteq old.found, j.todo = old.todo, j.guarded = old.guarded,
             j.over \subseteq j.todo, j.item = None, j.aside = None
      PROVE  IInv'
  <2>1. job'[w] = j /\ Held' = Held /\ Reserved' = Reserved
    BY <1>1, <1>6, <1>7 DEF TypeOK
  <2>2. IsFiniteSet(j.found)
    BY <1>2, <1>7, FS_Subset DEF JobShape
  <2>3. JobShape(w, job[w])'
    BY <1>2, <1>7, <2>1, <2>2 DEF JobShape, Aiming, Renaming, IsLock, Away
  <2>4. JobKnows(job[w])'
    <3>1. \A e \in old.found \cup old.todo :
           /\ e.name.session \in used'
           /\ Away(e) => /\ e.file = e.name.digest
                         /\ e.name \in DOMAIN dir' => dir'[e.name] = e.name.digest
      BY KnowsKept DEF Safe
    <3>2. j.found \cup j.todo \subseteq old.found \cup old.todo
      BY <1>7
    <3> HIDE DEF old
    <3> QED BY <2>1, <3>1, <3>2 DEF JobKnows, Away, Present
  <2>5. JobSpares(job[w])'
    <3>1. ~old.purge => \A e \in old.found : ~Away(e) /\ e.name.session \in Held => e.name.session \in old.guarded
      BY <1>2 DEF JobSpares, JobShape, Aiming
    <3>2. old.purge => \A e \in old.todo : e.name.session \notin Held
      BY <1>2 DEF JobSpares
    <3>3. \A e \in old.found : ~Away(e) /\ e.name.session \in Reserved => IsLock(e)
      BY <1>2 DEF JobSpares
    <3> HIDE DEF old
    <3> QED BY <1>7, <2>1, <3>1, <3>2, <3>3 DEF JobSpares, Aiming, Away, IsLock
  <2>6. JobAside(job[w])'
    BY <1>7, <2>1 DEF JobAside, Renaming
  <2>7. JobOK(w, job[w])'
    BY <1>7, <2>1, <2>3, <2>4, <2>5, <2>6 DEF JobOK
  <2>8. proc' \in [Procs -> ProcState]
    BY <1>1, <1>7 DEF TypeOK
  <2> QED BY <1>5, <1>7, <2>7, <2>8, JobStep
<1>8. CASE old.purge /\ UNCHANGED proc
           /\ job' = [job EXCEPT ![w] = [rest EXCEPT !.pc = "next", !.over = @ \cup {old.item}]]
  <2> DEFINE j == [rest EXCEPT !.pc = "next", !.over = @ \cup {old.item}]
  <2>1. /\ j \in JobState /\ j.pc = "next" /\ j.purge = old.purge /\ j.found = old.found
        /\ j.todo = old.todo /\ j.guarded = old.guarded /\ j.over = old.over \cup {old.item}
        /\ j.item = None /\ j.aside = None
    BY <1>1, <1>3 DEF JobState, JobPCs, Causes
  <2>2. j.over \subseteq j.todo
    BY <1>2, <1>3, <2>1 DEF JobShape
  <2> HIDE DEF j
  <2>3. job' = [job EXCEPT ![w] = j]
    BY <1>8 DEF j
  <2> QED BY <1>7, <1>8, <2>1, <2>2, <2>3
<1>9. CASE ~old.purge /\ UNCHANGED proc
           /\ job' = [job EXCEPT ![w] = [rest EXCEPT !.pc = IF Away(old.item) THEN "recover" ELSE "cull",
                                                     !.found = @ \ {old.item}, !.budget = @ - 1]]
  <2> DEFINE pc == IF Away(old.item) THEN "recover" ELSE "cull"
             j == [rest EXCEPT !.pc = pc, !.found = @ \ {old.item}, !.budget = @ - 1]
  <2>1. old.budget - 1 \in Nat /\ pc \in {"recover", "cull"}
    BY <1>3, <1>9
  <2> HIDE DEF pc
  <2>2. /\ j \in JobState /\ j.pc = pc /\ j.purge = old.purge /\ j.found \subseteq old.found
        /\ j.todo = old.todo /\ j.guarded = old.guarded /\ j.over = old.over
        /\ j.item = None /\ j.aside = None
    BY <1>1, <1>3, <2>1 DEF JobState, JobPCs, Causes
  <2> HIDE DEF j
  <2>3. job' = [job EXCEPT ![w] = j]
    BY <1>9 DEF j, pc
  <2> QED BY <1>2, <1>7, <1>9, <2>1, <2>2, <2>3 DEF JobShape
<1> QED BY <1>4, <1>8, <1>9 DEF Settle

LEMMA PutBackStep ==
  ASSUME IInv, NEW w \in Procs, job[w].pc \in {"verify", "unlink"},
         NEW cause \in Causes, PutBack(w, cause), UNCHANGED <<dir, used, now>>,
         left' \in [crashes : Nat, faults : Nat, edits : Nat, purges : Nat, writes : Nat]
  PROVE  IInv'
<1> DEFINE old == job[w]
           j == [old EXCEPT !.pc = "restore", !.cause = cause]
<1>1. JobOK(w, old) /\ old \in JobState /\ TypeOK
  BY DEF IInv, JobsOK, JobOK
<1>2. job' = [job EXCEPT ![w] = j] /\ UNCHANGED proc
  BY <1>1 DEF PutBack, TypeOK
<1>3. /\ j \in JobState /\ j.pc = "restore" /\ j.item = old.item /\ j.purge = old.purge
      /\ j.found = old.found /\ j.todo = old.todo /\ j.over = old.over /\ j.aside = old.aside
      /\ j.budget = old.budget /\ j.guarded = old.guarded
  BY <1>1 DEF JobState, JobPCs
<1> HIDE DEF j
<1>4. JobShape(w, j)
  BY <1>1, <1>3 DEF JobOK, JobShape, Aiming, Renaming
<1>5. JobKnows(j)
  BY <1>1, <1>3 DEF JobOK, JobKnows
<1>6. JobSpares(j)
  BY <1>1, <1>3 DEF JobOK, JobSpares, Aiming
<1>7. JobAside(j)
  BY <1>1, <1>3 DEF JobOK, JobAside, Renaming
<1> QED BY <1>1, <1>2, <1>3, <1>4, <1>5, <1>6, <1>7, LookStep DEF JobOK, TypeOK

(* The file is hidden under a name nobody knows of yet. *)
LEMMA MoveStep ==
  ASSUME IInv, NEW w \in Procs, Move(w)
  PROVE  IInv'
<1> DEFINE old == job[w]
           e == old.item
           m == Hidden(e)
           j == [old EXCEPT !.pc = "verify", !.aside = m]
<1>1. /\ old.pc = "move" /\ old.pc \in Aiming /\ UNCHANGED <<used, now>> /\ TypeOK /\ FilesTyped
      /\ JobOK(w, old) /\ old \in JobState
  BY FilesAreTyped DEF Move, Work, Aiming, IInv, JobsOK, JobOK
<1>2. /\ e \in old.todo /\ e \in Entry /\ e.name.session \in used
      /\ ~Away(e) => e.name \in Name /\ e.name.session \notin Held
      /\ Away(e) => e.name \in Quarantine /\ e.file = e.name.digest
      /\ Away(e) /\ Present(e.name) => dir[e.name] = e.name.digest
  BY <1>1, ItemFacts
<1>3. CASE UNCHANGED dir /\ (Spend("faults") \/ UNCHANGED left) /\ (Settle(w, "gone") \/ Settle(w, "failed"))
  <2>1. left' \in [crashes : Nat, faults : Nat, edits : Nat, purges : Nat, writes : Nat]
    BY <1>1, <1>3, Spending
  <2> QED BY <1>1, <1>3, <2>1, NothingIsSafe, SettleStep
<1>4. CASE /\ Present(e.name)
           /\ dir' = Renamed(e.name, m)
           /\ job' = [job EXCEPT ![w].pc = "verify", ![w].aside = m]
           /\ UNCHANGED <<proc, left>>
  <2>1. /\ m \in Quarantine /\ m \notin KnownNames /\ m.session = e.name.session
        /\ m.digest = e.file /\ m.digest # None /\ m \notin Name
    BY <1>2, HiddenIsFresh, NamesAside
  <2>2. DOMAIN dir \subseteq KnownNames /\ e.name \in DOMAIN dir
    BY <1>4, KnownHas DEF Present
  <2>3. m \notin DOMAIN dir /\ m # e.name
    BY <2>1, <2>2
  <2> HIDE DEF m
  <2>4. /\ FilesTyped'
        /\ DOMAIN dir' = (DOMAIN dir \ {e.name}) \cup {m} /\ dir'[m] = dir[e.name]
        /\ \A x : x # e.name /\ x # m => (x \in DOMAIN dir' <=> x \in DOMAIN dir)
                                    /\ (x \in DOMAIN dir => dir'[x] = dir[x])
    BY <1>1, <1>4, <2>1, <2>2, RenamedFiles
  <2>5. HeldStay
    BY <1>2, <2>1, <2>4, NamesAside DEF HeldStay
  <2>6. Tame
    BY <2>1, <2>4 DEF Tame
  <2>7. Safe
    BY <1>2, <2>1, <2>4, <2>5, <2>6 DEF Safe, IInv, Names
  <2>8. job' = [job EXCEPT ![w] = j] /\ job'[w] = j
    BY <1>1, <1>4 DEF TypeOK
  <2>9. /\ j \in JobState /\ j.pc = "verify" /\ j.item = e /\ j.purge = old.purge
        /\ j.found = old.found /\ j.todo = old.todo /\ j.over = old.over /\ j.aside = m
        /\ j.budget = old.budget /\ j.guarded = old.guarded
    BY <1>1, <2>1 DEF JobState, JobPCs
  <2> HIDE DEF j
  <2>10. \A v \in Procs : GoesOn(v)
    BY <1>4 DEF GoesOn
  <2>11. Held' = Held /\ Reserved' = Reserved
    BY <1>1, <2>10, HeldGoOn
  <2>12. JobShape(w, job[w])'
    BY <1>1, <1>4, <2>1, <2>8, <2>9 DEF JobOK, JobShape, Aiming, Renaming, IsLock, Away
  <2>13. JobKnows(job[w])'
    <3>1. \A f \in old.found \cup old.todo :
           /\ f.name.session \in used'
           /\ Away(f) => /\ f.file = f.name.digest
                         /\ f.name \in DOMAIN dir' => dir'[f.name] = f.name.digest
      BY <1>1, <2>6, KnowsKept
    <3> HIDE DEF old
    <3> QED BY <2>8, <2>9, <3>1 DEF JobKnows, Away, Present
  <2>14. JobSpares(job[w])'
    BY <1>1, <2>8, <2>9, <2>11 DEF JobOK, JobSpares, Aiming, Away, IsLock
  <2>15. JobAside(job[w])'
    BY <1>2, <1>4, <2>1, <2>4, <2>8, <2>9 DEF JobAside, Away
  <2>16. JobOK(w, job[w])'
    BY <2>8, <2>9, <2>12, <2>13, <2>14, <2>15 DEF JobOK
  <2>17. /\ proc' \in [Procs -> ProcState]
         /\ left' \in [crashes : Nat, faults : Nat, edits : Nat, purges : Nat, writes : Nat]
    BY <1>1, <1>4 DEF TypeOK
  <2> QED BY <1>1, <1>4, <2>7, <2>8, <2>9, <2>10, <2>16, <2>17, JobStep
<1> QED BY <1>3, <1>4 DEF Move

LEMMA VerifyStep ==
  ASSUME IInv, NEW w \in Procs, Verify(w)
  PROVE  IInv'
<1> DEFINE old == job[w]
           j == [old EXCEPT !.pc = "unlink"]
<1>1. /\ old.pc = "verify" /\ UNCHANGED <<dir, used, now>> /\ TypeOK
      /\ JobOK(w, old) /\ old \in JobState
  BY DEF Verify, Work, IInv, JobsOK, JobOK
<1>2. CASE /\ Holds(old.aside, old.item.file)
           /\ job' = [job EXCEPT ![w].pc = "unlink"]
           /\ UNCHANGED <<proc, left>>
  <2>1. job' = [job EXCEPT ![w] = j]
    BY <1>1, <1>2 DEF TypeOK
  <2>2. /\ j \in JobState /\ j.pc = "unlink" /\ j.item = old.item /\ j.purge = old.purge
        /\ j.found = old.found /\ j.todo = old.todo /\ j.over = old.over /\ j.aside = old.aside
        /\ j.budget = old.budget /\ j.guarded = old.guarded
    BY <1>1 DEF JobState, JobPCs
  <2> HIDE DEF j
  <2>3. JobShape(w, j) /\ JobKnows(j) /\ JobSpares(j)
    BY <1>1, <2>2 DEF JobOK, JobShape, JobKnows, JobSpares, Aiming, Renaming
  <2>4. JobAside(j)
    BY <1>1, <1>2, <2>2 DEF JobOK, JobShape, JobAside, Holds, Renaming
  <2> QED BY <1>1, <1>2, <2>1, <2>2, <2>3, <2>4, LookStep DEF JobOK, TypeOK
<1>3. ASSUME NEW cause \in Causes, PutBack(w, cause), Spend("faults") \/ UNCHANGED left
      PROVE  IInv'
  <2>1. left' \in [crashes : Nat, faults : Nat, edits : Nat, purges : Nat, writes : Nat]
    BY <1>1, <1>3, Spending
  <2> QED BY <1>1, <1>3, <2>1, PutBackStep
<1>4. {"changed", "gone", "failed"} \subseteq Causes
  BY DEF Causes
<1> QED BY <1>2, <1>3, <1>4 DEF Verify

LEMMA UnlinkStep ==
  ASSUME IInv, NEW w \in Procs, Unlink(w)
  PROVE  IInv'
<1> DEFINE aside == job[w].aside
<1>1. /\ job[w].pc = "unlink" /\ job[w].pc \in Aiming /\ UNCHANGED <<used, now>> /\ TypeOK /\ FilesTyped
  BY FilesAreTyped DEF Unlink, Work, Aiming, IInv
<1>2. aside \in Quarantine
  BY <1>1, ItemFacts DEF Renaming
<1>3. CASE dir' = Without(aside) /\ Settle(w, "removed") /\ UNCHANGED left
  <2>1. /\ FilesTyped' /\ DOMAIN dir' = DOMAIN dir \ {aside}
        /\ \A m : m # aside => (m \in DOMAIN dir' <=> m \in DOMAIN dir)
                            /\ (m \in DOMAIN dir => dir'[m] = dir[m])
    BY <1>1, <1>3, WithoutFiles
  <2>2. HeldStay
    BY <1>2, <2>1, NamesAside DEF HeldStay
  <2>3. Safe
    BY <2>1, <2>2 DEF Safe, Tame, IInv, Names
  <2> QED BY <1>1, <1>3, <2>3, SettleStep DEF TypeOK
<1>4. CASE (PutBack(w, "gone") \/ PutBack(w, "failed")) /\ UNCHANGED dir /\ (Spend("faults") \/ UNCHANGED left)
  <2>1. left' \in [crashes : Nat, faults : Nat, edits : Nat, purges : Nat, writes : Nat]
    BY <1>1, <1>4, Spending
  <2>2. "gone" \in Causes /\ "failed" \in Causes
    BY DEF Causes
  <2> QED BY <1>1, <1>4, <2>1, <2>2, PutBackStep
<1> QED BY <1>3, <1>4 DEF Unlink

LEMMA RestoreStep ==
  ASSUME IInv, NEW w \in Procs, Restore(w)
  PROVE  IInv'
<1> DEFINE old == job[w]
           e == old.item
           n == e.name
           aside == old.aside
<1>1. /\ old.pc = "restore" /\ old.pc \in Aiming /\ old.pc \in Renaming /\ UNCHANGED <<used, now>>
      /\ TypeOK /\ FilesTyped /\ JobAside(old)
  BY FilesAreTyped DEF Restore, Work, Aiming, Renaming, IInv, JobsOK, JobOK
<1>2. /\ e \in Entry /\ n.session \in used
      /\ ~Away(e) => n \in Name /\ n.session \notin Held
      /\ Away(e) => n \in Quarantine /\ e.file = n.digest
      /\ aside \in Quarantine /\ aside.digest = e.file
  BY <1>1, ItemFacts
<1>3. CASE PutsBack(w) /\ dir' = Renamed(aside, n) /\ Settle(w, old.cause) /\ UNCHANGED left
  <2>1. aside \in DOMAIN dir /\ n \notin DOMAIN dir /\ n \in Name \cup Quarantine
    BY <1>2, <1>3 DEF PutsBack, Present
  <2>2. /\ FilesTyped'
        /\ DOMAIN dir' = (DOMAIN dir \ {aside}) \cup {n} /\ dir'[n] = dir[aside]
        /\ \A x : x # aside /\ x # n => (x \in DOMAIN dir' <=> x \in DOMAIN dir)
                                    /\ (x \in DOMAIN dir => dir'[x] = dir[x])
    <3>1. FilesTyped /\ dir' = Renamed(aside, n)
      BY <1>1, <1>3
    <3> HIDE DEF n, aside
    <3> QED BY <2>1, <3>1, RenamedFiles
  <2>3. Away(e) => dir[aside] = n.digest
    BY <1>1, <1>2, <2>1 DEF JobAside, Present
  <2>4. HeldStay
    <3>1. ASSUME NEW x \in Name, x.session \in Held PROVE x # aside /\ x # n
      BY <1>2, <3>1, NamesAside
    <3> QED BY <2>2, <3>1 DEF HeldStay
  <2>5. Tame
    <3>1. ASSUME NEW x \in Quarantine, x = n PROVE dir'[x] = x.digest
      <4>1. Away(e)
        BY <1>2, <3>1, NamesAside
      <4> QED BY <2>2, <2>3, <3>1, <4>1
    <3>2. \A x \in Quarantine : x \in DOMAIN dir' /\ x # n => x \in DOMAIN dir /\ dir'[x] = dir[x]
      BY <2>2
    <3> QED BY <3>1, <3>2 DEF Tame
  <2>6. \A x \in DOMAIN dir' : x.session \in used
    BY <1>2, <2>2 DEF IInv, Names
  <2>7. \A x \in DOMAIN dir' : x.digest = None /\ x.session \in Reserved => x \in DOMAIN dir
    <3>1. n.digest = None => n.session \notin Reserved
      BY <1>2, ReservedAreHeld DEF Away
    <3> QED BY <2>2, <3>1
  <2>8. Safe
    BY <2>2, <2>4, <2>5, <2>6, <2>7 DEF Safe
  <2> QED BY <1>1, <1>3, <2>8, SettleStep DEF TypeOK
<1>4. ASSUME NEW result, Settle(w, result), UNCHANGED dir, Spend("faults") \/ UNCHANGED left
      PROVE  IInv'
  <2>1. left' \in [crashes : Nat, faults : Nat, edits : Nat, purges : Nat, writes : Nat]
    BY <1>1, <1>4, Spending
  <2> QED BY <1>1, <1>4, <2>1, NothingIsSafe, SettleStep
<1> QED BY <1>3, <1>4 DEF Restore

-----------------------------------------------------------------------------
(* The rest of the world. *)

(* A process starts or dies. *)
LEMMA RestartStep ==
  ASSUME IInv, NEW w \in Procs, NEW pid \in Pids \cup {None},
         pid # None => pid \notin Alive,
         proc' = [proc EXCEPT ![w] = [NoProc EXCEPT !.pid = pid]],
         job' = [job EXCEPT ![w] = NoJob],
         UNCHANGED <<dir, used, now>>,
         left' \in [crashes : Nat, faults : Nat, edits : Nat, purges : Nat, writes : Nat]
  PROVE  IInv'
<1> DEFINE p == [NoProc EXCEPT !.pid = pid]
<1>1. /\ p \in ProcState /\ p.pid = pid /\ p.session = None /\ p.stage = "none" /\ p.done = {}
      /\ pid = None => p = NoProc
  BY DEF NoProc, ProcState, Stages
<1> HIDE DEF p
<1>2. /\ proc'[w] = p /\ \A v \in Procs : v # w => proc'[v] = proc[v]
      /\ job'[w] = NoJob /\ \A v \in Procs : v # w => job'[v] = job[v]
      /\ proc' \in [Procs -> ProcState] /\ job' \in [Procs -> JobState]
  BY <1>1, NoJobState DEF IInv, TypeOK, p
<1>3. ~Holding(w)' /\ \A v \in Procs : v # w => Holding(v)' = Holding(v)
  BY <1>1, <1>2 DEF Holding
<1>4. Held' \subseteq Held /\ Reserved' \subseteq Reserved
  <2>1. ASSUME NEW v \in Procs, Holding(v)' PROVE proc'[v].session \in Held
    BY <1>2, <1>3, <2>1 DEF Held
  <2>2. ASSUME NEW v \in Procs, proc'[v].stage = "reserved" PROVE proc'[v].session \in Reserved
    BY <1>1, <1>2, <2>2 DEF Reserved
  <2> QED BY <2>1, <2>2 DEF Held, Reserved
<1>5. Opening /\ Tame
  BY <1>4 DEF Opening, Tame
<1>6. ASSUME NEW v \in Procs PROVE JobOK(v, job[v])'
  <2>1. CASE v # w
    BY <1>2, <1>5, <2>1, JobKept
  <2>2. CASE v = w
    <3>1. /\ NoJob.pc = "none" /\ NoJob.found = {} /\ NoJob.todo = {} /\ NoJob.over = {}
          /\ NoJob.item = None /\ NoJob.aside = None /\ ~NoJob.purge
      BY DEF NoJob
    <3>2. JobShape(w, job[w])'
      BY <1>2, <3>1, FS_EmptySet DEF JobShape, Aiming, Renaming
    <3>3. JobKnows(job[w])' /\ JobSpares(job[w])' /\ JobAside(job[w])'
      BY <1>2, <3>1 DEF JobKnows, JobSpares, JobAside, Aiming, Renaming
    <3> QED BY <1>2, <2>2, <3>2, <3>3, NoJobState DEF JobOK
  <2> QED BY <2>1, <2>2
<1>7. TypeOK'
  <2>1. \A v \in Procs : job'[v].over \subseteq job'[v].todo
    BY <1>6 DEF JobOK, JobShape
  <2> QED BY <1>2, <2>1 DEF IInv, TypeOK
<1>8. Names' /\ Unwritten'
  BY <1>4 DEF IInv, Names, Unwritten
<1>9. ASSUME NEW v \in Procs PROVE Sessional(v)' /\ Keeps(v)'
  <2>1. CASE v = w
    <3>1. \A u \in Procs \ {w} : pid # None => proc[u].pid # pid
      BY DEF Alive
    <3> QED BY <1>1, <1>2, <1>3, <2>1, <3>1 DEF Sessional, Keeps, Early
  <2>2. CASE v # w
    <3>1. Sessional(v) /\ Keeps(v) /\ proc'[v] = proc[v] /\ Holding(v)' = Holding(v)
      BY <1>2, <1>3, <2>2 DEF IInv, SessionsOK
    <3>2. Keeps(v)'
      BY <3>1 DEF Keeps, Present
    <3>3. proc[v].pid # None => proc[v].pid # pid
      BY DEF Alive
    <3> QED BY <1>1, <1>2, <2>2, <3>1, <3>2, <3>3 DEF Sessional
  <2> QED BY <2>1, <2>2
<1>10. SessionsOK' /\ JobsOK'
  BY <1>6, <1>9 DEF SessionsOK, JobsOK
<1> QED BY <1>7, <1>8, <1>10 DEF IInv

LEMMA LaunchStep ==
  ASSUME IInv, NEW w \in Procs, Launch(w)
  PROVE  IInv'
<1>1. TypeOK /\ proc[w].pid = None /\ JobShape(w, job[w]) /\ UNCHANGED <<dir, job, used, now, left>>
  BY DEF Launch, IInv, JobsOK, JobOK
<1>2. PICK p \in Pids \ Alive : proc' = [proc EXCEPT ![w] = [NoProc EXCEPT !.pid = p]]
  BY DEF Launch
<1>3. job' = [job EXCEPT ![w] = NoJob]
  BY <1>1 DEF JobShape, TypeOK
<1> QED BY <1>1, <1>2, <1>3, RestartStep DEF TypeOK

LEMMA CrashStep ==
  ASSUME IInv, NEW w \in Procs, Crash(w)
  PROVE  IInv'
<1>1. /\ UNCHANGED <<dir, used, now>> /\ (Spend("crashes") \/ UNCHANGED left)
      /\ job' = [job EXCEPT ![w] = NoJob] /\ proc' = [proc EXCEPT ![w] = NoProc]
  BY DEF Crash
<1>2. left' \in [crashes : Nat, faults : Nat, edits : Nat, purges : Nat, writes : Nat]
  BY <1>1, Spending DEF IInv
<1>3. NoProc = [NoProc EXCEPT !.pid = None]
  BY DEF NoProc
<1> QED BY <1>1, <1>2, <1>3, RestartStep

LEMMA EditStep ==
  ASSUME IInv, Edit
  PROVE  IInv'
<1>1. PICK s \in Sessions :
        LET n == InPlace(s, "finalized")
        IN  Present(n) /\ dir' = With(n, LogFile(s, dir[n].size + 1))
  BY DEF Edit
<1> DEFINE n == InPlace(s, "finalized")
           file == LogFile(s, dir[n].size + 1)
<1>2. TypeOK /\ FilesTyped /\ UNCHANGED <<proc, job, used, now>>
      /\ left' \in [crashes : Nat, faults : Nat, edits : Nat, purges : Nat, writes : Nat]
  BY FilesAreTyped, Spending DEF Edit, IInv
<1>3. n \in Name /\ n \in DOMAIN dir /\ n.kind = "finalized" /\ file \in File
  <2>1. n \in DOMAIN dir /\ dir[n].size + 1 \in Nat
    BY <1>1, <1>2 DEF Present, FilesTyped, File
  <2> QED BY <1>2, <2>1, InPlaceNames, NewFiles DEF Kinds3
<1>4. dir' = With(n, file)
  BY <1>1
<1> HIDE DEF n, file
<1>5. /\ FilesTyped' /\ DOMAIN dir' = DOMAIN dir \cup {n}
      /\ \A m : m # n => (m \in DOMAIN dir' <=> m \in DOMAIN dir)
                            /\ (m \in DOMAIN dir => dir'[m] = dir[m])
  BY <1>2, <1>3, <1>4, WithFiles
<1>6. HeldStay
  BY <1>3, <1>5 DEF HeldStay
<1>7. Tame
  BY <1>3, <1>5, NamesAside DEF Tame
<1>8. \A v \in Procs : GoesOn(v)
  BY <1>2 DEF GoesOn
<1>9. Opening
  BY <1>2, <1>8, HeldGoOn
<1>10. \A v \in Procs : JobOK(v, job[v])'
  BY <1>2, <1>7, <1>9, JobKept
<1> QED BY <1>2, <1>3, <1>5, <1>6, <1>8, <1>10, QuietStep DEF TypeOK, IInv, Names

LEMMA TickStep ==
  ASSUME IInv, Tick \/ UNCHANGED vars
  PROVE  IInv'
<1>1. TypeOK /\ UNCHANGED <<dir, proc, job, used, left>> /\ now' \in 0 .. MaxNow
  BY RetentionAssumption DEF Tick, IInv, TypeOK, vars
<1>2. \A v \in Procs : GoesOn(v)
  BY <1>1 DEF GoesOn
<1>3. Opening /\ Safe
  BY <1>1, <1>2, HeldGoOn, NothingIsSafe
<1>4. \A v \in Procs : JobOK(v, job[v])'
  BY <1>1, <1>3, JobKept DEF Safe
<1> QED BY <1>1, <1>2, <1>3, <1>4, QuietStep DEF TypeOK, Safe

LEMMA StepIInv == IInv /\ [Next]_vars => IInv'
<1> SUFFICES ASSUME IInv, [Next]_vars PROVE IInv'
  OBVIOUS
<1>1. ASSUME NEW w \in Procs, Session(w) PROVE IInv'
  BY <1>1, ReserveStep, ClaimStep, CreateStep, WriteStep, AbortStep, PublishStep, PruneStep,
     UnlockStep, SyncStep DEF Session
<1>2. ASSUME NEW w \in Procs, Job(w) PROVE IInv'
  BY <1>2, ScanStep, JudgeRetentionStep, JudgePurgeStep, RejudgePurgeStep, RecoverStep, CullStep,
     PurgeStep, PurgeNextStep, MoveStep, VerifyStep, UnlinkStep, RestoreStep DEF Job, UnlinkIfSame
<1>3. ASSUME NEW w \in Procs, Launch(w) \/ Crash(w) PROVE IInv'
  BY <1>3, LaunchStep, CrashStep
<1> QED BY <1>1, <1>2, <1>3, EditStep, TickStep DEF Next

-----------------------------------------------------------------------------
(* Whatever processes, crashes, failures and edits do, a session that is    *)
(* held keeps its files, and what passes and purges know is true.           *)
THEOREM Consistent == Spec => []IInv
BY InitIInv, StepIInv, PTL DEF Spec

(* The directory, the processes and their jobs keep their types, and a     *)
(* purge deals only with what the user confirmed.                          *)
THEOREM TypeCorrect == Spec => []TypeOK
<1>1. IInv => TypeOK
  BY DEF IInv
<1> QED BY <1>1, Consistent, PTL

(* Nobody takes the reservation, the partial file or the published log of a *)
(* session away before its finish or abort does: neither a retention pass   *)
(* nor a purge of another process, however old the inventory it works from. *)
THEOREM LiveFilesStay == Spec => []LiveSessionKeepsFiles
<1>1. ASSUME IInv PROVE LiveSessionKeepsFiles
  <2> SUFFICES ASSUME NEW w \in Procs
               PROVE  LET s == proc[w].session
                      IN  /\ proc[w].stage \notin {"none", "unlocked"} /\ "unlock" \notin proc[w].done
                               => Present(InPlace(s, "lock"))
                          /\ proc[w].stage = "open" => Present(InPlace(s, "partial"))
                          /\ proc[w].stage \in {"published", "pruned"} /\ "unlock" \notin proc[w].done
                               => Present(InPlace(s, "finalized"))
    BY DEF LiveSessionKeepsFiles
  <2>1. Keeps(w)
    BY <1>1 DEF IInv, SessionsOK
  <2> QED BY <2>1 DEF Keeps, Holding
<1> QED BY <1>1, Consistent, PTL

(* unlink_if_same destroys no file but one that is, byte for byte, the one  *)
(* the retention pass listed or the user was shown.                         *)
THEOREM DeletionsWereSeen == Spec => DeletesOnlyWhatItSaw
<1>1. ASSUME IInv, NEW w \in Procs, Destroys(w)
      PROVE  \E e \in job[w].todo : e.file = dir[job[w].aside]
  <2>1. /\ job[w].pc = "unlink" /\ job[w].pc \in Aiming /\ job[w].pc \in Renaming
        /\ Present(job[w].aside) /\ JobAside(job[w])
    BY <1>1 DEF Destroys, Aiming, Renaming, IInv, JobsOK, JobOK
  <2>2. dir[job[w].aside] = job[w].aside.digest
    BY <2>1 DEF JobAside
  <2>3. job[w].item \in job[w].todo /\ job[w].aside.digest = job[w].item.file
    BY <1>1, <2>1, ItemFacts
  <2> QED BY <2>2, <2>3
<1>2. IInv /\ [Next]_vars =>
        [\A w \in Procs : Destroys(w) => \E e \in job[w].todo : e.file = dir[job[w].aside]]_vars
  BY <1>1
<1> QED BY <1>2, Consistent, PTL DEF Spec, DeletesOnlyWhatItSaw

-----------------------------------------------------------------------------
(* What has become of a file: there is one of a session and kind, in place  *)
(* or hidden.                                                               *)

Same(n, m) == n.session = m.session /\ n.kind = m.kind

Unedited  == left.edits = MaxEdits
Unfaulted == left.faults = MaxFaults
Uncrashed == left.crashes = MaxCrashes

Opened   == {proc[w].session : w \in {v \in Procs : proc[v].stage \in Early}}
Right(e) == \A n \in DOMAIN dir : Same(n, e.name) => dir[n] = e.file

Bounded ==
  left.edits <= MaxEdits /\ left.faults <= MaxFaults /\ left.crashes <= MaxCrashes

Unique == \A n, m \in DOMAIN dir : Same(n, m) => n = m

Aloof ==
  /\ \A n \in DOMAIN dir : n.digest # None => n.session \notin Held
  /\ \A n \in DOMAIN dir : n.digest = None /\ n.session \in Opened => n.kind # "finalized"

Hiding ==
  /\ Unedited => \A n \in DOMAIN dir : n.digest # None => dir[n] = n.digest
  /\ Unfaulted /\ Uncrashed => \A n \in DOMAIN dir : n.digest # None => \E w \in Procs : job[w].aside = n

(* The entries of an inventory whose files have not changed since. *)
Sure(j) ==
  IF j.purge THEN IF j.pc \in {"scan", "judge"} THEN {} ELSE {e \in j.found \cap j.todo : ~Away(e)}
  ELSE {e \in j.found : ~Away(e) /\ e.name.kind = "finalized"}

Tidy(j) ==
  /\ j.pc \in Aiming => j.item \in j.found
  /\ j.pc \in Renaming => Same(j.aside, j.item.name) /\ j.aside # j.item.name
  /\ ~j.purge /\ (j.pc = "cull" \/ (j.pc \in Aiming /\ ~Away(j.item))) => \A e \in j.found : ~Away(e)
  /\ \A e \in j.found \cup j.todo :
       ~Away(e) /\ e.name.session \in Opened => e.name.kind # "finalized"
  /\ ~j.purge => \A e \in j.found \cup j.todo : ~Away(e) => e.name.kind # "partial"
  /\ Unedited => \A e \in Sure(j) : Right(e)
  /\ Unfaulted /\ j.pc = "restore" /\ (Away(j.item) \/ Unedited) => ~Present(j.aside)
  /\ Unfaulted /\ Unedited =>
       /\ ~j.purge /\ j.pc \notin {"scan", "judge"} => \A e \in j.todo \ j.found : ~Present(e.name)
       /\ j.pc \in Renaming => ~Present(j.item.name)

HInv == Bounded /\ Unique /\ Aloof /\ Hiding /\ \A w \in Procs : Tidy(job[w])

(* What a job knows of the files stays true: no file is added but by an     *)
(* early session to its own, or by renaming one.                            *)
Less ==
  /\ Bounded'
  /\ Unedited' => Unedited
  /\ Unfaulted' => Unfaulted
  /\ Uncrashed' => Uncrashed

Settled == /\ used \subseteq used'
           /\ \A s \in Held' : s \in Held \/ s \notin used
           /\ \A s \in Opened' : s \in Opened \/ s \notin used

Moved(n) ==
  /\ Unedited' => \E m \in DOMAIN dir : Same(m, n) /\ dir'[n] = dir[m]
  /\ \/ n \in DOMAIN dir
     \/ n \notin Name \cup KnownNames
     \/ ~Unfaulted'
     \/ n.digest = None /\ ~Unedited'

Calm ==
  /\ Less /\ Settled
  /\ \A n \in DOMAIN dir' : n.digest # None \/ (n.session \in used /\ n.session \notin Opened) => Moved(n)

LEMMA OpenedAreHeld ==
  ASSUME IInv
  PROVE  Opened \subseteq Held
<1>1. ASSUME NEW v \in Procs, proc[v].stage \in Early
      PROVE  Holding(v)
  <2>1. proc[v].stage # "none"
    BY <1>1 DEF Early
  <2> QED BY <1>1, <2>1, SessionFacts
<1> QED BY <1>1 DEF Opened, Held

LEMMA Lessening ==
  ASSUME IInv, Bounded, NEW kind \in {"crashes", "faults", "edits", "purges", "writes"},
         Spend(kind) \/ UNCHANGED left
  PROVE  /\ Less
         /\ Spend("faults") => ~Unfaulted'
         /\ Spend("crashes") => ~Uncrashed'
         /\ Spend("edits") => ~Unedited'
<1>1. left \in [crashes : Nat, faults : Nat, edits : Nat, purges : Nat, writes : Nat]
      /\ MaxEdits \in Nat /\ MaxFaults \in Nat /\ MaxCrashes \in Nat
  BY RetentionAssumption DEF IInv, TypeOK
<1>2. CASE UNCHANGED left
  BY <1>1, <1>2 DEF Less, Bounded, Unedited, Unfaulted, Uncrashed, Spend
<1>3. CASE kind = "crashes" /\ Spend(kind)
  BY <1>1, <1>3 DEF Less, Bounded, Unedited, Unfaulted, Uncrashed, Spend
<1>4. CASE kind = "faults" /\ Spend(kind)
  BY <1>1, <1>4 DEF Less, Bounded, Unedited, Unfaulted, Uncrashed, Spend
<1>5. CASE kind = "edits" /\ Spend(kind)
  BY <1>1, <1>5 DEF Less, Bounded, Unedited, Unfaulted, Uncrashed, Spend
<1>6. CASE kind \in {"purges", "writes"} /\ Spend(kind)
  BY <1>1, <1>6 DEF Less, Bounded, Unedited, Unfaulted, Uncrashed, Spend
<1> QED BY <1>2, <1>3, <1>4, <1>5, <1>6

(* The parts of Tidy that are about files, one step later. *)
LEMMA KeptParts ==
  ASSUME IInv, HInv, Calm, NEW v \in Procs
  PROVE  LET j == job[v]
         IN  /\ \A e \in j.found \cup j.todo :
                  ~Away(e) /\ e.name.session \in Opened' => e.name.kind # "finalized"
             /\ Unedited' => \A e \in Sure(j) : Right(e)'
             /\ Unfaulted' /\ j.pc = "restore" /\ (Away(j.item) \/ Unedited') => j.aside \notin DOMAIN dir'
             /\ Unfaulted' /\ Unedited' =>
                  /\ ~j.purge /\ j.pc \notin {"scan", "judge"} => \A e \in j.todo \ j.found : e.name \notin DOMAIN dir'
                  /\ j.pc \in Renaming => j.item.name \notin DOMAIN dir'
<1> DEFINE j == job[v]
           E == j.found \cup j.todo
<1>1. /\ Tidy(j) /\ JobShape(v, j) /\ JobKnows(j) /\ JobSpares(j)
      /\ j.found \subseteq Entry /\ j.todo \subseteq Entry
  BY JobEntries DEF HInv, IInv, JobsOK, JobOK
<1>2. /\ Unedited' => Unedited
      /\ Unfaulted' => Unfaulted
      /\ \A s \in Opened' : s \in Opened \/ s \notin used
      /\ Opened \subseteq Held
  BY OpenedAreHeld DEF Calm, Less, Settled
<1>3. \A e \in E : /\ e.name.session \in used /\ e \in Entry /\ e.name \in KnownNames
                   /\ e.name \in Name \cup Quarantine
                   /\ IF Away(e) THEN e.name \in Quarantine ELSE e.name \in Name
  BY <1>1, KnownHas, Entries DEF JobKnows
<1>4. \A e \in E : ~Away(e) /\ e.name.session \in Opened => e.name.kind # "finalized"
  BY <1>1 DEF Tidy
<1>5. \A e \in E : ~Away(e) /\ e.name.session \in Opened' => e.name.kind # "finalized"
  BY <1>2, <1>3, <1>4
<1>6. ASSUME Unedited', NEW e \in Sure(j) PROVE Right(e)'
  <2>1. e \in E /\ ~Away(e) /\ Right(e)
    BY <1>1, <1>2, <1>6 DEF Sure, Tidy
  <2>2. e.name.session \notin Opened
    <3>1. CASE j.purge
      <4>1. e \in j.todo
        BY <1>6, <3>1 DEF Sure
      <4> QED BY <1>1, <1>2, <3>1, <4>1 DEF JobSpares
    <3>2. CASE ~j.purge
      BY <1>4, <1>6, <2>1, <3>2 DEF Sure
    <3> QED BY <3>1, <3>2
  <2>3. ASSUME NEW n \in DOMAIN dir', Same(n, e.name) PROVE dir'[n] = e.file
    <3>1. n.session \in used /\ n.session \notin Opened
      BY <1>3, <2>1, <2>2, <2>3 DEF Same
    <3>2. Moved(n)
      BY <3>1 DEF Calm
    <3>3. PICK m \in DOMAIN dir : Same(m, n) /\ dir'[n] = dir[m]
      BY <1>6, <3>2 DEF Moved
    <3> QED BY <2>1, <2>3, <3>3 DEF Right, Same
  <2> QED BY <2>3 DEF Right, Same
<1>7. ASSUME Unfaulted', j.pc = "restore", Away(j.item) \/ Unedited', j.aside \in DOMAIN dir'
      PROVE  FALSE
  <2>1. j.aside \in Quarantine /\ j.aside \in KnownNames /\ j.aside.digest # None
    <3>1. j.aside \in Quarantine
      BY <1>1, <1>7 DEF JobShape, Renaming
    <3> QED BY <3>1, KnownHas, NoneAssumption, NamesAside
  <2>2. j.aside \notin DOMAIN dir
    BY <1>1, <1>2, <1>7 DEF Tidy, Present
  <2>3. Moved(j.aside)
    BY <1>7, <2>1 DEF Calm
  <2> QED BY <1>7, <2>1, <2>2, <2>3 DEF Moved
<1>8. ASSUME Unfaulted', Unedited', NEW e \in E, e.name \in DOMAIN dir', e.name \notin DOMAIN dir,
             ~Away(e) => e.name.session \notin Opened
      PROVE  FALSE
  <2>1. Moved(e.name)
    BY <1>3, <1>8 DEF Calm, Away
  <2> QED BY <1>3, <1>8, <2>1 DEF Moved
<1>9. ASSUME Unfaulted', Unedited', ~j.purge, j.pc \notin {"scan", "judge"}, NEW e \in j.todo \ j.found
      PROVE  e.name \notin DOMAIN dir'
  <2>1. e \in E /\ e.name \notin DOMAIN dir
    BY <1>1, <1>2, <1>9 DEF Tidy, Present
  <2>2. ~Away(e) => e.name.session \notin Opened
    <3>1. e \in j.todo /\ ~IsLock(e)
      BY <1>1, <1>9 DEF JobShape
    <3>2. ~Away(e) => e.name.kind # "partial" /\ e.name.kind # "lock"
      BY <1>1, <1>9, <2>1, <3>1 DEF Tidy, IsLock
    <3>3. ~Away(e) => e.name.kind \in Kinds3
      BY <1>3, <2>1 DEF Name, Kinds3
    <3> QED BY <1>4, <2>1, <3>2, <3>3 DEF Kinds3
  <2> QED BY <1>8, <1>9, <2>1, <2>2
<1>10. ASSUME Unfaulted', Unedited', j.pc \in Renaming
       PROVE  j.item.name \notin DOMAIN dir'
  <2>1. j.pc \in Aiming
    BY <1>10 DEF Aiming, Renaming
  <2>2. j.item \in E /\ j.item.name \notin DOMAIN dir /\ (~Away(j.item) => j.item.name.session \notin Held)
    BY <1>1, <1>2, <1>10, <2>1 DEF JobShape, Tidy, JobSpares, Present
  <2> QED BY <1>2, <1>8, <1>10, <2>2
<1> QED BY <1>5, <1>6, <1>7, <1>9, <1>10

LEMMA TidyKept ==
  ASSUME IInv, HInv, Calm, NEW v \in Procs, job'[v] = job[v]
  PROVE  Tidy(job[v])'
<1> DEFINE j == job[v]
<1>1. Tidy(j)
  BY DEF HInv
<1>2. /\ \A e \in j.found \cup j.todo :
           ~Away(e) /\ e.name.session \in Opened' => e.name.kind # "finalized"
      /\ Unedited' => \A e \in Sure(j) : Right(e)'
      /\ Unfaulted' /\ j.pc = "restore" /\ (Away(j.item) \/ Unedited') => j.aside \notin DOMAIN dir'
      /\ Unfaulted' /\ Unedited' =>
           /\ ~j.purge /\ j.pc \notin {"scan", "judge"} => \A e \in j.todo \ j.found : e.name \notin DOMAIN dir'
           /\ j.pc \in Renaming => j.item.name \notin DOMAIN dir'
  BY KeptParts
<1>3. job'[v] = j /\ Sure(job[v])' = Sure(j)
  BY DEF Sure, Away
<1> HIDE DEF j
<1> QED BY <1>1, <1>2, <1>3 DEF Tidy, Away, Same, Right, Present

(* The job goes on with what it knew. *)
LEMMA TidyOn ==
  ASSUME IInv, HInv, Calm, NEW w \in Procs, NEW j, job'[w] = j,
         j.found \cup j.todo \subseteq job[w].found \cup job[w].todo,
         Sure(j) \subseteq Sure(job[w]), j.purge = job[w].purge,
         j.pc \in Aiming => j.item \in j.found,
         j.pc \in Renaming => Same(j.aside, j.item.name) /\ j.aside # j.item.name,
         ~j.purge /\ (j.pc = "cull" \/ (j.pc \in Aiming /\ ~Away(j.item))) => \A e \in j.found : ~Away(e),
         Unfaulted' /\ j.pc = "restore" /\ (Away(j.item) \/ Unedited') => j.aside \notin DOMAIN dir',
         Unfaulted' /\ Unedited' =>
           /\ ~j.purge /\ j.pc \notin {"scan", "judge"} => \A e \in j.todo \ j.found :
                (job[w].pc \notin {"scan", "judge"} /\ e \in job[w].todo \ job[w].found) \/ e.name \notin DOMAIN dir'
           /\ j.pc \in Renaming => j.item.name \notin DOMAIN dir'
  PROVE  Tidy(job[w])'
<1> DEFINE old == job[w]
<1>1. Tidy(old)
  BY DEF HInv
<1>2. /\ \A e \in old.found \cup old.todo :
           ~Away(e) /\ e.name.session \in Opened' => e.name.kind # "finalized"
      /\ Unedited' => \A e \in Sure(old) : Right(e)'
      /\ Unfaulted' /\ Unedited' /\ ~old.purge /\ old.pc \notin {"scan", "judge"} =>
           \A e \in old.todo \ old.found : e.name \notin DOMAIN dir'
  BY KeptParts
<1>3. job'[w] = j /\ Sure(job[w])' = Sure(j)
  BY DEF Sure, Away
<1>4. ~j.purge => \A e \in j.found \cup j.todo : ~Away(e) => e.name.kind # "partial"
  BY <1>1 DEF Tidy
<1>5. \A e \in j.found \cup j.todo : ~Away(e) /\ e.name.session \in Opened' => e.name.kind # "finalized"
  BY <1>2
<1>6. Unedited' => \A e \in Sure(j) : Right(e)'
  BY <1>2
<1>7. Unfaulted' /\ Unedited' /\ ~j.purge /\ j.pc \notin {"scan", "judge"} =>
        \A e \in j.todo \ j.found : e.name \notin DOMAIN dir'
  BY <1>2
<1> HIDE DEF old
<1> QED BY <1>3, <1>4, <1>5, <1>6, <1>7 DEF Tidy, Away, Same, Right, Present

LEMMA NoJobTidy ==
  ASSUME NEW w \in Procs, job'[w] = NoJob
  PROVE  Tidy(job[w])'
<1>1. /\ NoJob.pc = "none" /\ NoJob.found = {} /\ NoJob.todo = {} /\ NoJob.over = {}
      /\ NoJob.item = None /\ NoJob.aside = None /\ ~NoJob.purge
  BY DEF NoJob
<1> QED BY <1>1 DEF Tidy, Aiming, Renaming, Sure

LEMMA GoesOnSettled ==
  ASSUME used' = used, \A v \in Procs : GoesOn(v)
  PROVE  Held' = Held /\ Opened' = Opened /\ Settled
<1>1. Held' = Held
  BY HeldGoOn
<1>2. \A v \in Procs : /\ proc'[v].session = proc[v].session
                       /\ proc'[v].stage \in Early <=> proc[v].stage \in Early
  BY DEF GoesOn, Early
<1>3. Opened' = Opened
  BY <1>2 DEF Opened
<1> QED BY <1>1, <1>3 DEF Settled

LEMMA StillCalm ==
  ASSUME dir' = dir, Less, Settled
  PROVE  Calm
BY DEF Calm, Moved, Same

LEMMA KeptSettled ==
  ASSUME UNCHANGED <<proc, used>>
  PROVE  Held' = Held /\ Opened' = Opened /\ Settled
BY GoesOnSettled DEF GoesOn

(* The directory stays as it is. *)
LEMMA StillStep ==
  ASSUME IInv, HInv, dir' = dir, used' = used, Less, Held' \subseteq Held, Opened' \subseteq Opened,
         NEW w \in Procs, \A v \in Procs : v # w => job'[v] = job[v], Tidy(job[w])',
         Unfaulted' /\ Uncrashed' => \A n \in DOMAIN dir : n.digest # None /\ job[w].aside = n => job'[w].aside = n
  PROVE  HInv'
<1>1. Settled
  BY DEF Settled
<1>2. Calm
  BY <1>1, StillCalm
<1>3. \A v \in Procs : Tidy(job[v])'
  BY <1>2, TidyKept
<1>4. Unique' /\ Aloof'
  BY DEF HInv, Unique, Aloof
<1>5. Unedited' => \A n \in DOMAIN dir' : n.digest # None => dir'[n] = n.digest
  BY DEF HInv, Hiding, Less
<1>6. ASSUME Unfaulted', Uncrashed', NEW n \in DOMAIN dir, n.digest # None
      PROVE  \E v \in Procs : job'[v].aside = n
  <2>1. PICK v \in Procs : job[v].aside = n
    BY <1>6 DEF HInv, Hiding, Less
  <2> QED BY <1>6, <2>1
<1> QED BY <1>3, <1>4, <1>5, <1>6 DEF HInv, Hiding, Less

(* Sessions go on, with files of their own. *)
LEMMA FileStep ==
  ASSUME IInv, HInv, IInv', Less, Settled, job' = job,
         \A n \in DOMAIN dir' :
           \/ n \in DOMAIN dir /\ dir'[n] = dir[n]
           \/ /\ n.digest = None
              /\ n.session \in Opened \/ n.session \notin used
              /\ n.session \in Opened' => n.kind # "finalized"
  PROVE  HInv'
<1> DEFINE OwnNew(n) == /\ n.digest = None
                        /\ n.session \in Opened \/ n.session \notin used
                        /\ n.session \in Opened' => n.kind # "finalized"
<1>1. \A n \in DOMAIN dir' : (n \in DOMAIN dir /\ dir'[n] = dir[n]) \/ OwnNew(n)
  OBVIOUS
<1>2. Calm
  <2>1. ASSUME NEW n \in DOMAIN dir', n.digest # None \/ (n.session \in used /\ n.session \notin Opened)
        PROVE  Moved(n)
    <3>1. n \in DOMAIN dir /\ dir'[n] = dir[n]
      BY <2>1
    <3> QED BY <3>1 DEF Moved, Same
  <2> QED BY <2>1 DEF Calm
<1>3. \A v \in Procs : Tidy(job[v])'
  BY <1>2, TidyKept
<1>4. \A n \in DOMAIN dir : n.session \in used
  BY DEF IInv, Names
<1>5. \A n \in DOMAIN dir' : IF n.digest = None THEN n \in Name ELSE n \in Quarantine
  <2>1. DOMAIN dir' \subseteq Name \cup Quarantine
    BY DEF IInv, TypeOK
  <2> QED BY <2>1, NamesInPlace, NamesAside
<1>6. \A n \in DOMAIN dir' : n.digest # None => n \in DOMAIN dir /\ n.session \notin Held /\ n.session \in used
  BY <1>1, <1>4 DEF HInv, Aloof
<1>7. Unique'
  <2> SUFFICES ASSUME NEW n \in DOMAIN dir', NEW m \in DOMAIN dir', Same(n, m) PROVE n = m
    BY DEF Unique, Same
  <2>1. CASE n \in DOMAIN dir /\ m \in DOMAIN dir
    BY <2>1 DEF HInv, Unique
  <2>2. CASE n.digest = None /\ m.digest = None
    BY <1>5, <2>2, NamesInPlace DEF Same
  <2>3. CASE OwnNew(n) /\ m.digest # None
    BY <1>6, <2>3, OpenedAreHeld DEF Same
  <2>4. CASE OwnNew(m) /\ n.digest # None
    BY <1>6, <2>4, OpenedAreHeld DEF Same
  <2> QED BY <1>1, <2>1, <2>2, <2>3, <2>4
<1>8. Aloof'
  <2>1. \A n \in DOMAIN dir' : n.digest # None => n.session \notin Held'
    BY <1>6 DEF Settled
  <2>2. \A n \in DOMAIN dir' : n.digest = None /\ n.session \in Opened' => n.kind # "finalized"
    BY <1>1, <1>4 DEF HInv, Aloof, Settled
  <2> QED BY <2>1, <2>2 DEF Aloof
<1>9. Hiding'
  <2>1. Unedited' => \A n \in DOMAIN dir' : n.digest # None => dir'[n] = n.digest
    BY <1>1 DEF HInv, Hiding, Less
  <2>2. Unfaulted' /\ Uncrashed' => \A n \in DOMAIN dir' : n.digest # None => \E v \in Procs : job'[v].aside = n
    BY <1>6 DEF HInv, Hiding, Less
  <2> QED BY <2>1, <2>2 DEF Hiding
<1> QED BY <1>3, <1>7, <1>8, <1>9 DEF HInv, Less

-----------------------------------------------------------------------------
(* Steps of sessions. *)

LEMMA OneSettled ==
  ASSUME IInv, NEW w \in Procs, NEW p, proc' = [proc EXCEPT ![w] = p], used \subseteq used',
         p.stage \notin {"none", "unlocked"} /\ "unlock" \notin p.done =>
           (Holding(w) /\ p.session = proc[w].session) \/ p.session \notin used,
         p.stage \in Early => (proc[w].stage \in Early /\ p.session = proc[w].session) \/ p.session \notin used
  PROVE  Settled /\ proc'[w] = p
<1>1. proc'[w] = p /\ \A v \in Procs : v # w => proc'[v] = proc[v]
  BY DEF IInv, TypeOK
<1>2. ASSUME NEW v \in Procs, Holding(v)'
      PROVE  proc'[v].session \in Held \/ proc'[v].session \notin used
  <2>1. CASE v = w
    BY <1>1, <1>2, <2>1 DEF Holding, Held
  <2>2. CASE v # w
    BY <1>1, <1>2, <2>2 DEF Holding, Held
  <2> QED BY <2>1, <2>2
<1>3. ASSUME NEW v \in Procs, proc'[v].stage \in Early
      PROVE  proc'[v].session \in Opened \/ proc'[v].session \notin used
  <2>1. CASE v = w
    BY <1>1, <1>3, <2>1 DEF Opened
  <2>2. CASE v # w
    BY <1>1, <1>3, <2>2 DEF Opened
  <2> QED BY <2>1, <2>2
<1> QED BY <1>1, <1>2, <1>3 DEF Settled, Held, Opened

LEMMA EarlyOpened ==
  ASSUME IInv, NEW w \in Procs, proc[w].stage \in Early
  PROVE  proc[w].session \in Opened /\ Holding(w) /\ proc[w].done = {}
<1>1. proc[w].stage # "none"
  BY DEF Early
<1> QED BY <1>1, SessionFacts DEF Opened

LEMMA ReserveHides ==
  ASSUME IInv, HInv, IInv', NEW w \in Procs, NEW s \in Sessions, Reserve(w, s)
  PROVE  HInv'
<1> DEFINE lock == InPlace(s, "lock")
           p == [proc[w] EXCEPT !.stage = "reserved", !.session = s, !.done = {}]
<1>1. TypeOK /\ FilesTyped /\ proc[w] \in ProcState
  BY FilesAreTyped DEF IInv, TypeOK
<1>2. p.session = s /\ p.stage = "reserved"
  BY <1>1 DEF ProcState
<1>3. /\ s \notin used /\ used' = used \cup {s} /\ job' = job /\ UNCHANGED left
      /\ dir' = With(lock, LockFile(s, None)) /\ proc' = [proc EXCEPT ![w] = p]
  BY <1>1 DEF Reserve, TypeOK
<1>4. /\ lock \in Name \cup Quarantine /\ lock.digest = None /\ lock.session = s /\ lock.kind = "lock"
      /\ LockFile(s, None) \in File
  BY <1>1, InPlaceNames, NewFiles DEF Kinds3
<1>5. DOMAIN dir' = DOMAIN dir \cup {lock} /\ \A m : m # lock /\ m \in DOMAIN dir => dir'[m] = dir[m]
  BY <1>1, <1>3, <1>4, WithFiles
<1>6. Less
  BY <1>3, Lessening DEF HInv
<1> HIDE DEF p, lock
<1>7. Settled
  BY <1>2, <1>3, OneSettled
<1> QED BY <1>3, <1>4, <1>5, <1>6, <1>7, FileStep

(* A step of an early session that leaves everything but one file alone. *)
LEMMA EarlyStep ==
  ASSUME IInv, HInv, IInv', NEW w \in Procs, proc[w].stage \in Early, UNCHANGED <<job, used>>,
         NEW kind \in {"crashes", "faults", "edits", "purges", "writes"}, Spend(kind) \/ UNCHANGED left,
         NEW p, proc' = [proc EXCEPT ![w] = p], p.stage # "none" => p.session = proc[w].session,
         NEW k, k = "finalized" => p.stage \notin Early,
         \A m : m # InPlace(proc[w].session, k) /\ m \in DOMAIN dir' => m \in DOMAIN dir /\ dir'[m] = dir[m]
  PROVE  HInv'
<1> DEFINE s == proc[w].session
           n == InPlace(s, k)
<1>1. s \in Opened /\ Holding(w)
  BY EarlyOpened
<1>2. Less
  BY Lessening DEF HInv
<1>3. p.stage \in Early => p.stage # "none"
  BY DEF Early
<1>4. Settled /\ proc'[w] = p
  BY <1>1, <1>3, OneSettled
<1>5. n.digest = None /\ n.session = s /\ n.kind = k
  BY InPlaceNames
<1>6. k = "finalized" => s \notin Opened'
  <2>1. \A v \in Procs : v # w => proc'[v] = proc[v] /\ proc[v].session # s
    <3>1. s # None
      BY SessionFacts DEF Early
    <3> QED BY <3>1 DEF IInv, TypeOK, SessionsOK, Sessional
  <2> QED BY <1>4, <2>1 DEF Opened
<1>7. \A m \in DOMAIN dir' : m # n => m \in DOMAIN dir /\ dir'[m] = dir[m]
  OBVIOUS
<1> HIDE DEF n
<1> QED BY <1>1, <1>2, <1>4, <1>5, <1>6, <1>7, FileStep

LEMMA DropHides ==
  ASSUME IInv, HInv, IInv', NEW w \in Procs, UNCHANGED <<job, used>>, proc[w].stage \in Early,
         NEW kind \in {"crashes", "faults", "edits", "purges", "writes"}, Spend(kind) \/ UNCHANGED left,
         NEW k \in {"lock", "partial"}, NEW stage \in {"none", "aborting"}, Drop(w, k, stage)
  PROVE  HInv'
<1> DEFINE n == InPlace(proc[w].session, k)
           session == IF stage = "none" THEN None ELSE proc[w].session
           p == [proc[w] EXCEPT !.stage = stage, !.session = session]
<1>1. proc[w] \in ProcState /\ TypeOK /\ FilesTyped
  BY FilesAreTyped DEF IInv, TypeOK
<1>2. proc' = [proc EXCEPT ![w] = p] /\ dir' = Without(n)
  BY <1>1 DEF Drop, TypeOK
<1>3. p.stage # "none" => p.session = proc[w].session
  BY <1>1 DEF ProcState
<1>4. \A m : m # n /\ m \in DOMAIN dir' => m \in DOMAIN dir /\ dir'[m] = dir[m]
  BY <1>1, <1>2, WithoutFiles
<1> HIDE DEF p
<1> QED BY <1>2, <1>3, <1>4, EarlyStep

LEMMA ClaimHides ==
  ASSUME IInv, HInv, IInv', NEW w \in Procs, Claim(w)
  PROVE  HInv'
<1>1. proc[w].stage = "reserved" /\ proc[w].stage \in Early /\ UNCHANGED <<job, used>>
      /\ proc[w] \in ProcState /\ TypeOK
  BY DEF Claim, Early, IInv, TypeOK
<1>2. CASE Spend("faults") /\ Drop(w, "lock", "none")
  BY <1>1, <1>2, DropHides
<1>3. CASE /\ dir' = With(InPlace(proc[w].session, "lock"), LockFile(proc[w].session, proc[w].pid))
           /\ Enter(w, "claimed") /\ UNCHANGED left
  <2> DEFINE p == [proc[w] EXCEPT !.stage = "claimed"]
  <2>1. proc' = [proc EXCEPT ![w] = p] /\ p.session = proc[w].session
    BY <1>1, <1>3 DEF Enter, TypeOK, ProcState
  <2> DEFINE k == "lock"
  <2>2. \A m : m # InPlace(proc[w].session, k) /\ m \in DOMAIN dir' => m \in DOMAIN dir /\ dir'[m] = dir[m]
    BY <1>3 DEF With
  <2>3. k # "finalized" /\ (Spend("faults") \/ UNCHANGED left)
    BY <1>3
  <2> HIDE DEF p, k
  <2> QED BY <1>1, <2>1, <2>2, <2>3, EarlyStep
<1> QED BY <1>2, <1>3 DEF Claim

LEMMA CreateHides ==
  ASSUME IInv, HInv, IInv', NEW w \in Procs, Create(w)
  PROVE  HInv'
<1>1. proc[w].stage = "claimed" /\ proc[w].stage \in Early /\ UNCHANGED <<job, used>>
      /\ proc[w] \in ProcState /\ TypeOK
  BY DEF Create, Early, IInv, TypeOK
<1>2. CASE Drop(w, "lock", "none") /\ (Spend("faults") \/ UNCHANGED left)
  BY <1>1, <1>2, DropHides
<1>3. CASE /\ dir' = With(InPlace(proc[w].session, "partial"), LogFile(proc[w].session, 0))
           /\ Enter(w, "open") /\ UNCHANGED left
  <2> DEFINE p == [proc[w] EXCEPT !.stage = "open"]
  <2>1. proc' = [proc EXCEPT ![w] = p] /\ p.session = proc[w].session
    BY <1>1, <1>3 DEF Enter, TypeOK, ProcState
  <2> DEFINE k == "partial"
  <2>2. \A m : m # InPlace(proc[w].session, k) /\ m \in DOMAIN dir' => m \in DOMAIN dir /\ dir'[m] = dir[m]
    BY <1>3 DEF With
  <2>3. k # "finalized" /\ (Spend("faults") \/ UNCHANGED left)
    BY <1>3
  <2> HIDE DEF p, k
  <2> QED BY <1>1, <2>1, <2>2, <2>3, EarlyStep
<1> QED BY <1>2, <1>3 DEF Create

LEMMA WriteHides ==
  ASSUME IInv, HInv, IInv', NEW w \in Procs, Write(w)
  PROVE  HInv'
<1> DEFINE k == "partial"
           n == InPlace(proc[w].session, k)
           p == proc[w]
<1>1. proc[w].stage \in Early /\ UNCHANGED <<job, used>> /\ Spend("writes")
      /\ dir' = With(n, LogFile(proc[w].session, dir[n].size + 1))
      /\ proc' = [proc EXCEPT ![w] = p]
  BY DEF Write, Early, IInv, TypeOK
<1>2. \A m : m # n /\ m \in DOMAIN dir' => m \in DOMAIN dir /\ dir'[m] = dir[m]
  BY <1>1 DEF With
<1>3. p.session = proc[w].session /\ k # "finalized"
  OBVIOUS
<1> HIDE DEF p, k
<1> QED BY <1>1, <1>2, <1>3, EarlyStep

LEMMA AbortHides ==
  ASSUME IInv, HInv, IInv', NEW w \in Procs, Abort(w)
  PROVE  HInv'
<1>1. UNCHANGED <<job, used>> /\ proc[w].stage \in Early
  BY DEF Abort, Early
<1>2. CASE Spend("faults") /\ Drop(w, "partial", "aborting")
  BY <1>1, <1>2, DropHides
<1>3. CASE UNCHANGED left /\ Drop(w, "lock", "none")
  BY <1>1, <1>3, DropHides
<1> QED BY <1>2, <1>3 DEF Abort

LEMMA PublishHides ==
  ASSUME IInv, HInv, IInv', NEW w \in Procs, Publish(w)
  PROVE  HInv'
<1> DEFINE n == InPlace(proc[w].session, "partial")
           m == InPlace(proc[w].session, "finalized")
           p == [proc[w] EXCEPT !.stage = "published"]
<1>1. /\ proc[w].stage \in Early /\ UNCHANGED <<job, used, left>>
      /\ dir' = Renamed(n, m) /\ proc' = [proc EXCEPT ![w] = p]
      /\ p.session = proc[w].session /\ p.stage \notin Early
  <2>1. proc[w] \in ProcState
    BY DEF IInv, TypeOK
  <2> QED BY <2>1 DEF Publish, Early, IInv, TypeOK, Enter, ProcState
<1>2. \A x : x # m /\ x \in DOMAIN dir' => x \in DOMAIN dir /\ dir'[x] = dir[x]
  BY <1>1 DEF Renamed
<1> HIDE DEF p, n
<1> QED BY <1>1, <1>2, EarlyStep

LEMMA UnlockHides ==
  ASSUME IInv, HInv, IInv', NEW w \in Procs, Unlock(w)
  PROVE  HInv'
<1>1. /\ proc[w].stage = "pruned" /\ UNCHANGED <<job, used>> /\ proc[w] \in ProcState /\ TypeOK
      /\ Spend("faults") \/ UNCHANGED left
  BY DEF Unlock, IInv, TypeOK
<1>2. Less
  BY <1>1, Lessening DEF HInv
<1>3. CASE /\ dir' = Without(InPlace(proc[w].session, "lock"))
           /\ proc' = [proc EXCEPT ![w].stage = "unlocked", ![w].done = @ \cup {"unlock"}]
  <2> DEFINE p == [proc[w] EXCEPT !.stage = "unlocked", !.done = @ \cup {"unlock"}]
  <2>1. proc' = [proc EXCEPT ![w] = p] /\ p.stage = "unlocked"
    BY <1>1, <1>3 DEF TypeOK, ProcState
  <2>2. \A m \in DOMAIN dir' : m \in DOMAIN dir /\ dir'[m] = dir[m]
    BY <1>3 DEF Without
  <2> HIDE DEF p
  <2>3. Settled
    BY <1>1, <2>1, OneSettled DEF Early
  <2> QED BY <1>1, <1>2, <2>2, <2>3, FileStep
<1>4. CASE "unlock" \notin proc[w].done /\ Enter(w, "published") /\ UNCHANGED dir
  <2> DEFINE p == [proc[w] EXCEPT !.stage = "published"]
  <2>1. proc' = [proc EXCEPT ![w] = p] /\ p.stage = "published" /\ p.session = proc[w].session /\ Holding(w)
    BY <1>1, <1>4 DEF TypeOK, Enter, ProcState, Holding
  <2> HIDE DEF p
  <2>2. Settled
    BY <1>1, <2>1, OneSettled DEF Early
  <2> QED BY <1>1, <1>2, <1>4, <2>2, FileStep
<1> QED BY <1>3, <1>4 DEF Unlock

LEMMA SyncHides ==
  ASSUME IInv, HInv, IInv', NEW w \in Procs, Sync(w)
  PROVE  HInv'
<1>1. /\ proc[w].stage = "unlocked" /\ UNCHANGED <<dir, job, used>> /\ proc[w] \in ProcState /\ TypeOK
      /\ Spend("faults") \/ UNCHANGED left
      /\ "unlock" \in proc[w].done
  BY DEF Sync, IInv, TypeOK, SessionsOK, Sessional
<1>2. Less
  BY <1>1, Lessening DEF HInv
<1>3. CASE proc' = [proc EXCEPT ![w].stage = "none", ![w].session = None, ![w].done = {}]
  <2> DEFINE p == [proc[w] EXCEPT !.stage = "none", !.session = None, !.done = {}]
  <2>1. proc' = [proc EXCEPT ![w] = p] /\ p.stage = "none"
    BY <1>1, <1>3 DEF TypeOK, ProcState
  <2> HIDE DEF p
  <2>2. Settled
    BY <1>1, <2>1, OneSettled DEF Early
  <2> QED BY <1>1, <1>2, <2>2, FileStep
<1>4. CASE Enter(w, "published")
  <2> DEFINE p == [proc[w] EXCEPT !.stage = "published"]
  <2>1. proc' = [proc EXCEPT ![w] = p] /\ p.stage = "published" /\ p.done = proc[w].done
    BY <1>1, <1>4 DEF TypeOK, Enter, ProcState
  <2> HIDE DEF p
  <2>2. Settled
    BY <1>1, <2>1, OneSettled DEF Early
  <2> QED BY <1>1, <1>2, <2>2, FileStep
<1> QED BY <1>3, <1>4 DEF Sync

-----------------------------------------------------------------------------
(* Steps of jobs. *)

LEMMA HiddenNames ==
  ASSUME IInv, NEW n \in DOMAIN dir, n.digest # None
  PROVE  n \in Quarantine /\ n # None
<1>1. n \in Name \cup Quarantine
  BY DEF IInv, TypeOK
<1> QED BY <1>1, NamesInPlace, NoneAssumption

(* A job looks around, and may learn from what it sees. *)
LEMMA LookHides ==
  ASSUME IInv, HInv, NEW w \in Procs, NEW j, job' = [job EXCEPT ![w] = j],
         UNCHANGED <<dir, proc, used>>, Less, j.aside = job[w].aside,
         j.found \cup j.todo \subseteq job[w].found \cup job[w].todo,
         Sure(j) \subseteq Sure(job[w]), j.purge = job[w].purge,
         j.pc \in Aiming => j.item \in j.found,
         j.pc \in Renaming => Same(j.aside, j.item.name) /\ j.aside # j.item.name,
         ~j.purge /\ (j.pc = "cull" \/ (j.pc \in Aiming /\ ~Away(j.item))) => \A e \in j.found : ~Away(e),
         Unfaulted' /\ j.pc = "restore" /\ (Away(j.item) \/ Unedited') => j.aside \notin DOMAIN dir,
         ~j.purge /\ j.pc \notin {"scan", "judge"} =>
           \A e \in j.todo \ j.found : job[w].pc \notin {"scan", "judge"} /\ e \in job[w].todo \ job[w].found,
         j.pc \in Renaming => job[w].pc \in Renaming /\ j.item = job[w].item
  PROVE  HInv'
<1>1. job'[w] = j /\ \A v \in Procs : v # w => job'[v] = job[v]
  BY DEF IInv, TypeOK
<1>2. Held' = Held /\ Opened' = Opened /\ Settled /\ Calm
  BY KeptSettled, StillCalm
<1>3. ASSUME Unfaulted', Unedited', j.pc \in Renaming PROVE j.item.name \notin DOMAIN dir'
  BY <1>2, <1>3, KeptParts
<1>4. Tidy(job[w])'
  <2>1. Unfaulted' /\ Unedited' =>
           /\ ~j.purge /\ j.pc \notin {"scan", "judge"} => \A e \in j.todo \ j.found :
                (job[w].pc \notin {"scan", "judge"} /\ e \in job[w].todo \ job[w].found) \/ e.name \notin DOMAIN dir'
           /\ j.pc \in Renaming => j.item.name \notin DOMAIN dir'
    BY <1>3
  <2>2. Unfaulted' /\ j.pc = "restore" /\ (Away(j.item) \/ Unedited') => j.aside \notin DOMAIN dir'
    OBVIOUS
  <2> QED BY <1>1, <1>2, <2>1, <2>2, TidyOn
<1> QED BY <1>1, <1>2, <1>4, StillStep

LEMMA EndHides ==
  ASSUME IInv, HInv, NEW w \in Procs, NEW good \in BOOLEAN, job[w].pc # "none",
         IF job[w].purge THEN EndPurge(w) ELSE EndPass(w, good),
         UNCHANGED <<dir, used>>, Less,
         job[w].pc \notin Renaming
  PROVE  HInv'
<1>1. job' = [job EXCEPT ![w] = NoJob]
  BY DEF EndPurge, EndPass
<1>2. job'[w] = NoJob /\ \A v \in Procs : v # w => job'[v] = job[v]
  BY <1>1 DEF IInv, TypeOK
<1>3. \A v \in Procs : GoesOn(v)
  BY EndGoesOn DEF GoesOn
<1>4. Held' = Held /\ Opened' = Opened /\ Settled
  BY <1>3, GoesOnSettled
<1>5. job[w].aside = None
  BY DEF IInv, JobsOK, JobOK, JobShape
<1> QED BY <1>2, <1>4, <1>5, NoJobTidy, HiddenNames, StillStep

LEMMA PruneHides ==
  ASSUME IInv, HInv, IInv', NEW w \in Procs, Prune(w)
  PROVE  HInv'
<1>1. /\ job[w].pc = "none" /\ UNCHANGED <<dir, used, left>> /\ proc[w] \in ProcState /\ TypeOK
      /\ proc[w].stage = "published" /\ JobShape(w, job[w])
  BY DEF Prune, Free, IInv, TypeOK, JobsOK, JobOK
<1>2. Less
  BY <1>1, Lessening DEF HInv
<1>3. CASE Enter(w, "pruned") /\ UNCHANGED job
  <2> DEFINE p == [proc[w] EXCEPT !.stage = "pruned"]
  <2>1. proc' = [proc EXCEPT ![w] = p] /\ p.stage = "pruned" /\ p.session = proc[w].session
        /\ p.done = proc[w].done
    BY <1>1, <1>3 DEF Enter, TypeOK, ProcState
  <2> HIDE DEF p
  <2>2. Settled
    BY <1>1, <2>1, OneSettled DEF Early, Holding
  <2> QED BY <1>1, <1>2, <1>3, <2>2, FileStep
<1>4. CASE /\ job' = [job EXCEPT ![w] = [NoJob EXCEPT !.pc = "scan", !.budget = MaxDeletions]]
           /\ UNCHANGED proc
  <2> DEFINE j == [NoJob EXCEPT !.pc = "scan", !.budget = MaxDeletions]
  <2>1. /\ j.pc = "scan" /\ ~j.purge /\ j.found = {} /\ j.todo = {} /\ j.aside = None
    BY DEF NoJob
  <2>2. job[w] = NoJob /\ NoJob.aside = None
    BY <1>1 DEF JobShape, NoJob
  <2>3. job'[w] = j /\ \A v \in Procs : v # w => job'[v] = job[v]
    BY <1>1, <1>4 DEF TypeOK
  <2> HIDE DEF j
  <2>4. Tidy(job[w])'
    BY <2>1, <2>3 DEF Tidy, Aiming, Renaming, Sure
  <2>5. Held' = Held /\ Opened' = Opened
    BY <1>1, <1>4, KeptSettled
  <2> QED BY <1>1, <1>2, <2>1, <2>2, <2>3, <2>4, <2>5, StillStep
<1> QED BY <1>3, <1>4 DEF Prune

LEMMA PurgeHides ==
  ASSUME IInv, HInv, NEW w \in Procs, Purge(w)
  PROVE  HInv'
<1> DEFINE j == [NoJob EXCEPT !.pc = "scan", !.purge = TRUE]
<1>1. /\ job[w].pc = "none" /\ UNCHANGED <<dir, proc, used>> /\ Spend("purges")
      /\ JobShape(w, job[w]) /\ job' = [job EXCEPT ![w] = j] /\ TypeOK
  BY DEF Purge, Free, IInv, JobsOK, JobOK
<1>2. Less
  BY <1>1, Lessening DEF HInv
<1>3. /\ j.pc = "scan" /\ j.purge /\ j.found = {} /\ j.todo = {} /\ j.aside = None
  BY DEF NoJob
<1>4. job[w] = NoJob /\ NoJob.aside = None
  BY <1>1 DEF JobShape, NoJob
<1>5. job'[w] = j /\ \A v \in Procs : v # w => job'[v] = job[v]
  BY <1>1 DEF TypeOK
<1> HIDE DEF j
<1>6. Tidy(job[w])'
  BY <1>3, <1>5 DEF Tidy, Aiming, Renaming, Sure
<1>7. Held' = Held /\ Opened' = Opened
  BY <1>1, KeptSettled
<1> QED BY <1>1, <1>2, <1>3, <1>4, <1>5, <1>6, <1>7, StillStep

LEMMA ScanHides ==
  ASSUME IInv, HInv, NEW w \in Procs, Scan(w)
  PROVE  HInv'
<1> DEFINE old == job[w]
<1>1. /\ old.pc \in {"scan", "rescan"} /\ UNCHANGED <<dir, used>> /\ TypeOK
      /\ JobOK(w, old) /\ old \in JobState /\ (Spend("faults") \/ UNCHANGED left)
  BY DEF Scan, Work, IInv, JobsOK, JobOK
<1>2. Less
  BY <1>1, Lessening DEF HInv
<1>3. old.pc \notin Renaming /\ old.pc \notin Aiming /\ old.pc # "none"
  BY <1>1 DEF Renaming, Aiming
<1>4. CASE GiveUp(w)
  BY <1>1, <1>2, <1>3, <1>4, EndHides DEF GiveUp
<1> DEFINE kinds == IF old.purge THEN {"partial", "finalized", "lock"} ELSE {"finalized", "lock"}
           j == [old EXCEPT !.pc = IF @ = "scan" THEN "judge" ELSE "rejudge", !.found = Listed(kinds)]
<1>5. CASE /\ job' = [job EXCEPT ![w].pc = IF @ = "scan" THEN "judge" ELSE "rejudge",
                                 ![w].found = Listed(kinds)]
           /\ UNCHANGED <<proc, left>>
  <2>1. job' = [job EXCEPT ![w] = j]
    BY <1>1, <1>5 DEF TypeOK
  <2>2. job'[w] = j /\ \A v \in Procs : v # w => job'[v] = job[v]
    BY <1>1, <2>1 DEF TypeOK
  <2>3. /\ j.pc \in {"judge", "rejudge"} /\ (j.pc = "rejudge" => old.pc = "rescan")
        /\ j.found = Listed(kinds) /\ j.todo = old.todo /\ j.purge = old.purge
        /\ j.item = old.item /\ j.aside = old.aside
    BY <1>1 DEF JobState
  <2>4. \A e \in j.found : e.name \in DOMAIN dir /\ e.file = dir[e.name]
    BY <2>3, ListedEntries
  <2>5. ~old.purge => \A e \in j.found : ~Away(e) => e.name.kind # "partial"
    <3>1. ~old.purge => kinds = {"finalized", "lock"}
      OBVIOUS
    <3>2. \A e \in Listed(kinds) : ~Away(e) => e.name.kind \in kinds
      BY DEF Listed, Away
    <3> QED BY <2>3, <3>1, <3>2
  <2> HIDE DEF j, kinds
  <2>6. Held' = Held /\ Opened' = Opened /\ Settled
    BY <1>1, <1>5, KeptSettled
  <2>7. Tidy(old)
    BY DEF HInv
  <2>8. j.purge \/ (j.pc = "judge" /\ j.todo = {})
    BY <1>1, <2>3 DEF JobOK, JobShape
  <2>9. \A e \in j.found : Right(e)
    BY <2>4 DEF HInv, Unique, Right
  <2>10. \A e \in j.found \cup j.todo :
           ~Away(e) /\ e.name.session \in Opened => e.name.kind # "finalized"
    <3>1. \A e \in j.found : ~Away(e) /\ e.name.session \in Opened => e.name.kind # "finalized"
      BY <2>4 DEF HInv, Aloof, Away
    <3>2. \A e \in j.todo : ~Away(e) /\ e.name.session \in Opened => e.name.kind # "finalized"
      BY <2>3, <2>7 DEF Tidy
    <3> QED BY <3>1, <3>2
  <2>11. \A e \in j.found : Right(e)'
    BY <1>1, <2>9 DEF Right, Same
  <2>12. Sure(j) \subseteq j.found /\ Sure(job[w])' = Sure(j)
    BY <2>2 DEF Sure, Away
  <2>13. ~j.purge => \A e \in j.found \cup j.todo : ~Away(e) => e.name.kind # "partial"
    BY <2>3, <2>5, <2>8
  <2>14. Tidy(job[w])'
    <3>1. j.pc \notin Aiming /\ j.pc \notin Renaming /\ j.pc # "restore" /\ j.pc # "cull"
      BY <2>3 DEF Aiming, Renaming
    <3> QED BY <2>2, <2>6, <2>8, <2>10, <2>11, <2>12, <2>13, <3>1 DEF Tidy, Away
  <2> QED BY <1>1, <1>2, <2>2, <2>3, <2>6, <2>14, StillStep
<1> QED BY <1>4, <1>5 DEF Scan

LEMMA JudgeHides ==
  ASSUME IInv, HInv, NEW w \in Procs, JudgeRetention(w) \/ JudgePurge(w) \/ RejudgePurge(w)
  PROVE  HInv'
<1> DEFINE old == job[w]
<1>1. /\ old.pc \in {"judge", "rejudge"} /\ UNCHANGED <<dir, used, left>> /\ TypeOK
      /\ old \in JobState /\ JobShape(w, old)
  BY DEF JudgeRetention, JudgePurge, RejudgePurge, Work, IInv, JobsOK, JobOK
<1>2. Less
  BY <1>1, Lessening DEF HInv
<1>3. old.pc \notin Renaming /\ old.pc \notin Aiming /\ old.pc # "none"
  BY <1>1 DEF Renaming, Aiming
<1>4. CASE JudgeRetention(w)
  <2> DEFINE locks == {e \in old.found : IsLock(e)}
             guarded == {s \in {e.name.session : e \in locks} : OwnerAlive(s)}
             j == [old EXCEPT !.pc = "recover", !.found = @ \ locks, !.todo = old.found \ locks, !.guarded = guarded]
  <2>1. ~old.purge /\ job' = [job EXCEPT ![w] = j] /\ UNCHANGED proc
    BY <1>1, <1>4 DEF JudgeRetention, TypeOK
  <2>2. /\ j.pc = "recover" /\ j.found \subseteq old.found /\ j.todo = j.found /\ j.purge = old.purge
        /\ j.aside = old.aside
    BY <1>1 DEF JobState
  <2> HIDE DEF j
  <2>3. j.pc \notin Aiming /\ j.pc \notin Renaming /\ j.pc # "cull" /\ j.pc # "restore"
    BY <2>2 DEF Aiming, Renaming
  <2>4. Sure(j) \subseteq Sure(old)
    BY <2>1, <2>2 DEF Sure
  <2> QED BY <1>1, <1>2, <2>1, <2>2, <2>3, <2>4, LookHides
<1>5. CASE JudgePurge(w) /\ EndPurge(w)
  BY <1>1, <1>2, <1>3, <1>5, EndHides DEF JudgePurge
<1>6. CASE JudgePurge(w) /\ ~EndPurge(w)
  <2> DEFINE targets == {e \in old.found : e.name.session \notin PurgeGuard(w)}
             j == [old EXCEPT !.pc = "rescan", !.found = {}, !.todo = targets]
  <2>1. old.purge /\ job' = [job EXCEPT ![w] = j] /\ UNCHANGED proc
    BY <1>1, <1>6 DEF JudgePurge, TypeOK
  <2>2. /\ j.pc = "rescan" /\ j.found = {} /\ j.todo \subseteq old.found /\ j.purge = old.purge
        /\ j.aside = old.aside
    BY <1>1 DEF JobState
  <2> HIDE DEF j
  <2>3. j.pc \notin Aiming /\ j.pc \notin Renaming /\ j.pc # "cull" /\ j.pc # "restore"
    BY <2>2 DEF Aiming, Renaming
  <2>4. Sure(j) \subseteq Sure(old)
    BY <2>1, <2>2 DEF Sure
  <2> QED BY <1>1, <1>2, <2>1, <2>2, <2>3, <2>4, LookHides
<1>7. CASE RejudgePurge(w)
  <2> DEFINE j == [old EXCEPT !.pc = "next", !.guarded = PurgeGuard(w), !.found = @ \cap old.todo]
  <2>1. job' = [job EXCEPT ![w] = j] /\ UNCHANGED proc /\ old.pc = "rejudge"
    BY <1>1, <1>7 DEF RejudgePurge, Work, TypeOK
  <2>2. /\ j.pc = "next" /\ j.found = old.found \cap old.todo /\ j.todo = old.todo /\ j.purge = old.purge
        /\ j.aside = old.aside
    BY <1>1 DEF JobState
  <2>3. old.purge
    BY <1>1, <2>1 DEF JobShape
  <2> HIDE DEF j
  <2>4. j.pc \notin Aiming /\ j.pc \notin Renaming /\ j.pc # "cull" /\ j.pc # "restore"
    BY <2>2 DEF Aiming, Renaming
  <2>5. Sure(j) \subseteq Sure(old)
    BY <2>1, <2>2, <2>3 DEF Sure
  <2> QED BY <1>1, <1>2, <2>1, <2>2, <2>3, <2>4, <2>5, LookHides
<1> QED BY <1>4, <1>5, <1>6, <1>7

LEMMA TargetHides ==
  ASSUME IInv, HInv, NEW w \in Procs, job[w].pc \in {"recover", "cull", "next"},
         NEW e \in job[w].found, Target(w, e), UNCHANGED <<dir, used, left>>,
         ~job[w].purge /\ ~Away(e) => \A f \in job[w].found : ~Away(f)
  PROVE  HInv'
<1> DEFINE old == job[w]
           j == [old EXCEPT !.pc = "move", !.item = e]
<1>1. TypeOK /\ old \in JobState
  BY DEF IInv, TypeOK
<1>2. Less
  BY <1>1, Lessening DEF HInv
<1>3. job' = [job EXCEPT ![w] = j] /\ UNCHANGED proc
  BY <1>1 DEF Target, TypeOK
<1>4. /\ j.pc = "move" /\ j.item = e /\ j.found = old.found /\ j.todo = old.todo /\ j.purge = old.purge
      /\ j.aside = old.aside
  BY <1>1 DEF JobState
<1> HIDE DEF j
<1>5. j.pc \notin Renaming /\ j.pc # "cull" /\ j.pc # "restore"
  BY <1>4 DEF Renaming
<1>6. Sure(j) \subseteq Sure(old)
  BY <1>4 DEF Sure
<1> QED BY <1>1, <1>2, <1>3, <1>4, <1>5, <1>6, LookHides

LEMMA ChooseHides ==
  ASSUME IInv, HInv, NEW w \in Procs, Recover(w) \/ Cull(w) \/ PurgeNext(w)
  PROVE  HInv'
<1> DEFINE old == job[w]
<1>1. /\ old.pc \in {"recover", "cull", "next"} /\ UNCHANGED <<dir, used, left>> /\ TypeOK
      /\ old \in JobState /\ JobShape(w, old) /\ Tidy(old)
  BY DEF Recover, Cull, PurgeNext, Work, IInv, JobsOK, JobOK, HInv
<1>2. Less
  BY <1>1, Lessening DEF HInv
<1>3. old.pc \notin Renaming /\ old.pc \notin Aiming /\ old.pc # "none"
  BY <1>1 DEF Renaming, Aiming
<1>4. CASE ~old.purge /\ (EndPass(w, TRUE) \/ EndPass(w, FALSE))
  BY <1>1, <1>2, <1>3, <1>4, EndHides
<1>5. CASE old.purge /\ EndPurge(w)
  BY <1>1, <1>2, <1>3, <1>5, EndHides
<1>6. CASE Recover(w)
  <2> DEFINE leftover == {e \in old.found : Away(e)}
             cutoff == IF now > KeepAge THEN now - KeepAge ELSE 0
             j == [old EXCEPT !.pc = "cull", !.cutoff = cutoff]
  <2>1. ~old.purge /\ old.pc = "recover"
    BY <1>1, <1>6 DEF Recover, Work, JobShape
  <2>2. CASE /\ leftover = {} /\ UNCHANGED proc
             /\ job' = [job EXCEPT ![w].pc = "cull", ![w].cutoff = cutoff]
    <3>1. job' = [job EXCEPT ![w] = j]
      BY <1>1, <2>2 DEF TypeOK
    <3>2. /\ j.pc = "cull" /\ j.found = old.found /\ j.todo = old.todo /\ j.purge = old.purge
          /\ j.aside = old.aside
      BY <1>1 DEF JobState
    <3> HIDE DEF j, cutoff
    <3>3. j.pc \notin Aiming /\ j.pc \notin Renaming /\ j.pc # "restore"
      BY <3>2 DEF Aiming, Renaming
    <3>4. Sure(j) \subseteq Sure(old) /\ \A e \in j.found : ~Away(e)
      BY <2>1, <2>2, <3>2 DEF Sure
    <3> QED BY <1>1, <1>2, <2>1, <2>2, <3>1, <3>2, <3>3, <3>4, LookHides
  <2>3. CASE \E e \in leftover : Target(w, e)
    <3>1. PICK e \in leftover : Target(w, e)
      BY <2>3
    <3> QED BY <1>1, <3>1, TargetHides
  <2> QED BY <1>4, <1>6, <2>1, <2>2, <2>3 DEF Recover
<1>7. CASE Cull(w)
  <2>1. ~old.purge /\ old.pc = "cull"
    BY <1>1, <1>7 DEF Cull, Work, JobShape
  <2>2. \A f \in old.found : ~Away(f)
    BY <1>1, <2>1 DEF Tidy
  <2>3. ASSUME NEW e \in Victims(w), Target(w, e) PROVE HInv'
    <3>1. e \in old.found
      BY <2>3 DEF Victims, Oldest, Expired, Surplus, Expendable
    <3> QED BY <1>1, <2>2, <2>3, <3>1, TargetHides
  <2> QED BY <1>4, <1>7, <2>1, <2>3 DEF Cull
<1>8. CASE PurgeNext(w)
  <2>1. old.purge /\ old.pc = "next"
    BY <1>1, <1>8 DEF PurgeNext, Work, JobShape
  <2>2. ASSUME NEW e, Eligible(w, e), Target(w, e) PROVE HInv'
    <3>1. e \in old.found
      BY <2>2 DEF Eligible
    <3> QED BY <1>1, <2>1, <2>2, <3>1, TargetHides
  <2>3. ASSUME NEW e, job' = [job EXCEPT ![w].over = @ \cup {e}], UNCHANGED proc PROVE HInv'
    <3> DEFINE j == [old EXCEPT !.over = @ \cup {e}]
    <3>1. job' = [job EXCEPT ![w] = j]
      BY <1>1, <2>3 DEF TypeOK
    <3>2. /\ j.pc = old.pc /\ j.found = old.found /\ j.todo = old.todo /\ j.purge = old.purge
          /\ j.aside = old.aside
      BY <1>1 DEF JobState
    <3> HIDE DEF j
    <3>3. j.pc \notin Aiming /\ j.pc \notin Renaming /\ j.pc # "restore"
      BY <1>3, <2>1, <3>2
    <3>4. Sure(j) \subseteq Sure(old)
      BY <3>2 DEF Sure
    <3> QED BY <1>1, <1>2, <2>1, <2>3, <3>1, <3>2, <3>3, <3>4, LookHides
  <2> QED BY <1>5, <1>8, <2>1, <2>2, <2>3 DEF PurgeNext
<1> QED BY <1>6, <1>7, <1>8

LEMMA RestartHides ==
  ASSUME IInv, HInv, IInv', NEW w \in Procs, Launch(w) \/ Crash(w)
  PROVE  HInv'
<1>1. TypeOK /\ JobShape(w, job[w]) /\ UNCHANGED <<dir, used>> /\ (Spend("crashes") \/ UNCHANGED left)
  BY DEF Launch, Crash, IInv, JobsOK, JobOK
<1>2. Less /\ (Spend("crashes") => ~Uncrashed')
  BY <1>1, Lessening DEF HInv
<1>3. PICK p : proc' = [proc EXCEPT ![w] = [NoProc EXCEPT !.pid = p]]
  <2>1. NoProc = [NoProc EXCEPT !.pid = None]
    BY DEF NoProc
  <2> QED BY <2>1 DEF Launch, Crash
<1> DEFINE new == [NoProc EXCEPT !.pid = p]
<1>4. new.stage = "none"
  BY DEF NoProc
<1>5. \A v \in Procs : v # w => proc'[v] = proc[v]
  BY <1>1, <1>3 DEF TypeOK
<1>6. proc'[w].stage = "none"
  BY <1>1, <1>3, <1>4 DEF TypeOK
<1>7. Held' \subseteq Held
  BY <1>5, <1>6 DEF Held, Holding
<1>8. Opened' \subseteq Opened
  BY <1>5, <1>6 DEF Opened, Early
<1>9. Settled
  BY <1>1, <1>7, <1>8 DEF Settled
<1>10. CASE Launch(w)
  BY <1>1, <1>2, <1>9, <1>10, FileStep DEF Launch
<1>11. CASE Crash(w)
  <2>1. job' = [job EXCEPT ![w] = NoJob]
    BY <1>11 DEF Crash
  <2>2. job'[w] = NoJob /\ \A v \in Procs : v # w => job'[v] = job[v]
    BY <1>1, <2>1 DEF TypeOK
  <2>3. Uncrashed' => job[w] = NoJob
    BY <1>1, <1>2, <1>11 DEF Crash, JobShape
  <2> QED BY <1>1, <1>2, <1>7, <1>8, <2>2, <2>3, NoJobTidy, StillStep
<1> QED BY <1>10, <1>11

LEMMA EditHides ==
  ASSUME IInv, HInv, Edit
  PROVE  HInv'
<1>1. Less /\ ~Unedited' /\ UNCHANGED <<proc, job, used>>
  BY Lessening DEF HInv, Edit
<1>2. DOMAIN dir' = DOMAIN dir
  BY DEF Edit, With, Present
<1>3. Held' = Held /\ Opened' = Opened /\ Settled
  BY <1>1, KeptSettled
<1>4. Calm
  BY <1>1, <1>2, <1>3 DEF Calm, Moved
<1>5. \A v \in Procs : Tidy(job[v])'
  BY <1>1, <1>4, TidyKept
<1>6. Unique' /\ Aloof'
  BY <1>2, <1>3 DEF HInv, Unique, Aloof
<1>7. Hiding'
  <2>1. Unfaulted' /\ Uncrashed' => \A n \in DOMAIN dir' : n.digest # None => \E v \in Procs : job'[v].aside = n
    BY <1>1, <1>2 DEF HInv, Hiding, Less
  <2> QED BY <1>1, <2>1 DEF Hiding
<1> QED BY <1>1, <1>5, <1>6, <1>7 DEF HInv, Less

LEMMA TickHides ==
  ASSUME IInv, HInv, IInv', Tick \/ UNCHANGED vars
  PROVE  HInv'
<1>1. UNCHANGED <<dir, proc, job, used, left>>
  BY DEF Tick, vars
<1>2. Less
  BY <1>1, Lessening DEF HInv
<1> QED BY <1>1, <1>2, KeptSettled, FileStep

(* The file is dealt with. *)
LEMMA SettledHides ==
  ASSUME IInv, NEW w \in Procs, NEW result, job[w].pc \in Aiming, Settle(w, result), used' = used
  PROVE  /\ \A v \in Procs : v # w => job'[v] = job[v]
         /\ Held' = Held /\ Opened' = Opened /\ Settled
<1>1. TypeOK /\ job[w].pc # "none"
  BY DEF IInv, Aiming
<1>2. \A v \in Procs : v # w => job'[v] = job[v]
  BY <1>1 DEF Settle, EndPass, TypeOK
<1>3. \A v \in Procs : GoesOn(v)
  <2>1. CASE proc' = proc
    BY <2>1 DEF GoesOn
  <2>2. CASE ~job[w].purge /\ EndPass(w, FALSE)
    BY <1>1, <2>2, EndGoesOn DEF GoesOn
  <2> QED BY <2>1, <2>2 DEF Settle
<1> QED BY <1>2, <1>3, GoesOnSettled

LEMMA SettleTidy ==
  ASSUME IInv, HInv, Calm, NEW w \in Procs, NEW result, job[w].pc \in Aiming, Settle(w, result),
         result \in {"removed", "gone"} /\ Unfaulted' /\ Unedited' => job[w].item.name \notin DOMAIN dir'
  PROVE  Tidy(job[w])'
<1> DEFINE old == job[w]
           rest == [old EXCEPT !.item = None, !.aside = None, !.cause = "none"]
<1>1. /\ TypeOK /\ old \in JobState /\ Tidy(old)
      /\ old.pc \notin {"scan", "judge", "none"}
  BY DEF IInv, TypeOK, HInv, Aiming
<1>2. CASE EndPass(w, FALSE)
  BY <1>1, <1>2, NoJobTidy DEF EndPass, TypeOK
<1>3. CASE /\ old.purge
           /\ job' = [job EXCEPT ![w] = [rest EXCEPT !.pc = "next", !.over = @ \cup {old.item}]]
  <2> DEFINE j == [rest EXCEPT !.pc = "next", !.over = @ \cup {old.item}]
  <2>1. j.pc = "next" /\ j.purge = old.purge /\ j.found = old.found /\ j.todo = old.todo
    BY <1>1 DEF JobState
  <2>2. job'[w] = j
    BY <1>1, <1>3 DEF TypeOK
  <2> HIDE DEF j
  <2>3. j.pc \notin Aiming /\ j.pc \notin Renaming /\ j.pc # "cull" /\ j.pc # "restore"
    BY <2>1 DEF Aiming, Renaming
  <2>4. Sure(j) \subseteq Sure(old)
    BY <1>1, <1>3, <2>1 DEF Sure
  <2> QED BY <1>1, <1>3, <2>1, <2>2, <2>3, <2>4, TidyOn
<1>4. CASE /\ ~old.purge /\ result \in {"removed", "gone"}
           /\ job' = [job EXCEPT ![w] = [rest EXCEPT !.pc = IF Away(old.item) THEN "recover" ELSE "cull",
                                                     !.found = @ \ {old.item}, !.budget = @ - 1]]
  <2> DEFINE pc == IF Away(old.item) THEN "recover" ELSE "cull"
             j == [rest EXCEPT !.pc = pc, !.found = @ \ {old.item}, !.budget = @ - 1]
  <2>1. pc \in {"recover", "cull"} /\ (pc = "cull" => ~Away(old.item))
    OBVIOUS
  <2> HIDE DEF pc
  <2>2. j.pc = pc /\ j.purge = old.purge /\ j.found = old.found \ {old.item} /\ j.todo = old.todo
    BY <1>1 DEF JobState
  <2>3. job'[w] = j
    BY <1>1, <1>4 DEF TypeOK, pc
  <2> HIDE DEF j
  <2>4. j.pc \notin Aiming /\ j.pc \notin Renaming /\ j.pc # "restore"
    BY <2>1, <2>2 DEF Aiming, Renaming
  <2>5. Sure(j) \subseteq Sure(old)
    BY <1>1, <1>4, <2>2 DEF Sure
  <2>6. j.pc = "cull" => \A e \in j.found : ~Away(e)
    BY <1>1, <1>4, <2>1, <2>2 DEF Tidy
  <2>7. Unfaulted' /\ Unedited' => \A e \in j.todo \ j.found : e \in old.todo \ old.found \/ e.name \notin DOMAIN dir'
    BY <1>4, <2>2
  <2> QED BY <1>1, <1>4, <2>2, <2>3, <2>4, <2>5, <2>6, <2>7, TidyOn
<1> QED BY <1>2, <1>3, <1>4 DEF Settle

LEMMA SettleHides ==
  ASSUME IInv, HInv, NEW w \in Procs, NEW result, job[w].pc \in Aiming, Settle(w, result),
         UNCHANGED <<dir, used>>, Less,
         result \in {"removed", "gone"} /\ Unfaulted' /\ Unedited' => job[w].item.name \notin DOMAIN dir,
         Unfaulted' /\ Uncrashed' /\ job[w].pc \in Renaming => job[w].aside \notin DOMAIN dir
  PROVE  HInv'
<1>1. /\ \A v \in Procs : v # w => job'[v] = job[v]
      /\ Held' = Held /\ Opened' = Opened /\ Settled
  BY SettledHides
<1>2. Calm
  BY <1>1, StillCalm
<1>3. Tidy(job[w])'
  BY <1>2, SettleTidy
<1>4. job[w].pc \notin Renaming => job[w].aside = None
  BY DEF IInv, JobsOK, JobOK, JobShape
<1>5. Unfaulted' /\ Uncrashed' => \A n \in DOMAIN dir : n.digest # None /\ job[w].aside = n => job'[w].aside = n
  BY <1>4, HiddenNames
<1> QED BY <1>1, <1>3, <1>5, StillStep

(* The file a job is after is the one in its inventory, if nobody edits.    *)
LEMMA ItemIsSure ==
  ASSUME IInv, HInv, NEW w \in Procs, job[w].pc \in Aiming
  PROVE  /\ job[w].item \in job[w].found
         /\ job[w].item.name.session \notin Held \/ ~Present(job[w].item.name)
         /\ Unedited /\ Present(job[w].item.name) => dir[job[w].item.name] = job[w].item.file
         /\ Unedited /\ ~Away(job[w].item) => Right(job[w].item)
<1> DEFINE j == job[w]
           e == job[w].item
<1>1. /\ JobShape(w, j) /\ Tidy(j) /\ j.pc \notin {"scan", "judge"}
      /\ e \in j.found /\ e \in j.todo
      /\ ~Away(e) => e.name \in Name /\ e.name.session \notin Held
      /\ Away(e) => e.name \in Quarantine /\ e.file = e.name.digest
      /\ Away(e) /\ Present(e.name) => dir[e.name] = e.name.digest
  BY ItemFacts DEF IInv, JobsOK, JobOK, HInv, Tidy, Aiming
<1>2. Away(e) /\ Present(e.name) => e.name.session \notin Held
  BY DEF HInv, Aloof, Away, Present
<1>3. ~Away(e) => e \in Sure(j)
  <2>1. CASE j.purge
    BY <1>1, <2>1 DEF Sure
  <2>2. CASE ~j.purge
    <3>1. ~Away(e) => e.name.kind # "partial" /\ e.name.kind # "lock"
      BY <1>1, <2>2 DEF Tidy, JobShape, IsLock
    <3>2. ~Away(e) => e.name.kind = "finalized"
      BY <1>1, <3>1 DEF Name
    <3> QED BY <1>1, <2>2, <3>2 DEF Sure
  <2> QED BY <2>1, <2>2
<1>4. Unedited /\ ~Away(e) => Right(e)
  BY <1>1, <1>3 DEF Tidy
<1>5. Unedited /\ Present(e.name) => dir[e.name] = e.file
  BY <1>1, <1>4 DEF Right, Same, Present
<1> QED BY <1>1, <1>2, <1>4, <1>5

LEMMA MoveHides ==
  ASSUME IInv, HInv, NEW w \in Procs, Move(w)
  PROVE  HInv'
<1> DEFINE old == job[w]
           e == old.item
           m == Hidden(e)
           j == [old EXCEPT !.pc = "verify", !.aside = m]
<1>1. /\ old.pc = "move" /\ old.pc \in Aiming /\ old.pc \notin Renaming /\ UNCHANGED used /\ TypeOK /\ FilesTyped
      /\ JobShape(w, old) /\ old \in JobState /\ Tidy(old) /\ (Spend("faults") \/ UNCHANGED left)
  BY FilesAreTyped DEF Move, Work, Aiming, Renaming, IInv, JobsOK, JobOK, HInv
<1>2. Less /\ (Spend("faults") => ~Unfaulted')
  BY <1>1, Lessening DEF HInv
<1>3. CASE ~Present(e.name) /\ Settle(w, "gone") /\ UNCHANGED <<dir, left>>
  BY <1>1, <1>2, <1>3, SettleHides DEF Present
<1>4. CASE Spend("faults") /\ Settle(w, "failed") /\ UNCHANGED dir
  BY <1>1, <1>2, <1>4, SettleHides
<1>5. CASE /\ Present(e.name)
           /\ dir' = Renamed(e.name, m)
           /\ job' = [job EXCEPT ![w].pc = "verify", ![w].aside = m]
           /\ UNCHANGED <<proc, left>>
  <2>0. e \in Entry /\ e \in old.found /\ e.name.session \notin Held
        /\ (Unedited => dir[e.name] = e.file)
    BY <1>1, <1>5, ItemFacts, ItemIsSure
  <2>1. /\ m \in Quarantine /\ m \notin KnownNames /\ m.digest = e.file /\ m.digest # None /\ m \notin Name
        /\ Same(m, e.name)
    BY <2>0, HiddenIsFresh, NamesAside DEF Same, Hidden
  <2>2. DOMAIN dir \subseteq KnownNames /\ e.name \in DOMAIN dir
    BY <1>5, KnownHas DEF Present
  <2>3. m \notin DOMAIN dir /\ m # e.name
    BY <2>1, <2>2
  <2>4. job' = [job EXCEPT ![w] = j]
    BY <1>1, <1>5 DEF TypeOK
  <2>5. /\ j.pc = "verify" /\ j.item = e /\ j.purge = old.purge /\ j.aside = m
        /\ j.found = old.found /\ j.todo = old.todo
    BY <1>1 DEF JobState
  <2> HIDE DEF m, j
  <2>6. /\ DOMAIN dir' = (DOMAIN dir \ {e.name}) \cup {m} /\ dir'[m] = dir[e.name]
        /\ \A x : x # e.name /\ x # m => (x \in DOMAIN dir' <=> x \in DOMAIN dir)
                                    /\ (x \in DOMAIN dir => dir'[x] = dir[x])
    BY <1>1, <1>5, <2>1, <2>2, RenamedFiles
  <2>7. job'[w] = j /\ \A v \in Procs : v # w => job'[v] = job[v]
    BY <1>1, <2>4 DEF TypeOK
  <2>8. Held' = Held /\ Opened' = Opened /\ Settled
    BY <1>1, <1>5, KeptSettled
  <2>9. Calm
    <3>1. Moved(m)
      BY <2>1, <2>2, <2>6 DEF Moved, Same
    <3>2. \A n \in DOMAIN dir' : n # m => Moved(n)
      BY <2>6 DEF Moved, Same
    <3> QED BY <1>2, <2>8, <3>1, <3>2 DEF Calm
  <2>10. Tidy(job[w])'
    <3>1. Sure(j) \subseteq Sure(old)
      BY <1>1, <2>5 DEF Sure
    <3>2. ~j.purge /\ (j.pc = "cull" \/ (j.pc \in Aiming /\ ~Away(j.item))) => \A f \in j.found : ~Away(f)
      BY <1>1, <2>5 DEF Tidy, Aiming
    <3>3. j.item.name \notin DOMAIN dir'
      BY <2>3, <2>5, <2>6
    <3> QED BY <1>1, <2>0, <2>1, <2>3, <2>5, <2>7, <2>9, <3>1, <3>2, <3>3, TidyOn
  <2>11. \A v \in Procs : Tidy(job[v])'
    BY <2>7, <2>9, <2>10, TidyKept
  <2>12. Unique'
    <3>1. \A n \in DOMAIN dir' : n # m => n \in DOMAIN dir /\ n # e.name
      BY <2>3, <2>6
    <3>2. \A n \in DOMAIN dir' : n # m => ~Same(n, m)
      BY <2>1, <2>2, <3>1 DEF HInv, Unique, Same
    <3>3. \A n, k \in DOMAIN dir' : n # m /\ k # m /\ Same(n, k) => n = k
      BY <3>1 DEF HInv, Unique
    <3> QED BY <3>2, <3>3 DEF Unique, Same
  <2>13. Aloof'
    <3>1. \A n \in DOMAIN dir' : n = m \/ n \in DOMAIN dir
      BY <2>6
    <3>2. m.session \notin Held
      BY <2>0, <2>1 DEF Same
    <3> QED BY <2>1, <2>8, <3>1, <3>2 DEF HInv, Aloof
  <2>14. Hiding'
    <3>1. Unedited' => \A n \in DOMAIN dir' : n.digest # None => dir'[n] = n.digest
      BY <1>2, <2>0, <2>1, <2>6 DEF HInv, Hiding, Less
    <3>2. ASSUME Unfaulted', Uncrashed', NEW n \in DOMAIN dir', n.digest # None, n # m
          PROVE  \E v \in Procs : job'[v].aside = n
      <4>1. n \in DOMAIN dir
        BY <2>6, <3>2
      <4>2. PICK v \in Procs : job[v].aside = n
        BY <1>2, <3>2, <4>1 DEF HInv, Hiding, Less
      <4>3. old.aside = None
        BY <1>1 DEF JobShape
      <4>4. v # w
        BY <3>2, <4>1, <4>2, <4>3, HiddenNames
      <4> QED BY <2>7, <4>2, <4>4
    <3> QED BY <2>5, <2>7, <3>1, <3>2 DEF Hiding
  <2> QED BY <1>2, <2>11, <2>12, <2>13, <2>14 DEF HInv, Less
<1> QED BY <1>3, <1>4, <1>5 DEF Move

LEMMA PutBackHides ==
  ASSUME IInv, HInv, NEW w \in Procs, job[w].pc \in {"verify", "unlink"}, NEW cause, PutBack(w, cause),
         UNCHANGED <<dir, used>>, Less,
         Unfaulted' /\ (Away(job[w].item) \/ Unedited') => job[w].aside \notin DOMAIN dir
  PROVE  HInv'
<1> DEFINE old == job[w]
           j == [old EXCEPT !.pc = "restore", !.cause = cause]
<1>1. /\ TypeOK /\ old \in JobState /\ Tidy(old) /\ old.pc \in Aiming /\ old.pc \in Renaming
      /\ old.pc \notin {"scan", "judge"}
  BY DEF IInv, TypeOK, HInv, Aiming, Renaming
<1>2. job' = [job EXCEPT ![w] = j] /\ UNCHANGED proc
  BY <1>1 DEF PutBack, TypeOK
<1>3. /\ j.pc = "restore" /\ j.item = old.item /\ j.purge = old.purge
      /\ j.found = old.found /\ j.todo = old.todo /\ j.aside = old.aside
  BY <1>1 DEF JobState
<1> HIDE DEF j
<1>4. Sure(j) \subseteq Sure(old)
  BY <1>1, <1>3 DEF Sure
<1>5. /\ old.item \in old.found /\ Same(old.aside, old.item.name) /\ old.aside # old.item.name
      /\ ~old.purge /\ ~Away(old.item) => \A e \in old.found : ~Away(e)
  BY <1>1 DEF Tidy
<1> QED BY <1>1, <1>2, <1>3, <1>4, <1>5, LookHides

(* A changed or missing file is noticed only if somebody edits, or a step   *)
(* fails.                                                                   *)
LEMMA AsideHolds ==
  ASSUME IInv, HInv, NEW w \in Procs, job[w].pc \in Renaming, Away(job[w].item) \/ Unedited,
         job[w].aside \in DOMAIN dir
  PROVE  dir[job[w].aside] = job[w].item.file
<1>1. /\ JobAside(job[w]) /\ job[w].aside \in Quarantine /\ job[w].aside.digest = job[w].item.file
  BY ItemFacts DEF IInv, JobsOK, JobOK, Aiming, Renaming
<1>2. job[w].aside.digest # None
  BY <1>1, NamesAside
<1> QED BY <1>1, <1>2 DEF JobAside, HInv, Hiding, Present

LEMMA VerifyHides ==
  ASSUME IInv, HInv, NEW w \in Procs, Verify(w)
  PROVE  HInv'
<1> DEFINE old == job[w]
           j == [old EXCEPT !.pc = "unlink"]
<1>1. /\ old.pc = "verify" /\ old.pc \in Aiming /\ old.pc \in Renaming /\ UNCHANGED <<dir, used>>
      /\ TypeOK /\ old \in JobState /\ Tidy(old) /\ (Spend("faults") \/ UNCHANGED left)
  BY DEF Verify, Work, Aiming, Renaming, IInv, TypeOK, HInv
<1>2. Less /\ (Spend("faults") => ~Unfaulted')
  BY <1>1, Lessening DEF HInv
<1>3. CASE job' = [job EXCEPT ![w].pc = "unlink"] /\ UNCHANGED proc
  <2>1. job' = [job EXCEPT ![w] = j]
    BY <1>1, <1>3 DEF TypeOK
  <2>2. /\ j.pc = "unlink" /\ j.item = old.item /\ j.purge = old.purge
        /\ j.found = old.found /\ j.todo = old.todo /\ j.aside = old.aside
    BY <1>1 DEF JobState
  <2> HIDE DEF j
  <2>3. Sure(j) \subseteq Sure(old)
    BY <1>1, <2>2 DEF Sure
  <2>4. /\ old.item \in old.found /\ Same(old.aside, old.item.name) /\ old.aside # old.item.name
        /\ ~old.purge /\ ~Away(old.item) => \A e \in old.found : ~Away(e)
    BY <1>1 DEF Tidy
  <2>5. old.pc \notin {"scan", "judge"} /\ j.pc # "restore" /\ j.pc # "cull"
    BY <1>1, <2>2
  <2> HIDE DEF old
  <2>6. UNCHANGED <<dir, proc, used>> /\ j.aside = old.aside
    BY <1>1, <1>3, <2>2
  <2>7. ~j.purge /\ (j.pc = "cull" \/ (j.pc \in Aiming /\ ~Away(j.item))) => \A e \in j.found : ~Away(e)
    BY <2>2, <2>4, <2>5
  <2>8. ~j.purge /\ j.pc \notin {"scan", "judge"} =>
          \A e \in j.todo \ j.found : old.pc \notin {"scan", "judge"} /\ e \in old.todo \ old.found
    BY <2>2, <2>5
  <2>9. /\ j.found \cup j.todo \subseteq old.found \cup old.todo
        /\ j.pc \in Aiming => j.item \in j.found
        /\ j.pc \in Renaming => Same(j.aside, j.item.name) /\ j.aside # j.item.name
        /\ j.pc \in Renaming => old.pc \in Renaming /\ j.item = old.item
        /\ j.purge = old.purge
    BY <1>1, <2>2, <2>4
  <2> QED BY <1>2, <2>1, <2>3, <2>5, <2>6, <2>7, <2>8, <2>9, LookHides DEF old
<1>4. CASE /\ ~Holds(old.aside, old.item.file)
           /\ PutBack(w, IF Present(old.aside) THEN "changed" ELSE "gone")
  <2>1. Away(old.item) \/ Unedited => old.aside \notin DOMAIN dir
    BY <1>1, <1>4, AsideHolds DEF Holds, Present
  <2> QED BY <1>1, <1>2, <1>4, <2>1, PutBackHides DEF Less
<1>5. CASE Spend("faults") /\ PutBack(w, "failed")
  BY <1>1, <1>2, <1>5, PutBackHides
<1> QED BY <1>3, <1>4, <1>5 DEF Verify

(* The hidden file is unlinked, or put back.                                *)
LEMMA AsideSettles ==
  ASSUME IInv, HInv, NEW w \in Procs, NEW result, job[w].pc \in Renaming, Settle(w, result),
         used' = used, Less, job[w].aside \in DOMAIN dir,
         \A n \in DOMAIN dir' :
           \/ n # job[w].aside /\ n \in DOMAIN dir /\ dir'[n] = dir[n]
           \/ /\ n = job[w].item.name /\ n \notin DOMAIN dir /\ dir'[n] = dir[job[w].aside]
              /\ job[w].pc = "restore"
  PROVE  HInv'
<1> DEFINE old == job[w]
           e == old.item
           back == e.name
           aside == old.aside
<1>1. /\ old.pc \in Aiming /\ TypeOK /\ JobShape(w, old) /\ Tidy(old) /\ JobSpares(old)
      /\ Same(aside, back) /\ aside # back /\ aside \in Quarantine /\ aside.digest = e.file
      /\ ~Away(e) => back.session \notin Held
      /\ Away(e) => e.file = back.digest
  BY ItemFacts DEF IInv, JobsOK, JobOK, HInv, Tidy, Aiming, Renaming
<1>2. aside.digest # None /\ aside # None
  BY <1>1, NamesAside, NoneAssumption
<1>3. /\ \A v \in Procs : v # w => job'[v] = job[v]
      /\ Held' = Held /\ Opened' = Opened /\ Settled
  BY <1>1, SettledHides
<1>4. aside.session \notin Held /\ back.session \notin Held /\ back.session \notin Opened
  BY <1>1, <1>2, OpenedAreHeld DEF HInv, Aloof, Same
<1>5. Away(e) => dir[aside] = back.digest
  BY <1>1, AsideHolds
<1>6. old.pc = "restore" => ~Unfaulted' \/ (back.digest = None /\ ~Unedited')
  BY <1>1 DEF Tidy, Less, Present, Away
<1> HIDE DEF back, aside
<1>7. \A n \in DOMAIN dir' :
        \/ n # aside /\ n \in DOMAIN dir /\ dir'[n] = dir[n]
        \/ n = back /\ n \notin DOMAIN dir /\ dir'[n] = dir[aside] /\ old.pc = "restore"
  BY DEF back, aside
<1>8. aside \in DOMAIN dir
  BY DEF aside
<1>9. Calm
  <2>1. ASSUME NEW n \in DOMAIN dir' PROVE Moved(n)
    <3>1. CASE n \in DOMAIN dir /\ dir'[n] = dir[n]
      BY <3>1 DEF Moved, Same
    <3>2. CASE n = back /\ dir'[n] = dir[aside] /\ old.pc = "restore"
      BY <1>1, <1>6, <1>8, <3>2 DEF Moved
    <3> QED BY <1>7, <2>1, <3>1, <3>2
  <2> QED BY <1>3, <2>1 DEF Calm
<1>10. Unfaulted' /\ Unedited' => back \notin DOMAIN dir'
  <2>1. Unfaulted' /\ Unedited' => back \notin DOMAIN dir
    BY <1>1, <1>8 DEF HInv, Unique
  <2> QED BY <1>6, <1>7, <2>1
<1>11. Tidy(job[w])'
  BY <1>1, <1>9, <1>10, SettleTidy DEF back
<1>12. \A v \in Procs : Tidy(job[v])'
  BY <1>3, <1>9, <1>11, TidyKept
<1>13. Unique'
  <2>1. \A k \in DOMAIN dir : Same(k, back) => k = aside
    BY <1>1, <1>8 DEF HInv, Unique, Same
  <2>2. ASSUME NEW n \in DOMAIN dir', NEW k \in DOMAIN dir', Same(n, k) PROVE n = k
    BY <1>7, <2>1, <2>2 DEF HInv, Unique, Same
  <2> QED BY <2>2 DEF Unique, Same
<1>14. Aloof'
  BY <1>3, <1>4, <1>7 DEF HInv, Aloof
<1>15. Hiding'
  <2>1. ASSUME Unedited', NEW n \in DOMAIN dir', n.digest # None PROVE dir'[n] = n.digest
    <3>1. CASE n \in DOMAIN dir /\ dir'[n] = dir[n]
      BY <2>1, <3>1 DEF HInv, Hiding, Less
    <3>2. CASE n = back /\ dir'[n] = dir[aside]
      BY <1>5, <2>1, <3>2 DEF Away, back
    <3> QED BY <1>7, <2>1, <3>1, <3>2
  <2>2. ASSUME Unfaulted', Uncrashed', NEW n \in DOMAIN dir', n.digest # None
        PROVE  \E v \in Procs : job'[v].aside = n
    <3>1. n # aside /\ n \in DOMAIN dir
      BY <1>6, <1>7, <2>2
    <3>2. PICK v \in Procs : job[v].aside = n
      BY <2>2, <3>1 DEF HInv, Hiding, Less
    <3>3. v # w
      BY <3>1, <3>2 DEF aside
    <3> QED BY <1>3, <3>2, <3>3
  <2> QED BY <2>1, <2>2 DEF Hiding
<1> QED BY <1>12, <1>13, <1>14, <1>15 DEF HInv, Less

LEMMA UnlinkHides ==
  ASSUME IInv, HInv, NEW w \in Procs, Unlink(w)
  PROVE  HInv'
<1> DEFINE aside == job[w].aside
<1>1. /\ job[w].pc = "unlink" /\ job[w].pc \in Renaming /\ UNCHANGED used /\ TypeOK
      /\ (Spend("faults") \/ UNCHANGED left)
  BY DEF Unlink, Work, Renaming, IInv
<1>2. Less /\ (Spend("faults") => ~Unfaulted')
  BY <1>1, Lessening DEF HInv
<1>3. CASE Present(aside) /\ dir' = Without(aside) /\ Settle(w, "removed")
  <2>1. \A n \in DOMAIN dir' : n # aside /\ n \in DOMAIN dir /\ dir'[n] = dir[n]
    BY <1>3 DEF Without
  <2> QED BY <1>1, <1>2, <1>3, <2>1, AsideSettles DEF Present
<1>4. CASE ~Present(aside) /\ PutBack(w, "gone") /\ UNCHANGED dir
  BY <1>1, <1>2, <1>4, PutBackHides DEF Present
<1>5. CASE Spend("faults") /\ PutBack(w, "failed") /\ UNCHANGED dir
  BY <1>1, <1>2, <1>5, PutBackHides
<1> QED BY <1>3, <1>4, <1>5 DEF Unlink

LEMMA RestoreHides ==
  ASSUME IInv, HInv, NEW w \in Procs, Restore(w)
  PROVE  HInv'
<1> DEFINE old == job[w]
           back == old.item.name
           aside == old.aside
<1>1. /\ old.pc = "restore" /\ old.pc \in Renaming /\ old.pc \in Aiming /\ UNCHANGED used /\ TypeOK
      /\ Tidy(old) /\ (Spend("faults") \/ UNCHANGED left)
  BY DEF Restore, Work, Renaming, Aiming, IInv, HInv
<1>2. Less /\ (Spend("faults") => ~Unfaulted')
  BY <1>1, Lessening DEF HInv
<1>3. Same(aside, back) /\ aside # back /\ (Unfaulted /\ Unedited => back \notin DOMAIN dir)
  BY <1>1 DEF Tidy, Present
<1>4. CASE PutsBack(w) /\ dir' = Renamed(aside, back) /\ Settle(w, old.cause)
  <2>1. aside \in DOMAIN dir /\ back \notin DOMAIN dir
    BY <1>4 DEF PutsBack, Present
  <2>2. dir' = Renamed(aside, back)
    BY <1>4
  <2> HIDE DEF aside, back
  <2>3. \A n \in DOMAIN dir' : \/ n # aside /\ n \in DOMAIN dir /\ dir'[n] = dir[n]
                               \/ n = back /\ n \notin DOMAIN dir /\ dir'[n] = dir[aside]
    BY <1>3, <2>1, <2>2 DEF Renamed
  <2> QED BY <1>1, <1>2, <1>4, <2>1, <2>3, AsideSettles DEF aside, back
<1>5. ASSUME NEW result, ~PutsBack(w), Settle(w, result), UNCHANGED dir PROVE HInv'
  <2>1. aside \notin DOMAIN dir
    BY <1>3, <1>5 DEF PutsBack, Present, HInv, Unique
  <2> QED BY <1>1, <1>2, <1>3, <1>5, <2>1, SettleHides DEF Less
<1>6. CASE Spend("faults") /\ Settle(w, old.cause) /\ UNCHANGED dir
  BY <1>1, <1>2, <1>6, SettleHides
<1> QED BY <1>4, <1>5, <1>6 DEF Restore

LEMMA InitHInv == Init => HInv
<1> SUFFICES ASSUME Init PROVE HInv
  OBVIOUS
<1>1. DOMAIN dir = {} /\ \A w \in Procs : job[w] = NoJob
  BY DEF Init
<1>2. Bounded
  BY RetentionAssumption DEF Init, Bounded
<1>3. /\ NoJob.pc = "none" /\ NoJob.found = {} /\ NoJob.todo = {} /\ NoJob.over = {}
      /\ NoJob.item = None /\ NoJob.aside = None /\ ~NoJob.purge
  BY DEF NoJob
<1>4. \A w \in Procs : Tidy(job[w])
  BY <1>1, <1>3 DEF Tidy, Aiming, Renaming, Sure
<1> QED BY <1>1, <1>2, <1>4 DEF HInv, Unique, Aloof, Hiding

LEMMA StepHInv == IInv /\ IInv' /\ HInv /\ [Next]_vars => HInv'
<1> SUFFICES ASSUME IInv, IInv', HInv, [Next]_vars PROVE HInv'
  OBVIOUS
<1>1. ASSUME NEW w \in Procs, Session(w) PROVE HInv'
  BY <1>1, ReserveHides, ClaimHides, CreateHides, WriteHides, AbortHides, PublishHides, PruneHides,
     UnlockHides, SyncHides DEF Session
<1>2. ASSUME NEW w \in Procs, Job(w) PROVE HInv'
  BY <1>2, ScanHides, JudgeHides, ChooseHides, PurgeHides, MoveHides, VerifyHides, UnlinkHides,
     RestoreHides DEF Job, UnlinkIfSame
<1>3. ASSUME NEW w \in Procs, Launch(w) \/ Crash(w) PROVE HInv'
  BY <1>3, RestartHides
<1> QED BY <1>1, <1>2, <1>3, EditHides, TickHides DEF Next

-----------------------------------------------------------------------------
(* A success is only reported when nothing was left to delete. *)

LEMMA PassEnds ==
  ASSUME IInv, Next, NEW w \in Procs, "retention" \in proc'[w].done \ proc[w].done
  PROVE  Cull(w) /\ Victims(w) = {}
<1>1. TypeOK
  BY DEF IInv
<1>2. proc \in [Procs -> ProcState] /\ proc[w].done \subseteq {"retention", "unlock"}
  BY <1>1 DEF TypeOK, ProcState
<1>3. ASSUME NEW p, NEW v \in Procs, proc' = [proc EXCEPT ![v] = p],
             p.done \subseteq proc[v].done \cup {"unlock"}
      PROVE  FALSE
  <2>1. CASE v = w
    BY <1>2, <1>3, <2>1
  <2>2. CASE v # w
    BY <1>2, <1>3, <2>2
  <2> QED BY <2>1, <2>2
<1>4. proc' # proc
  OBVIOUS
<1>5. ASSUME NEW v \in Procs, NEW stage, Enter(v, stage) PROVE FALSE
  <2> DEFINE p == [proc[v] EXCEPT !.stage = stage]
  <2>1. proc' = [proc EXCEPT ![v] = p] /\ p.done = proc[v].done
    BY <1>2, <1>5 DEF Enter, ProcState
  <2> QED BY <1>3, <2>1
<1>6. ASSUME NEW v \in Procs, NEW kind, NEW stage, Drop(v, kind, stage) PROVE FALSE
  <2> DEFINE p == [proc[v] EXCEPT !.stage = stage, !.session = IF stage = "none" THEN None ELSE @]
  <2>1. proc' = [proc EXCEPT ![v] = p] /\ p.done = proc[v].done
    BY <1>2, <1>6 DEF Drop, ProcState
  <2> HIDE DEF p
  <2> QED BY <1>3, <2>1
<1>7. ASSUME NEW v \in Procs, EndPass(v, FALSE) PROVE FALSE
  <2> DEFINE p == [proc[v] EXCEPT !.stage = "pruned", !.done = @]
  <2>1. proc' = [proc EXCEPT ![v] = p] /\ p.done = proc[v].done
    BY <1>2, <1>7 DEF EndPass, ProcState
  <2> HIDE DEF p
  <2> QED BY <1>3, <2>1
<1>8. ASSUME NEW v \in Procs, NEW result, Settle(v, result) PROVE FALSE
  BY <1>4, <1>7, <1>8 DEF Settle
<1>9. ASSUME NEW v \in Procs, GiveUp(v) PROVE FALSE
  BY <1>4, <1>7, <1>9 DEF GiveUp, EndPurge
<1>10. ASSUME NEW v \in Procs, Launch(v) \/ Crash(v) PROVE FALSE
  <2>1. NoProc = [NoProc EXCEPT !.pid = None]
    BY DEF NoProc
  <2>2. PICK pid : proc' = [proc EXCEPT ![v] = [NoProc EXCEPT !.pid = pid]]
    BY <1>10, <2>1 DEF Launch, Crash
  <2>3. [NoProc EXCEPT !.pid = pid].done = {}
    BY DEF NoProc
  <2> QED BY <1>3, <2>2, <2>3
<1>11. ASSUME NEW v \in Procs, \E s \in Sessions : Reserve(v, s) PROVE FALSE
  <2>1. PICK s \in Sessions : Reserve(v, s)
    BY <1>11
  <2> DEFINE p == [proc[v] EXCEPT !.stage = "reserved", !.session = s, !.done = {}]
  <2>2. proc' = [proc EXCEPT ![v] = p] /\ p.done = {}
    BY <1>2, <2>1 DEF Reserve, ProcState
  <2> HIDE DEF p
  <2> QED BY <1>3, <2>2
<1>12. ASSUME NEW v \in Procs, Unlock(v) PROVE FALSE
  <2> DEFINE p == [proc[v] EXCEPT !.stage = "unlocked", !.done = @ \cup {"unlock"}]
  <2>1. p.done = proc[v].done \cup {"unlock"}
    BY <1>2 DEF ProcState
  <2>2. proc' = [proc EXCEPT ![v] = p] \/ Enter(v, "published")
    BY <1>2, <1>12 DEF Unlock
  <2> HIDE DEF p
  <2> QED BY <1>3, <1>5, <2>1, <2>2
<1>13. ASSUME NEW v \in Procs, Sync(v) PROVE FALSE
  <2> DEFINE p == [proc[v] EXCEPT !.stage = "none", !.session = None, !.done = {}]
  <2>1. p.done = {}
    BY <1>2 DEF ProcState
  <2>2. proc' = [proc EXCEPT ![v] = p] \/ Enter(v, "published")
    BY <1>2, <1>13 DEF Sync
  <2> HIDE DEF p
  <2> QED BY <1>3, <1>5, <2>1, <2>2
<1>14. ASSUME NEW v \in Procs, Session(v) PROVE FALSE
  BY <1>4, <1>5, <1>6, <1>11, <1>12, <1>13, <1>14 DEF Session, Claim, Create, Write, Abort, Publish, Prune
<1>15. ASSUME NEW v \in Procs, Cull(v) PROVE v = w /\ Victims(w) = {}
  <2>1. EndPass(v, TRUE) /\ Victims(v) = {}
    BY <1>4, <1>7, <1>15 DEF Cull, Target
  <2>2. v # w => proc'[w] = proc[w]
    BY <1>2, <2>1 DEF EndPass
  <2> QED BY <2>1, <2>2
<1>16. ASSUME NEW v \in Procs, UnlinkIfSame(v) PROVE FALSE
  BY <1>4, <1>8, <1>16 DEF UnlinkIfSame, Move, Verify, Unlink, Restore, PutBack
<1>17. ASSUME NEW v \in Procs, Job(v), ~Cull(v) PROVE FALSE
  BY <1>4, <1>7, <1>9, <1>16, <1>17 DEF Job, Scan, JudgeRetention, JudgePurge, RejudgePurge, Recover,
     Purge, PurgeNext, EndPurge, Target
<1>18. PICK v \in Procs : Job(v) /\ Cull(v)
  BY <1>4, <1>10, <1>14, <1>17 DEF Next, Edit, Tick
<1> QED BY <1>15, <1>18

LEMMA LeastOf ==
  ASSUME NEW S, S \subseteq Nat, S # {}
  PROVE  \E x \in S : \A y \in S : x <= y
<1> DEFINE Below == {ss \in Nat \X Nat : ss[1] < ss[2]}
<1>1. IsWellFoundedOn(Below, Nat)
  BY NatLessThanWellFounded DEF OpToRel
<1>2. PICK x \in S : \A y \in S : <<y, x>> \notin Below
  <2> HIDE DEF Below
  <2> QED BY <1>1, WFMin
<1>3. ASSUME NEW y \in S PROVE x <= y
  <2>1. y \in Nat /\ x \in Nat /\ <<y, x>> \notin Below
    BY <1>2
  <2>2. y < x => <<y, x>> \in Below
    BY <2>1
  <2> HIDE DEF Below
  <2> QED BY <2>1, <2>2
<1> QED BY <1>3

LEMMA OldestIn ==
  ASSUME NEW E, E \subseteq Entry, E # {}
  PROVE  Oldest(E) # {}
<1>1. \A e \in E : e.file.mtime \in Nat /\ e.name.session \in Nat
  BY RetentionAssumption DEF Entry, File, Name, Quarantine
<1> DEFINE T == {e.file.mtime : e \in E}
<1>2. PICK t \in T : \A u \in T : t <= u
  <2>1. T \subseteq Nat /\ T # {}
    BY <1>1
  <2> HIDE DEF T
  <2> QED BY <2>1, LeastOf
<1> DEFINE F == {e \in E : e.file.mtime = t}
           S == {e.name.session : e \in F}
<1>3. PICK s \in S : \A r \in S : s <= r
  <2>1. S \subseteq Nat /\ S # {}
    BY <1>1, <1>2
  <2> HIDE DEF S
  <2> QED BY <2>1, LeastOf
<1>4. PICK e \in F : e.name.session = s
  BY <1>3
<1>5. ASSUME NEW f \in E PROVE Before(e, f)
  <2>1. e.file.mtime = t /\ t <= f.file.mtime /\ t \in Nat /\ f.file.mtime \in Nat
    BY <1>1, <1>2, <1>4
  <2>2. CASE f.file.mtime = t
    <3>1. s <= f.name.session
      BY <1>3, <2>2
    <3> QED BY <1>4, <2>1, <2>2, <3>1 DEF Before
  <2>3. CASE f.file.mtime # t
    BY <2>1, <2>3 DEF Before
  <2> QED BY <2>2, <2>3
<1> QED BY <1>4, <1>5 DEF Oldest

-----------------------------------------------------------------------------
(* Whatever processes do, no two names hold the same file, and what a job   *)
(* takes for there or gone is so until an edit or a failure.                *)
THEOREM FilesAreAccounted == Spec => []HInv
BY InitHInv, StepHInv, Consistent, PTL DEF Spec

(* unlink_if_same leaves no file under its quarantine name for good: it has *)
(* an owner who is about to unlink it or put it back, or a process died or  *)
(* a call failed, and then it holds what its name says, so that the next    *)
(* inventory lists it, unless somebody had changed the file.                *)
THEOREM HiddenAreOwned == Spec => []NothingStaysHidden
<1>1. ASSUME IInv, HInv PROVE NothingStaysHidden
  <2> SUFFICES ASSUME NEW n \in DOMAIN dir, n.digest # None, \A w \in Procs : job[w].aside # n
               PROVE  /\ left.crashes < MaxCrashes \/ left.faults < MaxFaults
                      /\ dir[n] = n.digest \/ left.edits < MaxEdits
    BY DEF NothingStaysHidden
  <2>1. /\ left.edits \in Nat /\ left.faults \in Nat /\ left.crashes \in Nat
        /\ left.edits <= MaxEdits /\ left.faults <= MaxFaults /\ left.crashes <= MaxCrashes
        /\ MaxEdits \in Nat /\ MaxFaults \in Nat /\ MaxCrashes \in Nat
    BY <1>1, RetentionAssumption DEF IInv, TypeOK, HInv, Bounded
  <2>2. (Unedited => dir[n] = n.digest) /\ ~(Unfaulted /\ Uncrashed)
    BY <1>1 DEF HInv, Hiding
  <2> QED BY <2>1, <2>2 DEF Unedited, Unfaulted, Uncrashed
<1> QED BY <1>1, Consistent, FilesAreAccounted, PTL

(* A retention pass that says it is over has converged, without an edit or  *)
(* a failure: of the logs it listed and that are still as it listed them,   *)
(* none is left over from an interrupted deletion, none is expired, and     *)
(* there are no more than max_sessions, but for those it must not delete.   *)
THEOREM PassesConverge == Spec => RetentionConverges
<1>1. ASSUME IInv, HInv, [Next]_vars, NEW w \in Procs, "retention" \in proc'[w].done \ proc[w].done,
             left.faults = MaxFaults, left.edits = MaxEdits
      PROVE  LET kept == {e \in job[w].todo : Holds(e.name, e.file)}
                 free == {e \in kept : e.name # Own(w) /\ e.name.session \notin job[w].guarded}
             IN  /\ \A e \in kept : ~Away(e)
                 /\ \A e \in free : e.file.mtime >= job[w].cutoff
                 /\ Cardinality(kept) <= KeepSessions \/ free = {}
  <2> DEFINE j == job[w]
             kept == {e \in j.todo : Holds(e.name, e.file)}
             free == {e \in kept : e.name # Own(w) /\ e.name.session \notin j.guarded}
  <2>1. Cull(w) /\ Victims(w) = {}
    <3>1. Next
      BY <1>1 DEF vars
    <3> QED BY <1>1, <3>1, PassEnds
  <2>2. /\ JobShape(w, j) /\ Tidy(j) /\ j.pc = "cull" /\ Unfaulted /\ Unedited
        /\ j.found \subseteq Entry /\ j.cutoff \in Nat
    BY <1>1, <2>1, JobEntries DEF IInv, JobsOK, JobOK, HInv, Cull, Work, Unfaulted, Unedited
  <2>3. ~j.purge /\ IsFiniteSet(j.found) /\ \A e \in j.found : ~Away(e)
    BY <2>2 DEF JobShape, Tidy
  <2>4. kept \subseteq j.found
    BY <2>2, <2>3 DEF Tidy, Holds
  <2>5. Expired(w) = {} /\ Surplus(w) = {}
    <3>1. Expired(w) \subseteq Entry /\ Surplus(w) \subseteq Entry
      BY <2>2 DEF Expired, Surplus, Expendable
    <3>2. Expired(w) = {}
      BY <2>1, <3>1, OldestIn DEF Victims
    <3> QED BY <2>1, <3>1, <3>2, OldestIn DEF Victims
  <2>6. free \subseteq Expendable(w)
    BY <2>4 DEF Expendable
  <2>7. ASSUME NEW e \in free PROVE e.file.mtime >= j.cutoff
    <3>1. ~(e.file.mtime < j.cutoff) /\ e \in j.found
      BY <2>4, <2>5, <2>6 DEF Expired
    <3>2. e.file.mtime \in Nat
      BY <2>2, <3>1 DEF Entry, File
    <3> QED BY <2>2, <3>1, <3>2
  <2>8. Cardinality(kept) <= Cardinality(j.found) /\ Cardinality(kept) \in Nat /\ Cardinality(j.found) \in Nat
    <3> HIDE DEF kept
    <3> QED BY <2>3, <2>4, FS_Subset, FS_CardinalityType
  <2>9. Cardinality(kept) <= KeepSessions \/ free = {}
    <3>1. Cardinality(j.found) <= KeepSessions \/ free = {}
      BY <2>5, <2>6, <2>8, RetentionAssumption DEF Surplus
    <3> HIDE DEF kept, free
    <3> QED BY <2>8, <3>1, RetentionAssumption
  <2> QED BY <2>3, <2>4, <2>7, <2>9
<1> DEFINE Converges == \A w \in Procs :
       "retention" \in proc'[w].done \ proc[w].done
         /\ left.faults = MaxFaults /\ left.edits = MaxEdits =>
       LET kept == {e \in job[w].todo : Holds(e.name, e.file)}
           free == {e \in kept : e.name # Own(w) /\ e.name.session \notin job[w].guarded}
       IN  /\ \A e \in kept : ~Away(e)
           /\ \A e \in free : e.file.mtime >= job[w].cutoff
           /\ Cardinality(kept) <= KeepSessions \/ free = {}
<1>2. IInv /\ HInv /\ [Next]_vars => [Converges]_vars
  BY <1>1
<1> QED BY <1>2, Consistent, FilesAreAccounted, PTL DEF Spec, RetentionConverges
=============================================================================
