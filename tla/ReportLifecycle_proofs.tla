----------------------- MODULE ReportLifecycle_proofs -----------------------
(***************************************************************************)
(* For every number of jobs and publications and every set of paths the    *)
(* executable may have: LiveGroupIsTheJob, CodexSendsTheShownPreview and    *)
(* SuggestionsFitConsent.                                                   *)
(*                                                                         *)
(* All three rest on the generations.  A process or a prompt that is left   *)
(* over has an older generation than the report (Generations), a process    *)
(* of the current generation is the job itself and every other one is dead  *)
(* (Runner); what a prompt was about is still what the preview shows and    *)
(* the report resolved (Asked), and what a process of the current           *)
(* generation was started with was shown and confirmed (Sent).              *)
(***************************************************************************)
EXTENDS ReportLifecycle, TLAPS

Unfinished == \A p \in procs : ~p.finished

Generations ==
  /\ rep.job # None => rep.job.generation = rep.generation
  /\ \A a \in asks : a.generation <= rep.generation
  /\ \A p \in procs : p.job.generation <= rep.generation

Runner ==
  /\ \A p, q \in procs : p.job = q.job => p = q
  /\ \A p \in procs : IF Current(p.job) THEN p.job = rep.job ELSE ~Alive(p)
  /\ quit => rep.job = None
  /\ rep.phase = "awaiting_confirmation" => rep.job = None

Asked ==
  \A a \in asks : Current(a) =>
    /\ rep.job # None => rep.job.kind # "preview"
    /\ rep.phase = "awaiting_confirmation" =>
         /\ preview = [generation |-> rep.generation, payload |-> a.payload]
         /\ rep.binary = a.binary

Sent ==
  \A p \in procs : Current(p.job) =>
    /\ p.job.kind \in {"codex", "suggestions"} =>
         preview = [generation |-> rep.generation, payload |-> p.payload]
    /\ p.job.kind = "codex" =>
         [generation |-> rep.generation, payload |-> p.payload, binary |-> p.binary] \in consent
    /\ p.job.kind = "suggestions" =>
         /\ p.data = p.payload
         /\ \E c \in consent : c.generation = rep.generation /\ c.payload = p.payload

IInv == TypeOK /\ Unfinished /\ Generations /\ Runner /\ Asked /\ Sent

-----------------------------------------------------------------------------
(* Processes. *)

LEMMA ProcessType ==
  ASSUME NEW g \in 0 .. MaxGenerations, NEW kind \in Kinds, NEW v \in Versions,
         NEW d \in Versions, NEW b \in Binaries \cup {None}
  PROVE  /\ Process(g, kind, v, d, b) \in Procs
         /\ Process(g, kind, v, d, b).job = [generation |-> g, kind |-> kind]
         /\ Process(g, kind, v, d, b).payload = v
         /\ Process(g, kind, v, d, b).data = d
         /\ Process(g, kind, v, d, b).binary = b
         /\ ~Process(g, kind, v, d, b).finished
BY DEF Process, Procs, Jobs

LEMMA KilledType ==
  ASSUME NEW p \in Procs
  PROVE  /\ Killed(p) \in Procs
         /\ ~Alive(Killed(p))
         /\ Killed(p).job = p.job /\ Killed(p).payload = p.payload
         /\ Killed(p).binary = p.binary /\ Killed(p).data = p.data
         /\ Killed(p).finished = p.finished
BY DEF Killed, Procs, Alive, Running

LEMMA NoJob ==
  ASSUME NEW p \in Procs
  PROVE  p.job # None /\ p.job.generation \in 0 .. MaxGenerations /\ p.job.kind \in Kinds
BY ReportAssumption DEF Procs, Jobs

(* A process called back is killed: it stays with nobody. *)
LEMMA CompletedIsDead ==
  ASSUME NEW p \in Procs
  PROVE  ~Alive(Complete(p))
BY DEF Complete, Killed, Procs, Alive, Running

LEMMA ContinueProcs ==
  ASSUME TypeOK, NEW done \in SUBSET procs, NEW new, Continue(done, new)
  PROVE  procs' = (procs \ done) \cup new
<1>1. {p \in {Complete(q) : q \in done} : Alive(p)} = {}
  BY CompletedIsDead DEF TypeOK
<1> QED BY <1>1 DEF Continue

-----------------------------------------------------------------------------
LEMMA InitIInv == Init => IInv
<1> SUFFICES ASSUME Init PROVE IInv
  OBVIOUS
<1>1. 0 \in 0 .. MaxGenerations /\ 0 \in Versions /\ 1 \in Versions
  BY ReportAssumption DEF Versions
<1>2. preview \in Shown /\ suggested \in Shown
  BY <1>1 DEF Init, Shown
<1>3. TypeOK
  BY <1>1, <1>2 DEF Init, TypeOK, Reports
<1> QED BY <1>3, ReportAssumption DEF Init, IInv, Unfinished, Generations, Runner, Asked, Sent

(* One process takes a step. *)
LEMMA ProcessSteps ==
  ASSUME IInv, NEW p \in procs, NEW q \in Procs, Change(p, q),
         q.job = p.job, q.payload = p.payload, q.binary = p.binary, ~q.finished,
         p.job.kind = "suggestions" => q.data = p.data,
         Alive(q) => Alive(p),
         outputs' \in Versions,
         UNCHANGED <<rep, asks, preview, consent, suggested, quit>>
  PROVE  IInv'
<1> USE DEF IInv
<1>1. procs' = (procs \ {p}) \cup {q}
  BY DEF Change
<1>2. TypeOK'
  BY <1>1 DEF TypeOK
<1>3. Unfinished' /\ Generations'
  BY <1>1 DEF Unfinished, Generations
<1>4. Runner'
  BY <1>1 DEF Runner, Current
<1>5. Asked'
  BY DEF Asked, Current
<1>6. Sent'
  BY <1>1 DEF Sent, Current
<1> QED BY <1>2, <1>3, <1>4, <1>5, <1>6

(* A job ends, or something is found to be stale. *)
LEMMA JobEnds ==
  ASSUME IInv, TypeOK', procs' \subseteq procs, asks' \subseteq asks, consent' = consent,
         rep'.generation = rep.generation, quit' = quit,
         \/ rep'.job = rep.job
         \/ rep'.job = None /\ \A p \in procs' : ~Current(p.job),
         \/ rep'.phase = rep.phase /\ rep'.binary = rep.binary /\ preview' = preview
         \/ rep'.phase # "awaiting_confirmation" /\ preview' = preview
         \/ rep'.phase # "awaiting_confirmation" /\ \A p \in procs' : ~Current(p.job)
  PROVE  IInv'
<1> USE DEF IInv
<1>1. Unfinished' /\ Generations'
  BY DEF Unfinished, Generations
<1>2. Runner'
  BY DEF Runner, Current
<1>3. Asked'
  BY DEF Asked, Current
<1>4. Sent'
  BY DEF Sent, Current
<1> QED BY <1>1, <1>2, <1>3, <1>4

(* The job of the generation goes on with another process. *)
LEMMA JobGoesOn ==
  ASSUME IInv, TypeOK', NEW old \in SUBSET procs, \A p \in old : ~Current(p.job),
         NEW kind \in {"codex", "suggestions"}, NEW v \in Versions, NEW b \in Binaries \cup {None},
         procs' = old \cup {Process(rep.generation, kind, v, v, b)},
         asks' \subseteq asks, consent \subseteq consent', ~quit, quit' = quit,
         rep'.generation = rep.generation, rep'.phase # "awaiting_confirmation",
         rep'.job = [generation |-> rep.generation, kind |-> kind],
         preview' = [generation |-> rep.generation, payload |-> v],
         IF kind = "codex"
           THEN [generation |-> rep.generation, payload |-> v, binary |-> b] \in consent'
           ELSE \E c \in consent : c.generation = rep.generation /\ c.payload = v
  PROVE  IInv'
<1> USE DEF IInv
<1> DEFINE n == Process(rep.generation, kind, v, v, b)
<1>1. /\ n.job = [generation |-> rep.generation, kind |-> kind]
      /\ n.payload = v /\ n.data = v /\ n.binary = b /\ ~n.finished
  <2>1. rep.generation \in 0 .. MaxGenerations /\ kind \in Kinds
    BY DEF TypeOK, Reports, Kinds
  <2> QED BY <2>1, ProcessType
<1> HIDE DEF n
<1>2. procs' = old \cup {n}
  BY DEF n
<1>3. Unfinished'
  BY <1>1, <1>2 DEF Unfinished
<1>4. Generations'
  BY <1>1, <1>2 DEF Generations, TypeOK, Reports
<1>5. Runner'
  BY <1>1, <1>2 DEF Runner, Current
<1>6. Asked'
  BY DEF Asked, Current
<1>7. Sent'
  BY <1>1, <1>2 DEF Sent, Current
<1> QED BY <1>3, <1>4, <1>5, <1>6, <1>7

-----------------------------------------------------------------------------
(* The actions. *)

LEMMA WorkStep ==
  ASSUME IInv, NEW p \in procs, Work(p)
  PROVE  IInv'
<1> DEFINE Done(d) == [p EXCEPT !.leader = "done", !.data = d]
<1>1. p \in Procs /\ ~p.finished
  BY DEF IInv, TypeOK, Unfinished
<1>2. CASE p.job.kind = "report" \/ p.job.kind = "suggestions"
  <2>1. PICK l \in {"done", "failed"} : Change(p, [p EXCEPT !.leader = l])
    <3>1. CASE p.job.kind = "report"
      BY <3>1 DEF Work
    <3>2. CASE p.job.kind = "suggestions" /\ p.data = outputs
      BY <3>2 DEF Work
    <3>3. CASE p.job.kind = "suggestions" /\ p.data # outputs
      BY <3>3 DEF Work
    <3> QED BY <1>2, <3>1, <3>2, <3>3
  <2> DEFINE q == [p EXCEPT !.leader = l]
  <2>2. /\ q \in Procs /\ q.job = p.job /\ q.payload = p.payload /\ q.binary = p.binary
        /\ ~q.finished /\ q.data = p.data /\ Alive(p)
    BY <1>1 DEF Procs, Alive, Running, Work
  <2>3. outputs' \in Versions /\ UNCHANGED <<rep, asks, preview, consent, suggested, quit>>
    <3>1. outputs \in 0 .. MaxVersions /\ MaxVersions \in Nat
      BY ReportAssumption DEF IInv, TypeOK, Versions
    <3>2. outputs' = outputs \/ (outputs < MaxVersions /\ outputs' = outputs + 1)
      BY <1>2 DEF Work
    <3>3. outputs' \in Versions
      BY <3>1, <3>2 DEF Versions
    <3> QED BY <3>3 DEF Work
  <2> HIDE DEF q
  <2> QED BY <2>1, <2>2, <2>3, ProcessSteps DEF q
<1>3. CASE p.job.kind = "preview" \/ p.job.kind = "codex"
  <2>1. PICK d \in Versions : Change(p, Done(d))
    BY <1>3 DEF Work, IInv, TypeOK
  <2> DEFINE q == Done(d)
  <2>2. /\ q \in Procs /\ q.job = p.job /\ q.payload = p.payload /\ q.binary = p.binary
        /\ ~q.finished /\ Alive(p)
    BY <1>1 DEF Procs, Alive, Running, Work
  <2>3. outputs' \in Versions /\ UNCHANGED <<rep, asks, preview, consent, suggested, quit>>
    BY <1>3 DEF Work, IInv, TypeOK
  <2> HIDE DEF q
  <2> QED BY <1>3, <2>1, <2>2, <2>3, ProcessSteps DEF q
<1> QED BY <1>2, <1>3 DEF Work

LEMMA OtherSteps ==
  ASSUME IInv, NEW p \in procs, OtherStep(p)
  PROVE  IInv'
<1>1. p \in Procs /\ ~p.finished /\ Alive(p)
  BY DEF IInv, TypeOK, Unfinished, OtherStep, Alive
<1>2. PICK s \in {"none", "piping", "quiet"} : Change(p, [p EXCEPT !.other = s])
  BY DEF OtherStep
<1> DEFINE q == [p EXCEPT !.other = s]
<1>3. /\ q \in Procs /\ q.job = p.job /\ q.payload = p.payload /\ q.binary = p.binary
      /\ ~q.finished /\ q.data = p.data
  BY <1>1 DEF Procs
<1>4. outputs' \in Versions /\ UNCHANGED <<rep, asks, preview, consent, suggested, quit>>
  BY DEF OtherStep, IInv, TypeOK, seen
<1> HIDE DEF q
<1> QED BY <1>1, <1>2, <1>3, <1>4, ProcessSteps DEF q

LEMMA LeaderExitStep ==
  ASSUME IInv, NEW p \in procs, LeaderExits(p)
  PROVE  IInv'
<1>1. p \in Procs /\ ~p.finished /\ Alive(p)
  BY DEF IInv, TypeOK, Unfinished, LeaderExits, Alive
<1>2. PICK code \in {"ok", "failed"} : Change(p, [p EXCEPT !.leader = code])
  BY DEF LeaderExits
<1> DEFINE q == [p EXCEPT !.leader = code]
<1>3. /\ q \in Procs /\ q.job = p.job /\ q.payload = p.payload /\ q.binary = p.binary
      /\ ~q.finished /\ q.data = p.data
  BY <1>1 DEF Procs
<1>4. outputs' \in Versions /\ UNCHANGED <<rep, asks, preview, consent, suggested, quit>>
  BY DEF LeaderExits, IInv, TypeOK, seen
<1> HIDE DEF q
<1> QED BY <1>1, <1>2, <1>3, <1>4, ProcessSteps DEF q

(* The deadline and the monitor of the group kill a process. *)
LEMMA KillStep ==
  ASSUME IInv, NEW p \in procs, Deadline(p) \/ Monitor(p)
  PROVE  IInv'
<1>1. p \in Procs /\ ~p.finished
  BY DEF IInv, TypeOK, Unfinished
<1>2. PICK t \in BOOLEAN : Change(p, [Killed(p) EXCEPT !.timer = t])
  <2>1. Killed(p) = [Killed(p) EXCEPT !.timer = p.timer] /\ p.timer \in BOOLEAN
    BY <1>1 DEF Killed, Procs
  <2>2. CASE Deadline(p)
    BY <2>2 DEF Deadline
  <2>3. CASE Monitor(p)
    BY <2>1, <2>3 DEF Monitor
  <2> QED BY <2>2, <2>3
<1> DEFINE q == [Killed(p) EXCEPT !.timer = t]
<1>3. /\ q \in Procs /\ q.job = p.job /\ q.payload = p.payload /\ q.binary = p.binary
      /\ ~q.finished /\ q.data = p.data /\ ~Alive(q)
  <2>1. /\ q \in Procs /\ q.job = Killed(p).job /\ q.payload = Killed(p).payload
        /\ q.binary = Killed(p).binary /\ q.data = Killed(p).data
        /\ q.finished = Killed(p).finished /\ Alive(q) = Alive(Killed(p))
    BY <1>1, KilledType DEF Procs, Alive, Running
  <2> QED BY <1>1, <2>1, KilledType
<1>4. outputs' \in Versions /\ UNCHANGED <<rep, asks, preview, consent, suggested, quit>>
  BY DEF Deadline, Monitor, IInv, TypeOK, seen
<1> HIDE DEF q
<1> QED BY <1>1, <1>2, <1>3, <1>4, ProcessSteps DEF q

LEMMA OtherAnalyzerStep ==
  ASSUME IInv, OtherAnalyzer
  PROVE  IInv'
<1>1. TypeOK'
  BY ReportAssumption DEF IInv, TypeOK, OtherAnalyzer, Versions
<1> QED BY <1>1 DEF OtherAnalyzer, IInv, Unfinished, Generations, Runner, Asked, Sent, Current

-----------------------------------------------------------------------------
(* Commands. *)

(* What a report between two jobs looks like. *)
LEMMA IdleReport ==
  ASSUME IInv, CanLaunch
  PROVE  /\ rep.generation \in 0 .. MaxGenerations /\ rep.generation + 1 \in 0 .. MaxGenerations
         /\ rep.job = None /\ rep.phase = None /\ rep.binary = None /\ ~quit
         /\ \A p \in procs : ~Current(p.job)
<1>1. rep.generation \in 0 .. MaxGenerations /\ rep.generation + 1 \in 0 .. MaxGenerations
  BY ReportAssumption DEF IInv, TypeOK, Reports, CanLaunch
<1>2. rep.binary = None
  BY ReportAssumption DEF IInv, TypeOK, CanLaunch, Idle, Phases
<1>3. \A p \in procs : ~Current(p.job)
  BY NoJob DEF IInv, TypeOK, Runner, CanLaunch, Idle
<1> QED BY <1>1, <1>2, <1>3 DEF CanLaunch, Idle

(* A new generation: whatever is left of the older ones is stale. *)
LEMMA LaunchStep ==
  ASSUME IInv, Start \/ Analyze
  PROVE  IInv'
<1> DEFINE g == rep.generation + 1
<1>1. CanLaunch /\ UNCHANGED <<asks, quit, seen>>
  BY DEF Start, Analyze
<1>2. PICK kind \in {"report", "preview"} :
        /\ rep' \in [generation : {g}, job : {None, [generation |-> g, kind |-> kind]}, phase : {None},
                     await : BOOLEAN, previous : Versions \cup {None}, binary : {None}]
        /\ \/ /\ rep'.job = [generation |-> g, kind |-> kind]
              /\ procs' = procs \cup {Process(g, kind, 0, 0, None)}
           \/ rep'.job = None /\ UNCHANGED procs
  <2>1. /\ rep \in [generation : Nat, job : {None}, phase : {None},
                     await : BOOLEAN, previous : Versions \cup {None}, binary : {None}]
        /\ outputs \in Versions
    BY <1>1, IdleReport DEF IInv, TypeOK, Reports
  <2>2. CASE Start
    BY <2>1, <2>2 DEF Start, Launch
  <2>3. CASE Analyze
    BY <2>1, <2>3 DEF Analyze, Launch
  <2> QED BY <2>2, <2>3
<1> DEFINE new == Process(g, kind, 0, 0, None)
<1>3. 0 \in Versions /\ g \in 0 .. MaxGenerations /\ kind \in Kinds
      /\ rep.generation \in 0 .. MaxGenerations
  BY <1>1, IdleReport, ReportAssumption DEF Versions, Kinds
<1>4. [generation |-> g, kind |-> kind] \in Jobs
  BY <1>3 DEF Jobs
<1>5. /\ new \in Procs /\ new.job = [generation |-> g, kind |-> kind] /\ ~new.finished
  BY <1>3, ProcessType
<1>6. /\ rep'.generation = g /\ rep'.phase = None /\ rep'.binary = None
      /\ \/ rep'.job = new.job /\ procs' = procs \cup {new}
         \/ rep'.job = None /\ procs' = procs
  BY <1>2, <1>5
<1>7. rep' \in Reports
  BY <1>2, <1>3, <1>4 DEF Reports
<1> HIDE DEF new
<1>8. TypeOK'
  BY <1>1, <1>5, <1>6, <1>7, ReportAssumption DEF IInv, TypeOK, seen, Phases
<1>9. \A p \in procs : p.job.generation <= rep.generation /\ p.job.generation \in Nat
  BY NoJob DEF IInv, TypeOK, Generations
<1>10. \A a \in asks : a.generation <= rep.generation /\ a.generation \in Nat
  BY DEF IInv, TypeOK, Generations, Prompts
<1>11. \A p \in procs : p.job.generation < g /\ ~Alive(p)
  BY <1>1, <1>3, <1>9, IdleReport DEF IInv, Runner
<1>12. \A a \in asks : a.generation < g
  BY <1>3, <1>10
<1>13. new.job.generation = g /\ new.job.kind \notin {"codex", "suggestions"}
  BY <1>5
<1> HIDE DEF g
<1>14. Unfinished'
  BY <1>5, <1>6 DEF IInv, Unfinished
<1>15. \A p \in procs : p.job.generation <= g
  BY <1>3, <1>9, <1>11
<1>16. \A a \in asks : a.generation <= g
  BY <1>3, <1>10, <1>12
<1>17. Generations'
  <2>1. g <= g
    BY <1>3
  <2> QED BY <1>1, <1>6, <1>13, <1>15, <1>16, <2>1 DEF Generations
<1>18. \A p \in procs : p.job.generation # g
  BY <1>3, <1>9, <1>11
<1>19. \A a \in asks : a.generation # g
  BY <1>3, <1>10, <1>12
<1>20. Runner'
  BY <1>1, <1>6, <1>11, <1>13, <1>18, IdleReport, ReportAssumption DEF IInv, Runner, Current, Phases
<1>21. Asked'
  BY <1>1, <1>6, <1>19 DEF Asked, Current
<1>22. Sent'
  BY <1>6, <1>13, <1>18 DEF Sent, Current
<1> QED BY <1>8, <1>14, <1>17, <1>20, <1>21, <1>22 DEF IInv

(* The job is killed and its generation is over. *)
LEMMA ShutDownStep ==
  ASSUME IInv, CanShutDown, ShutDown, UNCHANGED <<asks, seen>>, quit' \in BOOLEAN
  PROVE  IInv'
<1> DEFINE g == rep.generation + 1
           after(p) == IF p.job = rep.job THEN Killed(p) ELSE p
<1>1. rep.generation \in 0 .. MaxGenerations /\ g \in 0 .. MaxGenerations
  BY ReportAssumption DEF IInv, TypeOK, Reports, CanShutDown
<1>2. /\ rep'.generation = g /\ rep'.phase = None /\ rep'.binary = None /\ rep'.job = None
  BY DEF ShutDown, IInv, TypeOK
<1>3. rep' \in Reports
  BY <1>1 DEF ShutDown, IInv, TypeOK, Reports
<1>4. procs' = {after(p) : p \in procs}
  BY DEF ShutDown
<1>5. \A p \in procs : /\ after(p) \in Procs /\ after(p).job = p.job /\ ~after(p).finished
                       /\ ~Alive(after(p))
  BY KilledType DEF IInv, TypeOK, Unfinished, Runner
<1> HIDE DEF after
<1>6. TypeOK'
  BY <1>2, <1>3, <1>4, <1>5 DEF IInv, TypeOK, seen
<1>7. \A p \in procs : /\ p.job.generation <= g /\ p.job.generation # g
  <2> SUFFICES ASSUME NEW p \in procs PROVE p.job.generation <= g /\ p.job.generation # g
    OBVIOUS
  <2>1. p.job.generation <= rep.generation /\ p.job.generation \in Nat
    BY NoJob DEF IInv, TypeOK, Generations
  <2> QED BY <1>1, <2>1
<1>8. \A a \in asks : a.generation <= g /\ a.generation # g
  <2> SUFFICES ASSUME NEW a \in asks PROVE a.generation <= g /\ a.generation # g
    OBVIOUS
  <2>1. a.generation <= rep.generation /\ a.generation \in Nat
    BY DEF IInv, TypeOK, Generations, Prompts
  <2> QED BY <1>1, <2>1
<1> HIDE DEF g
<1>9. Unfinished' /\ Generations'
  BY <1>2, <1>4, <1>5, <1>7, <1>8 DEF Unfinished, Generations
<1>10. Runner'
  BY <1>2, <1>4, <1>5, <1>7 DEF IInv, Runner, Current
<1>11. Asked' /\ Sent'
  BY <1>2, <1>4, <1>5, <1>7, <1>8 DEF Asked, Sent, Current
<1> QED BY <1>6, <1>9, <1>10, <1>11 DEF IInv

LEMMA QuitStep ==
  ASSUME IInv, Quit
  PROVE  IInv'
<1>1. CASE CanShutDown /\ ShutDown
  BY <1>1, ShutDownStep DEF Quit
<1>2. CASE Idle /\ UNCHANGED <<rep, procs>>
  BY <1>2 DEF Quit, Idle, seen, IInv, TypeOK, Unfinished, Generations, Runner, Asked, Sent, Current
<1> QED BY <1>1, <1>2 DEF Quit

-----------------------------------------------------------------------------
(* Exit callbacks and answers. *)

(* Only the job of the report is current, and only one process is its own. *)
LEMMA OthersAreStale ==
  ASSUME IInv, NEW p \in procs, Current(p.job)
  PROVE  /\ rep.job = p.job /\ ~quit /\ rep.phase # "awaiting_confirmation"
         /\ \A q \in procs \ {p} : ~Current(q.job)
BY NoJob DEF IInv, TypeOK, Runner

LEMMA NoneCurrent ==
  ASSUME IInv, rep.job = None
  PROVE  \A q \in procs : ~Current(q.job)
BY NoJob DEF IInv, TypeOK, Runner

LEMMA IgnoredStep ==
  ASSUME IInv, NEW p \in procs, Ignored(p)
  PROVE  IInv'
<1>1. procs' = procs \ {p} /\ UNCHANGED <<rep, asks, outputs, preview, consent, suggested, quit>>
  BY ContinueProcs DEF Ignored, IInv, seen
<1>2. TypeOK'
  BY <1>1 DEF IInv, TypeOK
<1> QED BY <1>1, <1>2, JobEnds

LEMMA CompleteReportStep ==
  ASSUME IInv, NEW p \in procs, CompleteReport(p)
  PROVE  IInv'
<1>1. CASE ~Current(p.job)
  BY <1>1, IgnoredStep DEF CompleteReport
<1>2. CASE Current(p.job)
  <2>1. /\ procs' = procs \ {p} /\ UNCHANGED <<asks, outputs, preview, consent, suggested, quit>>
        /\ rep' = [rep EXCEPT !.job = None, !.previous = None]
    BY <1>2, ContinueProcs DEF CompleteReport, IInv, seen
  <2>2. /\ rep' \in Reports /\ rep'.generation = rep.generation /\ rep'.job = None
        /\ rep'.phase = rep.phase /\ rep'.binary = rep.binary
    BY <2>1 DEF IInv, TypeOK, Reports
  <2>3. TypeOK'
    BY <2>1, <2>2 DEF IInv, TypeOK
  <2>4. \A q \in procs' : ~Current(q.job)
    BY <1>2, <2>1, OthersAreStale
  <2> QED BY <2>1, <2>2, <2>3, <2>4, JobEnds
<1> QED BY <1>1, <1>2

(* Whatever ends the job of p without another process. *)
LEMMA Ended ==
  ASSUME IInv, NEW p \in procs, Current(p.job), Continue({p}, {}),
         rep' \in Reports, rep'.generation = rep.generation, rep'.job = None,
         rep'.phase = None, rep'.binary = None,
         preview' \in Shown, suggested' \in Shown, UNCHANGED <<asks, outputs, consent, quit>>
  PROVE  IInv'
<1>1. procs' = procs \ {p}
  <2>1. {p} \in SUBSET procs /\ TypeOK
    BY DEF IInv
  <2>2. procs' = (procs \ {p}) \cup {}
    BY <2>1, ContinueProcs
  <2> QED BY <2>2
<1>2. TypeOK'
  BY <1>1, ReportAssumption DEF IInv, TypeOK
<1>3. \A q \in procs' : ~Current(q.job)
  BY <1>1, OthersAreStale
<1>4. rep'.phase # "awaiting_confirmation"
  BY ReportAssumption DEF Phases
<1> QED BY <1>1, <1>2, <1>3, <1>4, JobEnds

LEMMA CompleteSuggestionsStep ==
  ASSUME IInv, NEW p \in procs, CompleteSuggestions(p)
  PROVE  IInv'
<1>1. CASE ~Current(p.job) \/ rep.phase # "rendering_suggestions"
  BY <1>1, IgnoredStep DEF CompleteSuggestions
<1>2. CASE Current(p.job) /\ rep.phase = "rendering_suggestions"
  <2>1. /\ Continue({p}, {}) /\ UNCHANGED <<asks, outputs, preview, consent, quit>>
        /\ rep' = [rep EXCEPT !.job = None, !.phase = None]
        /\ suggested' \in {suggested, [generation |-> p.job.generation, payload |-> p.data]}
    BY <1>2 DEF CompleteSuggestions
  <2>2. p.job.generation \in 0 .. MaxGenerations /\ p.data \in Versions
    BY NoJob DEF IInv, TypeOK, Procs
  <2>3. suggested' \in Shown /\ preview' \in Shown
    BY <2>1, <2>2 DEF Shown, IInv, TypeOK
  <2>4. rep.binary = None
    BY <1>2 DEF IInv, TypeOK
  <2>5. /\ rep' \in Reports /\ rep'.generation = rep.generation /\ rep'.job = None
        /\ rep'.phase = None /\ rep'.binary = None
    BY <2>1, <2>4 DEF IInv, TypeOK, Reports
  <2> QED BY <1>2, <2>1, <2>3, <2>5, Ended
<1> QED BY <1>1, <1>2

LEMMA CompleteCodexStep ==
  ASSUME IInv, NEW p \in procs, CompleteCodex(p)
  PROVE  IInv'
<1>1. CASE ~Current(p.job) \/ rep.phase # "codex"
  BY <1>1, IgnoredStep DEF CompleteCodex
<1>2. CASE Current(p.job) /\ rep.phase = "codex"
  <2>1. rep.binary = None /\ UNCHANGED <<asks, outputs, preview, consent, suggested, quit>>
    BY <1>2 DEF IInv, TypeOK, CompleteCodex, seen
  <2>2. CASE rep' = Reject(rep) /\ Continue({p}, {})
    <3>1. /\ rep' \in Reports /\ rep'.generation = rep.generation /\ rep'.job = None
          /\ rep'.phase = None /\ rep'.binary = None
      BY <2>1, <2>2 DEF IInv, TypeOK, Reports, Reject
    <3>2. preview' \in Shown /\ suggested' \in Shown
      BY <2>1 DEF IInv, TypeOK
    <3> QED BY <1>2, <2>1, <2>2, <3>1, <3>2, Ended
  <2> DEFINE render == Process(p.job.generation, "suggestions", p.payload, p.data, None)
             job == [generation |-> rep.generation, kind |-> "suggestions"]
  <2>3. CASE /\ p.data = p.payload /\ Continue({p}, {render})
             /\ rep' = [rep EXCEPT !.phase = "rendering_suggestions", !.job = render.job]
    <3>1. p \in Procs /\ p.payload \in Versions /\ p.data \in Versions
          /\ rep.generation \in 0 .. MaxGenerations /\ p.job.generation = rep.generation
      BY <1>2 DEF IInv, TypeOK, Procs, Current, Reports
    <3>2. render \in Procs /\ render.job = job
      <4>1. /\ "suggestions" \in Kinds /\ None \in Binaries \cup {None}
            /\ p.job.generation \in 0 .. MaxGenerations
        BY <3>1 DEF Kinds
      <4> QED BY <3>1, <4>1, ProcessType
    <3>3. procs' = (procs \ {p}) \cup {render}
      BY <2>3, ContinueProcs DEF IInv
    <3>4. job \in Jobs /\ "rendering_suggestions" \in Phases
      BY <3>1 DEF Jobs, Kinds, Phases
    <3> HIDE DEF render
    <3>5. /\ rep' \in Reports /\ rep'.generation = rep.generation /\ rep'.job = job
          /\ rep'.phase = "rendering_suggestions" /\ rep'.binary = None
      BY <2>1, <2>3, <3>2, <3>4 DEF IInv, TypeOK, Reports
    <3>6. TypeOK'
      BY <2>1, <3>2, <3>3, <3>5 DEF IInv, TypeOK
    <3>7. preview = [generation |-> rep.generation, payload |-> p.payload]
          /\ \E c \in consent : c.generation = rep.generation /\ c.payload = p.payload
      <4>1. p.job.kind = "codex"
        BY DEF CompleteCodex
      <4> QED BY <1>2, <4>1 DEF IInv, Sent
    <3>8. \A q \in procs \ {p} : ~Current(q.job)
      BY <1>2, OthersAreStale
    <3>9. ~quit
      BY <1>2, OthersAreStale
    <3>10. procs' = (procs \ {p}) \cup {Process(rep.generation, "suggestions", p.payload, p.payload, None)}
      BY <2>3, <3>1, <3>3 DEF render
    <3> HIDE DEF job
    <3> QED BY <2>1, <3>1, <3>5, <3>6, <3>7, <3>8, <3>9, <3>10, JobGoesOn DEF job
  <2> QED BY <1>2, <2>2, <2>3 DEF CompleteCodex
<1> QED BY <1>1, <1>2

(* The prompt that is answered is the one of the preview shown. *)
LEMMA AcceptStep ==
  ASSUME IInv, NEW done \in SUBSET procs, NEW r \in Reports, NEW prompt \in Prompts,
         Accept(done, r, prompt),
         prompt.generation = rep.generation, r.generation = rep.generation, r.job = None,
         r.binary = prompt.binary,
         preview' = [generation |-> rep.generation, payload |-> prompt.payload],
         ~quit, \A q \in procs \ done : ~Current(q.job),
         asks' \subseteq asks, UNCHANGED <<outputs, suggested, quit>>
  PROVE  IInv'
<1> DEFINE g == rep.generation
           v == prompt.payload
           b == prompt.binary
           job == [generation |-> g, kind |-> "codex"]
           codex == Process(g, "codex", v, v, b)
<1>1. /\ g \in 0 .. MaxGenerations /\ v \in Versions /\ b \in Binaries
      /\ prompt = [generation |-> g, payload |-> v, binary |-> b]
  BY DEF IInv, TypeOK, Reports, Prompts
<1>2. codex \in Procs /\ codex.job = job
  <2>1. "codex" \in Kinds /\ b \in Binaries \cup {None}
    BY <1>1 DEF Kinds
  <2> QED BY <1>1, <2>1, ProcessType
<1>3. job \in Jobs /\ "codex" \in Phases
  BY <1>1 DEF Jobs, Kinds, Phases
<1>4. consent' = consent \cup {prompt} /\ consent' \subseteq Prompts
  BY DEF Accept, IInv, TypeOK
<1>5. preview' \in Shown
  BY <1>1 DEF Shown
<1> DEFINE s == [r EXCEPT !.phase = None]
<1>6. s \in Reports /\ s.generation = g /\ s.job = None /\ s.phase = None /\ s.binary = b
  BY DEF Reports
<1>7. \/ rep' = [s EXCEPT !.binary = None] /\ Continue(done, {})
      \/ rep' = [s EXCEPT !.binary = None, !.phase = "codex", !.job = codex.job] /\ Continue(done, {codex})
  <2>1. StartCodex(done, s, prompt)
    BY DEF Accept
  <2> HIDE DEF s
  <2> QED BY <1>6, <2>1 DEF StartCodex
<1> HIDE DEF s, codex
<1>8. CASE rep' = [s EXCEPT !.binary = None] /\ Continue(done, {})
  <2>1. /\ rep' \in Reports /\ rep'.generation = g /\ rep'.job = None
        /\ rep'.phase = None /\ rep'.binary = None
    BY <1>6, <1>8 DEF Reports
  <2>2. procs' = procs \ done
    <3>1. procs' = (procs \ done) \cup {}
      BY <1>8, ContinueProcs DEF IInv
    <3> QED BY <3>1
  <2>3. TypeOK'
    BY <1>4, <1>5, <2>1, <2>2 DEF IInv, TypeOK
  <2>4. rep'.phase # "awaiting_confirmation" /\ rep'.job = None
    BY <2>1, ReportAssumption DEF Phases
  <2>5. Runner'
    BY <2>1, <2>2, <2>4 DEF IInv, Runner, Current
  <2>6. Unfinished' /\ Generations' /\ Asked' /\ Sent'
    BY <2>1, <2>2, <2>4 DEF IInv, Unfinished, Generations, Asked, Sent, Current
  <2> QED BY <2>3, <2>5, <2>6 DEF IInv
<1>9. CASE rep' = [s EXCEPT !.binary = None, !.phase = "codex", !.job = codex.job] /\ Continue(done, {codex})
  <2>1. /\ rep' \in Reports /\ rep'.generation = g /\ rep'.job = job
        /\ rep'.phase = "codex" /\ rep'.binary = None
    BY <1>2, <1>3, <1>6, <1>9 DEF Reports
  <2>2. procs' = (procs \ done) \cup {codex}
    BY <1>9, ContinueProcs DEF IInv
  <2>3. TypeOK'
    BY <1>2, <1>4, <1>5, <2>1, <2>2 DEF IInv, TypeOK
  <2>4. procs' = (procs \ done) \cup {Process(g, "codex", v, v, b)}
    BY <2>2 DEF codex
  <2>5. prompt \in consent' /\ consent \subseteq consent'
    BY <1>4
  <2> QED BY <1>1, <2>1, <2>3, <2>4, <2>5, JobGoesOn
<1> QED BY <1>7, <1>8, <1>9

LEMMA AnswerStep ==
  ASSUME IInv, NEW prompt \in asks, Answer(prompt)
  PROVE  IInv'
<1>1. asks' = asks \ {prompt} /\ UNCHANGED <<outputs, preview, suggested, quit>>
  BY DEF Answer
<1>2. CASE ~(Current(prompt) /\ rep.phase = "awaiting_confirmation")
  <2>1. UNCHANGED <<rep, procs, consent>>
    BY <1>2 DEF Answer
  <2>2. TypeOK'
    BY <1>1, <2>1 DEF IInv, TypeOK
  <2> QED BY <1>1, <2>1, <2>2, JobEnds
<1>3. CASE Current(prompt) /\ rep.phase = "awaiting_confirmation"
  <2>1. /\ prompt \in Prompts /\ rep \in Reports /\ rep.job = None
        /\ prompt.generation = rep.generation /\ rep.binary = prompt.binary
        /\ preview = [generation |-> rep.generation, payload |-> prompt.payload]
    BY <1>3 DEF IInv, TypeOK, Runner, Asked, Current
  <2>2. \A q \in procs : ~Current(q.job)
    BY <2>1, NoneCurrent
  <2>3. CASE Accept({}, rep, prompt)
    BY <1>1, <2>1, <2>2, <2>3, AcceptStep DEF Answer
  <2>4. CASE Cancel({}, rep)
    <3>1. consent' = consent /\ procs' = procs
      <4>1. procs' = (procs \ {}) \cup {}
        BY <2>4, ContinueProcs DEF IInv, Cancel
      <4> QED BY <2>4, <4>1 DEF Cancel
    <3>2. /\ rep' \in Reports /\ rep'.generation = rep.generation /\ rep'.job = None
          /\ rep'.phase = None /\ rep'.binary = None
      BY <2>1, <2>4 DEF Cancel, Reports
    <3>3. TypeOK'
      BY <1>1, <3>1, <3>2 DEF IInv, TypeOK
    <3>4. rep'.phase # "awaiting_confirmation"
      BY <3>2, ReportAssumption DEF Phases
    <3> QED BY <1>1, <2>1, <3>1, <3>2, <3>3, <3>4, JobEnds
  <2> QED BY <1>3, <2>3, <2>4 DEF Answer
<1> QED BY <1>2, <1>3

LEMMA CompletePreviewStep ==
  ASSUME IInv, NEW p \in procs, CompletePreview(p)
  PROVE  IInv'
<1> DEFINE r == [rep EXCEPT !.job = None]
           g == rep.generation
           asking(b) == [r EXCEPT !.await = FALSE, !.binary = b, !.phase = "awaiting_confirmation"]
           prompt(b) == [generation |-> g, payload |-> p.data, binary |-> b]
<1>1. CASE ~Current(p.job)
  BY <1>1, IgnoredStep DEF CompletePreview
<1>2. CASE Current(p.job) /\ rep' = r /\ Continue({p}, {}) /\ UNCHANGED <<asks, quit, seen>>
  <2>1. procs' = procs \ {p}
    <3>1. {p} \in SUBSET procs /\ TypeOK
      BY DEF IInv
    <3>2. procs' = (procs \ {p}) \cup {}
      BY <1>2, <3>1, ContinueProcs
    <3> QED BY <3>2
  <2>2. /\ rep' \in Reports /\ rep'.generation = rep.generation /\ rep'.job = None
        /\ rep'.phase = rep.phase /\ rep'.binary = rep.binary
    BY <1>2 DEF IInv, TypeOK, Reports
  <2>3. TypeOK'
    BY <1>2, <2>1, <2>2 DEF IInv, TypeOK, seen
  <2>4. \A q \in procs' : ~Current(q.job)
    BY <1>2, <2>1, OthersAreStale
  <2> QED BY <1>2, <2>1, <2>2, <2>3, <2>4, JobEnds DEF seen
<1>3. ASSUME Current(p.job), NEW b \in Binaries,
             preview' = [generation |-> g, payload |-> p.data],
             \/ Accept({p}, asking(b), prompt(b)) /\ UNCHANGED asks
             \/ Cancel({p}, asking(b)) /\ UNCHANGED asks
             \/ /\ rep' = asking(b)
                /\ asks' = asks \cup {prompt(b)}
                /\ Continue({p}, {})
                /\ UNCHANGED consent,
             UNCHANGED <<outputs, suggested, quit>>
      PROVE  IInv'
  <2>1. /\ asking(b) \in Reports /\ asking(b).generation = g /\ asking(b).job = None
        /\ asking(b).binary = b /\ asking(b).phase = "awaiting_confirmation"
    BY DEF IInv, TypeOK, Reports, Phases
  <2>2. /\ prompt(b) \in Prompts /\ prompt(b).generation = g /\ prompt(b).payload = p.data
        /\ prompt(b).binary = b
    BY DEF IInv, TypeOK, Reports, Procs, Prompts
  <2>3. preview' \in Shown /\ suggested' \in Shown
    BY <1>3 DEF IInv, TypeOK, Reports, Procs, Shown
  <2>4. ~quit /\ \A q \in procs \ {p} : ~Current(q.job)
    BY <1>3, OthersAreStale
  <2>5. {p} \in SUBSET procs
    OBVIOUS
  <2> HIDE DEF asking, prompt
  <2>6. CASE Accept({p}, asking(b), prompt(b)) /\ UNCHANGED asks
    BY <1>3, <2>1, <2>2, <2>4, <2>5, <2>6, AcceptStep
  <2>7. CASE Cancel({p}, asking(b)) /\ UNCHANGED asks
    <3>1. consent' = consent /\ Continue({p}, {})
      BY <2>7 DEF Cancel
    <3>2. /\ rep' \in Reports /\ rep'.generation = g /\ rep'.job = None
          /\ rep'.phase = None /\ rep'.binary = None
      BY <2>1, <2>7 DEF Cancel, Reports
    <3> QED BY <1>3, <2>3, <2>7, <3>1, <3>2, Ended
  <2>8. CASE /\ rep' = asking(b)
             /\ asks' = asks \cup {prompt(b)}
             /\ Continue({p}, {})
             /\ UNCHANGED consent
    <3>1. procs' = procs \ {p}
      <4>1. TypeOK
        BY DEF IInv
      <4>2. procs' = (procs \ {p}) \cup {}
        BY <2>5, <2>8, <4>1, ContinueProcs
      <4> QED BY <4>2
    <3>2. TypeOK'
      BY <1>3, <2>1, <2>2, <2>3, <2>8, <3>1 DEF IInv, TypeOK
    <3>3. Runner'
      BY <1>3, <2>1, <2>4, <2>8, <3>1 DEF IInv, Runner, Current
    <3>4. g <= g
      BY DEF IInv, TypeOK, Reports
    <3>5. Unfinished' /\ Generations' /\ Sent'
      BY <2>1, <2>2, <2>4, <2>8, <3>1, <3>4 DEF IInv, Unfinished, Generations, Sent, Current
    <3>6. \A a \in asks : ~Current(a)
      <4>1. rep.job # None /\ rep.job.kind = "preview"
        BY <1>3, OthersAreStale, NoJob DEF CompletePreview, IInv, TypeOK
      <4> QED BY <4>1 DEF IInv, Asked
    <3>7. Asked'
      BY <1>3, <2>1, <2>2, <2>8, <3>6 DEF Asked, Current
    <3> QED BY <3>2, <3>3, <3>5, <3>7 DEF IInv
  <2> QED BY <1>3, <2>6, <2>7, <2>8
<1>4. p.job.generation = g \/ ~Current(p.job)
  BY DEF Current
<1>5. CASE /\ Current(p.job) /\ p.leader = "ok" /\ rep.await
           /\ preview' = [generation |-> g, payload |-> p.data]
           /\ \E b \in Binaries :
                \/ Accept({p}, asking(b), prompt(b)) /\ UNCHANGED asks
                \/ Cancel({p}, asking(b)) /\ UNCHANGED asks
                \/ /\ rep' = asking(b)
                   /\ asks' = asks \cup {prompt(b)}
                   /\ Continue({p}, {})
                   /\ UNCHANGED consent
           /\ UNCHANGED <<outputs, suggested, quit>>
  <2> HIDE DEF asking, prompt
  <2> QED BY <1>3, <1>5
<1> QED BY <1>1, <1>2, <1>4, <1>5 DEF CompletePreview

-----------------------------------------------------------------------------
LEMMA StepIInv == IInv /\ [Next]_vars => IInv'
<1> SUFFICES ASSUME IInv, [Next]_vars PROVE IInv'
  OBVIOUS
<1>1. CASE UNCHANGED vars
  BY <1>1 DEF vars, IInv, TypeOK, Unfinished, Generations, Runner, Asked, Sent, Current
<1>2. CASE Start \/ Analyze
  BY <1>2, LaunchStep
<1>3. CASE Shutdown
  <2>1. quit' \in BOOLEAN
    BY <1>3 DEF Shutdown, IInv, TypeOK
  <2> QED BY <1>3, <2>1, ShutDownStep DEF Shutdown
<1>4. CASE Quit
  BY <1>4, QuitStep
<1>5. CASE OtherAnalyzer
  BY <1>5, OtherAnalyzerStep
<1>6. ASSUME NEW prompt \in asks, Answer(prompt) PROVE IInv'
  BY <1>6, AnswerStep
<1>7. ASSUME NEW p \in procs,
             Work(p) \/ OtherStep(p) \/ LeaderExits(p) \/ Deadline(p) \/ Monitor(p)
      PROVE  IInv'
  BY <1>7, WorkStep, OtherSteps, LeaderExitStep, KillStep
<1>8. ASSUME NEW p \in procs, Callback(p) PROVE IInv'
  BY <1>8, CompleteReportStep, CompletePreviewStep, CompleteCodexStep, CompleteSuggestionsStep
     DEF Callback
<1> QED BY <1>1, <1>2, <1>3, <1>4, <1>5, <1>6, <1>7, <1>8 DEF Next

(* Whatever processes, users, other analyzers and the event loop do, the   *)
(* state of a report stays consistent.                                     *)
THEOREM Consistent == Spec => []IInv
BY InitIInv, StepIInv, PTL DEF Spec

(* The fields of the report keep their types, and the executable resolved  *)
(* for a prompt is kept only while the user is asked.                      *)
THEOREM TypeCorrect == Spec => []TypeOK
<1>1. IInv => TypeOK
  BY DEF IInv
<1> QED BY <1>1, Consistent, PTL

(* No process group outlives its job: process.lua kills the group before   *)
(* it calls back, Report:shutdown kills the job before it forgets it, and a *)
(* callback of another generation leaves the report alone.                 *)
THEOREM LiveGroupsAreShown == Spec => []LiveGroupIsTheJob
<1>1. IInv => LiveGroupIsTheJob
  BY NoJob DEF IInv, TypeOK, Runner, LiveGroupIsTheJob
<1> QED BY <1>1, Consistent, PTL

(* Codex is only ever run on the payload of the preview shown last, with   *)
(* the executable that was named, after the user said yes to exactly that. *)
THEOREM CodexIsConfirmed == Spec => []CodexSendsTheShownPreview
<1>1. IInv => CodexSendsTheShownPreview
  BY DEF IInv, Runner, Sent, CodexSendsTheShownPreview
<1> QED BY <1>1, Consistent, PTL

LEMMA OnlyRenderingShows ==
  ASSUME IInv, [Next]_vars, suggested' # suggested
  PROVE  \E p \in procs : CompleteSuggestions(p)
<1>1. ASSUME NEW p \in procs, CompletePreview(p) PROVE suggested' = suggested
  BY <1>1 DEF CompletePreview, Ignored, seen
<1>2. ASSUME NEW p \in procs, CompleteReport(p) \/ CompleteCodex(p) PROVE suggested' = suggested
  BY <1>2 DEF CompleteReport, CompleteCodex, Ignored, seen
<1>3. ASSUME NEW p \in procs,
             Work(p) \/ OtherStep(p) \/ LeaderExits(p) \/ Deadline(p) \/ Monitor(p)
      PROVE  suggested' = suggested
  BY <1>3 DEF Work, OtherStep, LeaderExits, Deadline, Monitor, seen
<1>4. Start \/ Analyze \/ Shutdown \/ Quit \/ OtherAnalyzer \/ UNCHANGED vars => suggested' = suggested
  BY DEF Start, Analyze, Shutdown, Quit, OtherAnalyzer, seen, vars
<1>5. \A prompt \in asks : Answer(prompt) => suggested' = suggested
  BY DEF Answer
<1> QED BY <1>1, <1>2, <1>3, <1>4, <1>5 DEF Next, Callback

(* The suggestions shown are those of the current analysis, and are about  *)
(* the payload that was previewed and confirmed, though another analyzer    *)
(* may have published meanwhile: _start_codex refuses the others.           *)
THEOREM SuggestionsAreConfirmed == Spec => SuggestionsFitConsent
<1>1. ASSUME IInv, [Next]_vars, suggested' # suggested
      PROVE  /\ suggested'.generation = rep.generation
             /\ \E c \in consent : /\ c.generation = rep.generation
                                   /\ c.payload = suggested'.payload
                                   /\ c.payload = preview.payload
  <2>1. PICK p \in procs : CompleteSuggestions(p)
    BY <1>1, OnlyRenderingShows
  <2>2. Current(p.job) /\ p.job.kind = "suggestions"
        /\ suggested' = [generation |-> p.job.generation, payload |-> p.data]
    BY <1>1, <2>1 DEF CompleteSuggestions, Ignored, seen
  <2>3. /\ preview = [generation |-> rep.generation, payload |-> p.payload] /\ p.data = p.payload
        /\ \E c \in consent : c.generation = rep.generation /\ c.payload = p.payload
    BY <1>1, <2>2 DEF IInv, Sent
  <2> QED BY <2>2, <2>3 DEF Current
<1>2. IInv /\ [Next]_vars =>
        [ suggested' # suggested =>
            /\ suggested'.generation = rep.generation
            /\ \E c \in consent : /\ c.generation = rep.generation
                                  /\ c.payload = suggested'.payload
                                  /\ c.payload = preview.payload ]_vars
  BY <1>1
<1> QED BY <1>2, Consistent, PTL DEF Spec, SuggestionsFitConsent
=============================================================================
