--------------------------- MODULE ReportLifecycle ---------------------------
(***************************************************************************)
(* The jobs of :KeyInsightsReport and :KeyInsightsAnalyze (report.lua) and *)
(* the runner of their processes (process.lua).                            *)
(*                                                                         *)
(* A report is one run of the analyzer.  An analysis previews the payload, *)
(* asks the user, runs Codex on the payload and renders its suggestions.   *)
(* Neovim runs Lua callbacks one at a time, so every action is atomic;     *)
(* between two of them processes work, exit, are killed, and their exit    *)
(* callbacks wait in the event loop, also past a shutdown.  A callback     *)
(* knows the generation its job was started in.                            *)
(*                                                                         *)
(* A summary is the number of its publication; a payload or a set of       *)
(* suggestions is the number of the summary it is about.                   *)
(***************************************************************************)
EXTENDS Naturals, FiniteSets

CONSTANTS Binaries,        \* paths the configured Codex executable resolves to
          MaxGenerations,  \* bound: jobs started and shut down
          MaxVersions,     \* bound: publications
          None

Kinds    == {"report", "preview", "codex", "suggestions"}
Phases   == {"awaiting_confirmation", "codex", "rendering_suggestions"}
Versions == 0 .. MaxVersions
Jobs     == [generation : 0 .. MaxGenerations, kind : Kinds]

ASSUME ReportAssumption ==
  /\ MaxGenerations \in Nat /\ MaxVersions \in Nat \ {0}
  /\ None \notin Nat \cup Binaries \cup Phases \cup Jobs

VARIABLES rep,      \* the fields of the Report object
          procs,    \* the processes started and not forgotten
          asks,     \* the confirmation callbacks handed to vim.ui.select
          outputs,  \* number of the published pair, 0 when there is none
          preview,  \* the preview shown last: [generation, payload]
          consent,  \* history: prompts the user said yes to
          suggested,\* the suggestions shown last: [generation, payload]
          quit      \* Neovim has exited

vars == <<rep, procs, asks, outputs, preview, consent, suggested, quit>>
seen == <<outputs, preview, consent, suggested>>

Shown    == [generation : 0 .. MaxGenerations, payload : Versions]
Prompts  == [generation : 0 .. MaxGenerations, payload : Versions, binary : Binaries]

(* leader: what became of the process itself; other: a process it started  *)
(* in its group, which may or may not hold the output pipes open; payload: *)
(* the payload its callback was made for; data: its input, then what it    *)
(* printed; timer: the deadline has not fired.                             *)
Procs == [job : Jobs, payload : Versions, data : Versions, binary : Binaries \cup {None},
          leader : {"busy", "done", "ok", "failed"},
          other : {"none", "piping", "quiet"}, timer : BOOLEAN, finished : BOOLEAN]

Reports == [generation : 0 .. MaxGenerations, job : Jobs \cup {None}, phase : Phases \cup {None},
            await : BOOLEAN, previous : Versions \cup {None}, binary : Binaries \cup {None}]

(* The executable resolved for a prompt is kept only while the user is asked. *)
TypeOK ==
  /\ rep \in Reports
  /\ rep.binary # None => rep.phase = "awaiting_confirmation"
  /\ procs \subseteq Procs
  /\ asks \subseteq Prompts
  /\ outputs \in Versions
  /\ preview \in Shown /\ suggested \in Shown
  /\ consent \subseteq Prompts
  /\ quit \in BOOLEAN

Init ==
  /\ rep = [generation |-> 0, job |-> None, phase |-> None, await |-> FALSE,
            previous |-> None, binary |-> None]
  /\ procs = {} /\ asks = {} /\ consent = {}
  /\ outputs \in {0, 1}
  /\ preview = [generation |-> 0, payload |-> 0] /\ suggested = preview
  /\ quit = FALSE

-----------------------------------------------------------------------------
(* Processes and their runner. *)

Running(p) == p.leader \in {"busy", "done"}
Alive(p)   == Running(p) \/ p.other # "none"

(* terminate_process_group with SIGKILL. *)
Killed(p) == [p EXCEPT !.leader = IF Running(p) THEN "failed" ELSE @, !.other = "none"]

Change(p, q) == procs' = (procs \ {p}) \cup {q}

(* The analyzer publishes a pair; a preview reads the summary; Codex writes *)
(* suggestions, whatever they are about; the renderer reads the suggestions *)
(* and the summary, and fails unless they fit.                              *)
Work(p) ==
  /\ p.leader = "busy"
  /\ \/ /\ p.job.kind = "report" /\ outputs < MaxVersions
        /\ outputs' = outputs + 1
        /\ Change(p, [p EXCEPT !.leader = "done"])
     \/ /\ p.job.kind = "preview" /\ outputs # 0
        /\ Change(p, [p EXCEPT !.leader = "done", !.data = outputs])
        /\ UNCHANGED outputs
     \/ /\ p.job.kind = "codex"
        /\ \E v \in Versions : Change(p, [p EXCEPT !.leader = "done", !.data = v])
        /\ UNCHANGED outputs
     \/ /\ p.job.kind = "suggestions"
        /\ Change(p, [p EXCEPT !.leader = IF p.data = outputs THEN "done" ELSE "failed"])
        /\ UNCHANGED outputs
  /\ UNCHANGED <<rep, asks, preview, consent, suggested, quit>>

(* Codex starts a process in its group; that process closes its pipes or exits. *)
OtherStep(p) ==
  /\ \/ /\ p.job.kind = "codex" /\ Running(p) /\ p.other = "none"
        /\ Change(p, [p EXCEPT !.other = "piping"])
     \/ /\ p.other = "piping"
        /\ \E s \in {"quiet", "none"} : Change(p, [p EXCEPT !.other = s])
  /\ UNCHANGED <<rep, asks, quit, seen>>

LeaderExits(p) ==
  /\ Running(p)
  /\ \E code \in {"ok", "failed"} :
       /\ code = "ok" => p.leader = "done"
       /\ Change(p, [p EXCEPT !.leader = code])
  /\ UNCHANGED <<rep, asks, quit, seen>>

(* The deadline fires once. *)
Deadline(p) ==
  /\ ~quit /\ p.timer /\ ~p.finished
  /\ Change(p, [Killed(p) EXCEPT !.timer = FALSE])
  /\ UNCHANGED <<rep, asks, quit, seen>>

(* Every 10 ms: once the pid is gone the rest of its group is killed. *)
Monitor(p) ==
  /\ ~quit /\ ~p.finished /\ ~Running(p) /\ Alive(p)
  /\ Change(p, Killed(p))
  /\ UNCHANGED <<rep, asks, quit, seen>>

CanComplete(p) == ~quit /\ ~p.finished /\ ~Running(p) /\ p.other # "piping"

(* Mutant: complete() does not kill what is left of the group. *)
CompleteOnly(p) == [p EXCEPT !.finished = TRUE]

(* vim.system calls back once the leader is gone and the pipes are closed; *)
(* complete() kills what is left of the group.                             *)
Complete(p) == [Killed(p) EXCEPT !.finished = TRUE]

(* The processes after the callback of those in done, which started new. *)
Continue(done, new) ==
  procs' = (procs \ done) \cup {p \in {Complete(q) : q \in done} : Alive(p)} \cup new

Process(g, kind, payload, data, binary) ==
  [job |-> [generation |-> g, kind |-> kind], payload |-> payload, data |-> data, binary |-> binary,
   leader |-> "busy", other |-> "none", timer |-> TRUE, finished |-> FALSE]

-----------------------------------------------------------------------------
(* Commands. *)

Idle == rep.job = None /\ rep.phase = None

(* start() of a report or preview() of an analysis: a new generation, and  *)
(* the process unless it cannot be spawned.                                *)
Launch(kind, r, failed) ==
  LET g == rep.generation + 1
  IN  \/ /\ rep' = [r EXCEPT !.generation = g, !.job = [generation |-> g, kind |-> kind]]
         /\ procs' = procs \cup {Process(g, kind, 0, 0, None)}
      \/ /\ rep' = [failed EXCEPT !.generation = g]
         /\ UNCHANGED procs

CanLaunch == ~quit /\ Idle /\ rep.generation < MaxGenerations

Start ==
  /\ CanLaunch
  /\ Launch("report", [rep EXCEPT !.previous = outputs], [rep EXCEPT !.previous = None])
  /\ UNCHANGED <<asks, quit, seen>>

Analyze ==
  /\ CanLaunch
  /\ Launch("preview", [rep EXCEPT !.await = TRUE], [rep EXCEPT !.await = FALSE])
  /\ UNCHANGED <<asks, quit, seen>>

(* Mutant: the job is forgotten before it is killed. *)
ShutDownForgetting ==
  /\ rep' = [rep EXCEPT !.generation = @ + 1, !.job = None, !.phase = None,
                        !.await = FALSE, !.binary = None, !.previous = None]
  /\ UNCHANGED procs

(* Mutant: the executable of an open prompt is kept. *)
ShutDownKeepingBinary ==
  /\ rep' = [rep EXCEPT !.generation = @ + 1, !.job = None, !.phase = None,
                        !.await = FALSE, !.previous = None]
  /\ procs' = {IF p.job = rep.job THEN Killed(p) ELSE p : p \in procs}

(* The job is killed; its callback is still to come. *)
ShutDown ==
  /\ rep' = [rep EXCEPT !.generation = @ + 1, !.job = None, !.phase = None,
                        !.await = FALSE, !.binary = None, !.previous = None]
  /\ procs' = {IF p.job = rep.job THEN Killed(p) ELSE p : p \in procs}

CanShutDown == ~quit /\ ~Idle /\ rep.generation < MaxGenerations

Shutdown == CanShutDown /\ ShutDown /\ UNCHANGED <<asks, quit, seen>>

(* VimLeavePre shuts the report down, then no callback runs any more. *)
Quit ==
  /\ \/ CanShutDown /\ ShutDown
     \/ ~quit /\ Idle /\ UNCHANGED <<rep, procs>>
  /\ quit' = TRUE
  /\ UNCHANGED <<asks, seen>>

(* Somebody else's analyzer publishes to the same files. *)
OtherAnalyzer ==
  /\ outputs < MaxVersions
  /\ outputs' = outputs + 1
  /\ UNCHANGED <<rep, procs, asks, preview, consent, suggested, quit>>

-----------------------------------------------------------------------------
(* Exit callbacks.  Each first compares the generation of its job with the *)
(* generation of the report.                                               *)

(* Mutant: a callback acts whatever became of its job. *)
AnyGeneration(j) == TRUE

Current(j) == j.generation = rep.generation

(* A callback that does nothing, but for the runner's own work. *)
Ignored(p) == Continue({p}, {}) /\ UNCHANGED <<rep, asks, quit, seen>>

CompleteReport(p) ==
  /\ p.job.kind = "report" /\ CanComplete(p)
  /\ IF ~Current(p.job)
       THEN Ignored(p)
       ELSE /\ rep' = [rep EXCEPT !.job = None, !.previous = None]
            /\ Continue({p}, {})
            /\ UNCHANGED <<asks, quit, seen>>

(* _start_codex with the binary resolved for the prompt. *)
StartCodex(done, r, prompt) ==
  LET codex == Process(prompt.generation, "codex", prompt.payload, prompt.payload, r.binary)
  IN  \/ /\ rep' = [r EXCEPT !.binary = None]     \* a check or the spawn fails
         /\ Continue(done, {})
      \/ /\ rep' = [r EXCEPT !.binary = None, !.phase = "codex", !.job = codex.job]
         /\ Continue(done, {codex})

Cancel(done, r) ==
  /\ rep' = [r EXCEPT !.phase = None, !.binary = None]
  /\ Continue(done, {})
  /\ UNCHANGED consent

Accept(done, r, prompt) ==
  /\ StartCodex(done, [r EXCEPT !.phase = None], prompt)
  /\ consent' = consent \cup {prompt}

(* The preview is shown and the user asked.  vim.ui.select may answer at   *)
(* once, later or never; when it raises or the executable does not resolve  *)
(* the report is left as by a cancelled prompt.                             *)
CompletePreview(p) ==
  /\ p.job.kind = "preview" /\ CanComplete(p)
  /\ LET r == [rep EXCEPT !.job = None]
         g == p.job.generation
     IN  \/ ~Current(p.job) /\ Ignored(p)
         \/ /\ Current(p.job)                     \* failed, invalid or not shown
            /\ rep' = r
            /\ Continue({p}, {})
            /\ UNCHANGED <<asks, quit, seen>>
         \/ /\ Current(p.job) /\ p.leader = "ok" /\ rep.await
            /\ preview' = [generation |-> g, payload |-> p.data]
            /\ \E b \in Binaries :
                 LET asking == [r EXCEPT !.await = FALSE, !.binary = b,
                                         !.phase = "awaiting_confirmation"]
                     prompt == [generation |-> g, payload |-> p.data, binary |-> b]
                 IN  \/ Accept({p}, asking, prompt) /\ UNCHANGED asks
                     \/ Cancel({p}, asking) /\ UNCHANGED asks
                     \/ /\ rep' = asking
                        /\ asks' = asks \cup {prompt}
                        /\ Continue({p}, {})
                        /\ UNCHANGED consent
            /\ UNCHANGED <<outputs, suggested, quit>>

(* The answer to a prompt that was left open. *)
Answer(prompt) ==
  /\ ~quit
  /\ asks' = asks \ {prompt}
  /\ IF Current(prompt) /\ rep.phase = "awaiting_confirmation"
       THEN \/ Accept({}, rep, prompt)
            \/ Cancel({}, rep)
       ELSE UNCHANGED <<rep, procs, consent>>
  /\ UNCHANGED <<outputs, preview, suggested, quit>>

(* Mutant: suggestions that fail validation leave the phase behind. *)
RejectKeepingPhase(r) == [r EXCEPT !.job = None]

(* The output of Codex is refused. *)
Reject(r) == [r EXCEPT !.job = None, !.phase = None]

(* Mutant: Codex's output is rendered unread. *)
CompleteCodexUnread(p) ==
  /\ p.job.kind = "codex" /\ CanComplete(p)
  /\ LET render == Process(p.job.generation, "suggestions", p.payload, p.data, None)
     IN  IF ~Current(p.job) \/ rep.phase # "codex"
           THEN Ignored(p)
           ELSE /\ p.leader = "ok"
                /\ rep' = [rep EXCEPT !.phase = "rendering_suggestions", !.job = render.job]
                /\ Continue({p}, {render})
                /\ UNCHANGED <<asks, quit, seen>>

(* The suggestions must fit the payload the user confirmed, which the      *)
(* callback closed over; then they are rendered from the current summary.  *)
CompleteCodex(p) ==
  /\ p.job.kind = "codex" /\ CanComplete(p)
  /\ LET render == Process(p.job.generation, "suggestions", p.payload, p.data, None)
     IN  IF ~Current(p.job) \/ rep.phase # "codex"
           THEN Ignored(p)
           ELSE /\ \/ rep' = Reject(rep) /\ Continue({p}, {})
                   \/ /\ p.leader = "ok" /\ p.data = p.payload
                      /\ rep' = [rep EXCEPT !.phase = "rendering_suggestions", !.job = render.job]
                      /\ Continue({p}, {render})
                /\ UNCHANGED <<asks, quit, seen>>

CompleteSuggestions(p) ==
  /\ p.job.kind = "suggestions" /\ CanComplete(p)
  /\ IF ~Current(p.job) \/ rep.phase # "rendering_suggestions"
       THEN Ignored(p)
       ELSE /\ rep' = [rep EXCEPT !.job = None, !.phase = None]
            /\ Continue({p}, {})
            /\ suggested' = IF p.leader = "ok" THEN [generation |-> p.job.generation, payload |-> p.data]
                                               ELSE suggested
            /\ UNCHANGED <<asks, outputs, preview, consent, quit>>

Callback(p) ==
  CompleteReport(p) \/ CompletePreview(p) \/ CompleteCodex(p) \/ CompleteSuggestions(p)

-----------------------------------------------------------------------------
Next ==
  \/ Start \/ Analyze \/ Shutdown \/ Quit \/ OtherAnalyzer
  \/ \E prompt \in asks : Answer(prompt)
  \/ \E p \in procs : \/ Work(p) \/ OtherStep(p) \/ LeaderExits(p)
                      \/ Deadline(p) \/ Monitor(p) \/ Callback(p)

Spec == Init /\ [][Next]_vars

(* Neovim's event loop runs its timers and callbacks.  Nothing is assumed  *)
(* of the processes, nor of the user.                                      *)
FairSpec ==
  /\ Spec
  /\ WF_vars(\E p \in procs : Deadline(p))
  /\ WF_vars(\E p \in procs : Monitor(p))
  /\ WF_vars(\E p \in procs : Callback(p))

-----------------------------------------------------------------------------
(* A process group that is still alive is the job :KeyInsightsStatus shows: *)
(* none outlives its callback, a shutdown or Neovim, and no late callback   *)
(* makes the report forget the job that came after its own.                 *)
LiveGroupIsTheJob == \A p \in procs : Alive(p) => p.job = rep.job /\ ~quit

(* Codex only ever gets the payload of the preview shown last, in the       *)
(* generation that is current, from the executable the prompt named, after  *)
(* the user said yes to exactly that.                                       *)
CodexSendsTheShownPreview ==
  \A p \in procs :
    p.job.kind = "codex" /\ Alive(p) =>
      /\ preview = [generation |-> rep.generation, payload |-> p.payload]
      /\ [generation |-> rep.generation, payload |-> p.payload, binary |-> p.binary] \in consent

(* Suggestions are shown for the analysis that is current, they fit the     *)
(* payload its user confirmed, and whatever was published meanwhile they    *)
(* are not shown for another.                                               *)
SuggestionsFitConsent ==
  [][ suggested' # suggested =>
        /\ suggested'.generation = rep.generation
        /\ \E c \in consent : /\ c.generation = rep.generation
                              /\ c.payload = suggested'.payload
                              /\ c.payload = preview.payload ]_vars

(* Every job ends, though its process hangs or leaves a process behind that *)
(* holds its pipes: only a prompt waits for ever.                           *)
Busy == rep.job # None \/ rep.phase \in {"codex", "rendering_suggestions"}
EveryJobEnds == Busy ~> ~Busy \/ quit
=============================================================================
