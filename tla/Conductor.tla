------------------------------ MODULE Conductor ------------------------------
(***************************************************************************)
(* The Conductor's mission loop (agent-runner/conductor.py: finalize,      *)
(* run_and_verify, execute_dag, wait_terminal, resume_mission) together    *)
(* with the worker processes it spawns (agent-runner/conductor_worker.py)  *)
(* and the two tables they share (agent-runner/conductor_db.py).           *)
(*                                                                         *)
(* One mission, one Conductor process that may die and be resumed, any     *)
(* number of worker processes.  Every database statement commits on its    *)
(* own (autocommit), so a loop over rows is one step per row and the       *)
(* workers interleave with it.  A worker's result is abstracted to a kind; *)
(* `of' records the attempt whose worker produced it.                      *)
(***************************************************************************)
EXTENDS Naturals, FiniteSets, FiniteSetsExt

CONSTANTS
  Subtasks,          \* the plan's subtasks, numbered in creation order
  DependsOn,         \* depends_on, the edges of the plan's DAG
  Workers,           \* worker processes the run may create (a bound)
  MaxReplans,        \* policy.max_replans
  MaxResumes,        \* how often a human runs --resume (a bound)
  OnExhausted,       \* policy.on_exhausted: "escalate" or "partial"
  GateBeforeReport,  \* which of AllModes ran with CONDUCTOR_GATE_BEFORE_REPORT
  Faults             \* which of AllFaults the environment shows

AllFaults ==
  {"crash",      \* the Conductor process dies
   "raise",      \* an exception reaches the handler of run_mission or resume_mission
   "die",        \* a worker process dies without writing
   "workspace",  \* git refuses the worktree (WorkspaceError)
   "gone",       \* the worktree vanishes after dispatch
   "fallback",   \* substrate spawn fails: the worker is a subprocess
   "kill"}       \* substrate kill fails; stop_worker swallows it

\* The first process of a mission, and those that pick it up with --resume.
AllModes == {"run", "resume"}

ASSUME SubtasksAssumption == Subtasks \subseteq Nat \ {0} /\ Subtasks # {}
ASSUME DependsOnAssumption == DependsOn \in [Subtasks -> SUBSET Subtasks]
ASSUME MaxReplansAssumption == MaxReplans \in Nat
ASSUME MaxResumesAssumption == MaxResumes \in Nat
ASSUME PolicyAssumption ==
  /\ OnExhausted \in {"escalate", "partial"}
  /\ GateBeforeReport \subseteq AllModes
  /\ Faults \subseteq AllFaults

\* The pane the Conductor itself runs in.
ConductorPane == "conductor"
ASSUME PaneAssumption == ConductorPane \notin Workers

VARIABLES
  mission,      \* agents.missions: [status, replan_count, verdict]
  subs,         \* agents.mission_subtasks: [status, attempt, result]
  pc, mode,     \* where the Conductor is; "run" or "resume"
  rnd,          \* run_and_verify's round
  todo,         \* rows the current loop has yet to visit
  waiting,      \* wait_terminal's pending set
  failed, gone, blocked, prevBlocked,  \* run_and_verify's locals
  passed,       \* what run_and_verify returned
  worker,       \* the worker processes
  registry,     \* ~/.tmux/registry: which pane carries which worker name
  resumes,      \* how often the mission was resumed
  dispatched,   \* history: the (subtask, attempt) pairs ever spawned
  everDone,     \* history: subtasks that ever had a done result
  filed         \* what report() filed outside the database

local == <<mode, rnd, todo, waiting, failed, gone, blocked, prevBlocked, passed>>
history == <<resumes, dispatched, everDone, filed>>
fleet == <<worker, registry>>
vars == <<mission, subs, pc, local, fleet, history>>

-----------------------------------------------------------------------------
(* Rows.                                                                   *)

MissionStatus == {"planning", "dispatched", "verifying", "synthesizing",
                  "done", "failed", "partial", "escalated", "gated"}
\* The statuses resume_mission refuses to pick up.
Terminal == {"done", "failed", "partial"}
SubtaskStatus == {"absent", "pending", "running", "done", "blocked", "error"}
WorkerKinds == {"ok", "error", "blocked", "gone"}
Kinds == WorkerKinds \cup {"none", "timeout", "workspace"}

NoResult == [kind |-> "none", of |-> 0]
\* The status column a worker writes for a result of each kind.
StatusOf(kind) ==
  CASE kind = "ok" -> "done"
    [] kind = "blocked" -> "blocked"
    [] OTHER -> "error"

Rows == {s \in Subtasks : subs[s].status # "absent"}
Status(st) == {s \in Subtasks : subs[s].status = st}
NotDone == Rows \ Status("done")
TerminalRow(s) == subs[s].status \in {"done", "error", "blocked"}

\* list_subtasks returns rows in creation order.
First(s, S) == s \in S /\ \A t \in S : s <= t
SetStatus(s, st) == subs' = [subs EXCEPT ![s].status = st]
SetResult(s, kind, of) ==
  subs' = [subs EXCEPT ![s] = [@ EXCEPT !.status = StatusOf(kind),
                                        !.result = [kind |-> kind, of |-> of]]]

-----------------------------------------------------------------------------
(* run_mission's tail: persist the plan, one row per subtask.              *)

PersistPlan ==
  /\ pc = "plan"
  /\ mission' = [mission EXCEPT !.status = "dispatched"]
  /\ pc' = "create"
  /\ todo' = Subtasks
  /\ UNCHANGED <<subs, mode, rnd, waiting, failed, gone, blocked, prevBlocked,
                 passed, fleet, history>>

CreateSubtask ==
  /\ pc = "create"
  /\ \E s \in todo :
       /\ First(s, todo)
       /\ todo' = todo \ {s}
       /\ subs' = [subs EXCEPT ![s] =
                     [status |-> "pending", attempt |-> 0, result |-> NoResult]]
       /\ pc' = IF todo = {s} THEN "round" ELSE "create"
  /\ UNCHANGED <<mission, mode, rnd, waiting, failed, gone, blocked,
                 prevBlocked, passed, fleet, history>>

-----------------------------------------------------------------------------
(* run_and_verify: one iteration of the round loop.                        *)

\* The rows a round starts over.
Redo == NotDone

StartRound ==
  /\ pc = "round"
  /\ todo' = Redo
  /\ pc' = "reset"
  /\ UNCHANGED <<mission, subs, mode, rnd, waiting, failed, gone, blocked,
                 prevBlocked, passed, fleet, history>>

\* (bug: a retry keeps the attempt number)
NextAttempt_Kept(a) == a
NextAttempt(a) == a + 1

ResetSubtask ==
  /\ pc = "reset"
  /\ \E s \in todo :
       /\ First(s, todo)
       /\ todo' = todo \ {s}
       /\ subs' = [subs EXCEPT ![s].status = "pending",
                               ![s].attempt = NextAttempt(@)]
  /\ UNCHANGED <<mission, pc, mode, rnd, waiting, failed, gone, blocked,
                 prevBlocked, passed, fleet, history>>

BeginDag ==
  /\ pc = "reset"
  /\ todo = {}
  /\ mission' = [mission EXCEPT !.status = "dispatched", !.replan_count = rnd]
  /\ pc' = "wave"
  /\ UNCHANGED <<subs, local, fleet, history>>

-----------------------------------------------------------------------------
(* execute_dag: waves of ready subtasks.                                   *)

\* (bug: depends_on is not consulted)
Ready_Unordered == Status("pending")
Ready == {s \in Status("pending") : DependsOn[s] \subseteq Status("done")}

ReadyWave ==
  /\ pc = "wave"
  /\ Ready # {}
  /\ todo' = Ready
  /\ waiting' = Ready
  /\ pc' = "spawn"
  /\ UNCHANGED <<mission, subs, mode, rnd, failed, gone, blocked, prevBlocked,
                 passed, fleet, history>>

\* ensure_workspace succeeds and spawn_worker starts a process for the row,
\* in a pane of its own or, when substrate spawn fails, as a subprocess that
\* inherits the Conductor's pane.
Spawn(s, w, pane) ==
  /\ worker[w].pc = "idle"
  /\ pane = w => \A e \in registry : e.pane # w   \* a pane of its own is new
  /\ pane = ConductorPane => "fallback" \in Faults
  /\ worker' = [worker EXCEPT ![w] = [pc |-> "spawned", sub |-> s, attempt |-> 0,
                                      kind |-> "none", pane |-> pane]]
  /\ dispatched' = dispatched \cup {<<s, subs[s].attempt>>}
  /\ UNCHANGED subs

\* WorkspaceError: the row ends in error and no worker is spawned.
RefuseWorkspace(s) ==
  /\ "workspace" \in Faults
  /\ SetResult(s, "workspace", subs[s].attempt)
  /\ UNCHANGED <<worker, dispatched>>

Dispatch ==
  /\ pc = "spawn"
  /\ \E s \in todo :
       /\ First(s, todo)
       /\ todo' = todo \ {s}
       /\ \/ \E w \in Workers : \E pane \in {w, ConductorPane} : Spawn(s, w, pane)
          \/ RefuseWorkspace(s)
       /\ pc' = IF todo = {s} THEN "wait" ELSE "spawn"
  /\ UNCHANGED <<mission, mode, rnd, waiting, failed, gone, blocked,
                 prevBlocked, passed, registry, resumes, everDone, filed>>

-----------------------------------------------------------------------------
(* wait_terminal: poll the wave until every row is terminal or too late.   *)

Gather ==
  /\ pc = "wait"
  /\ \E s \in waiting :
       /\ TerminalRow(s)
       /\ waiting' = waiting \ {s}
  /\ UNCHANGED <<mission, subs, pc, mode, rnd, todo, failed, gone, blocked,
                 prevBlocked, passed, fleet, history>>

\* (bug: only a row that started can be late)
Late_Running(s) == subs[s].status = "running"
Late(s) == ~TerminalRow(s)

\* The poll read a row that is not terminal and whose deadline has passed.
Expire ==
  /\ pc = "wait"
  /\ \E s \in waiting :
       /\ Late(s)
       /\ waiting' = waiting \ {s}
       /\ todo' = {s}
  /\ pc' = "stop"
  /\ UNCHANGED <<mission, subs, mode, rnd, failed, gone, blocked, prevBlocked,
                 passed, fleet, history>>

\* worker_pane: the newest registry entry under the subtask's worker name.
WorkerPane(s) ==
  LET named == {e \in registry : e.sub = s}
  IN  {e \in named : \A f \in named : f.at <= e.at}

Forget(pane) == {e \in registry : e.pane # pane}
Exited == [pc |-> "idle", sub |-> 0, attempt |-> 0, kind |-> "none", pane |-> ConductorPane]
Fresh == /\ mode' = "run" /\ rnd' = 0 /\ todo' = {} /\ waiting' = {} /\ failed' = {}
         /\ gone' = FALSE /\ blocked' = {} /\ prevBlocked' = {} /\ passed' = FALSE

\* stop_worker: kill and deregister that pane, best effort.  The pane may be
\* the Conductor's own, when the worker was a subprocess of it.
StopWorker ==
  /\ pc = "stop"
  /\ \E s \in todo :
       \/ /\ WorkerPane(s) = {}
          /\ pc' = "timeout"
          /\ UNCHANGED <<local, fleet>>
       \/ \E e \in WorkerPane(s) :
            /\ registry' = Forget(e.pane)
            /\ \/ /\ e.pane \in Workers
                  /\ worker' = [worker EXCEPT ![e.pane] = Exited]
                  /\ pc' = "timeout"
                  /\ UNCHANGED local
               \/ /\ e.pane = ConductorPane
                  /\ pc' = "off"
                  /\ Fresh
                  /\ UNCHANGED worker
               \/ /\ "kill" \in Faults
                  /\ pc' = "timeout"
                  /\ UNCHANGED <<worker, local>>
  /\ UNCHANGED <<mission, subs, history>>

\* The row is set to error whatever it holds by now.
TimeOut ==
  /\ pc = "timeout"
  /\ \E s \in todo : SetResult(s, "timeout", subs[s].attempt)
  /\ todo' = {}
  /\ pc' = "wait"
  /\ UNCHANGED <<mission, mode, rnd, waiting, failed, gone, blocked,
                 prevBlocked, passed, fleet, history>>

WaveOver ==
  /\ pc = "wait"
  /\ waiting = {}
  /\ pc' = "wave"
  /\ UNCHANGED <<mission, subs, local, fleet, history>>

\* No row is ready: whatever is still pending has unsatisfiable dependencies.
NoWave ==
  /\ pc = "wave"
  /\ Ready = {}
  /\ todo' = Status("pending")
  /\ pc' = "block"
  /\ UNCHANGED <<mission, subs, mode, rnd, waiting, failed, gone, blocked,
                 prevBlocked, passed, fleet, history>>

\* The status changes; an earlier attempt's result stays in the row.
BlockSubtask ==
  /\ pc = "block"
  /\ \E s \in todo :
       /\ First(s, todo)
       /\ todo' = todo \ {s}
       /\ SetStatus(s, "blocked")
  /\ UNCHANGED <<mission, pc, mode, rnd, waiting, failed, gone, blocked,
                 prevBlocked, passed, fleet, history>>

-----------------------------------------------------------------------------
(* run_and_verify: verdict and re-plan.                                    *)

Collect ==
  /\ pc = "block"
  /\ todo = {}
  /\ failed' = NotDone
  /\ gone' = (\E s \in NotDone : subs[s].result.kind = "gone")
  /\ blocked' = {s \in NotDone : /\ subs[s].status = "blocked"
                                 /\ subs[s].result.kind # "none"}
  /\ mission' = [mission EXCEPT !.status = "verifying"]
  /\ pc' = "verify"
  /\ UNCHANGED <<subs, mode, rnd, todo, waiting, prevBlocked, passed, fleet, history>>

\* (bug: the reviewers may pass a mission with failed subtasks)
MayPass_Always == TRUE
\* A mission with a failed subtask is never put before the reviewers.
MayPass == failed = {}

\* (bug: the verdict is not written to the mission row)
Verdict_Unsaved(pass) ==
  /\ pc = "verify"
  /\ pass => MayPass
  /\ passed' = pass
  /\ pc' = IF pass THEN "synthesize" ELSE "replan?"
  /\ UNCHANGED <<mission, subs, mode, rnd, todo, waiting, failed, gone, blocked,
                 prevBlocked, fleet, history>>

Verdict(pass) ==
  /\ pc = "verify"
  /\ pass => MayPass
  /\ mission' = [mission EXCEPT !.verdict = IF pass THEN "pass" ELSE "fail"]
  /\ passed' = pass
  /\ pc' = IF pass THEN "synthesize" ELSE "replan?"
  /\ UNCHANGED <<subs, mode, rnd, todo, waiting, failed, gone, blocked,
                 prevBlocked, fleet, history>>

\* Re-planning cannot help: a worktree is gone, or the same subtasks were
\* blocked in the round before.
Hopeless == gone \/ (blocked # {} /\ blocked = prevBlocked)
MoreRounds == rnd < MaxReplans

GiveUp ==
  /\ pc = "replan?"
  /\ Hopeless \/ ~MoreRounds
  /\ pc' = "exhausted"
  /\ UNCHANGED <<mission, subs, local, fleet, history>>

Replan ==
  /\ pc = "replan?"
  /\ ~Hopeless
  /\ MoreRounds
  /\ prevBlocked' = blocked
  /\ todo' = IF failed = {} THEN Rows ELSE failed
  /\ pc' = "replan"
  /\ UNCHANGED <<mission, subs, mode, rnd, waiting, failed, gone, blocked,
                 passed, fleet, history>>

ReplanSubtask ==
  /\ pc = "replan"
  /\ \E s \in todo :
       /\ First(s, todo)
       /\ todo' = todo \ {s}
       /\ SetStatus(s, "pending")
  /\ UNCHANGED <<mission, pc, mode, rnd, waiting, failed, gone, blocked,
                 prevBlocked, passed, fleet, history>>

NextRound ==
  /\ pc = "replan"
  /\ todo = {}
  /\ rnd' = rnd + 1
  /\ pc' = "round"
  /\ UNCHANGED <<mission, subs, mode, todo, waiting, failed, gone, blocked,
                 prevBlocked, passed, fleet, history>>

-----------------------------------------------------------------------------
(* finalize: escalate, gate, or synthesize and report.                     *)

Finish(status) ==
  /\ mission' = [mission EXCEPT !.status = status]
  /\ pc' = "off"
  /\ Fresh

Escalate ==
  /\ pc = "exhausted"
  /\ OnExhausted = "escalate"
  /\ Finish("escalated")
  /\ UNCHANGED <<subs, fleet, history>>

Synthesize ==
  /\ \/ pc = "synthesize"
     \/ pc = "exhausted" /\ OnExhausted = "partial"
  /\ mission' = [mission EXCEPT !.status = "synthesizing"]
  /\ pc' = "report"
  /\ UNCHANGED <<subs, local, fleet, history>>

\* (bug: a held mission is finished as if it had been reported)
Gate_Done ==
  /\ pc = "report"
  /\ mode \in GateBeforeReport
  /\ Finish("done")
  /\ UNCHANGED <<subs, fleet, history>>

\* _gate: commit the branches, file nothing.
Gate ==
  /\ pc = "report"
  /\ mode \in GateBeforeReport
  /\ Finish("gated")
  /\ UNCHANGED <<subs, fleet, history>>

\* report(): a ready merge request when verified, a draft otherwise.
Report ==
  /\ pc = "report"
  /\ mode \notin GateBeforeReport
  /\ filed' = IF passed THEN [filed EXCEPT !.ready = @ + 1]
                        ELSE [filed EXCEPT !.draft = @ + 1]
  /\ pc' = "finish"
  /\ UNCHANGED <<mission, subs, local, fleet, resumes, dispatched, everDone>>

Close ==
  /\ pc = "finish"
  /\ Finish(IF passed THEN "done" ELSE "partial")
  /\ UNCHANGED <<subs, fleet, history>>

-----------------------------------------------------------------------------
(* Failure and resumption of the Conductor.                                *)

Crash ==
  /\ "crash" \in Faults
  /\ pc # "off"
  /\ pc' = "off"
  /\ Fresh
  /\ UNCHANGED <<mission, subs, fleet, history>>

\* run_mission's handler marks the mission failed; resume_mission's leaves
\* the row as it is.
Raise ==
  /\ "raise" \in Faults
  /\ pc # "off"
  /\ mission' = IF mode = "run" THEN [mission EXCEPT !.status = "failed"] ELSE mission
  /\ pc' = "off"
  /\ Fresh
  /\ UNCHANGED <<subs, fleet, history>>

\* What comes after finish_mission, the event and the card, may raise as well:
\* run_mission's handler then marks the mission failed that had settled.
RaiseAfter ==
  /\ "raise" \in Faults
  /\ pc = "off" /\ resumes = 0
  /\ mission.status \in {"done", "partial", "escalated", "gated"}
  /\ mission' = [mission EXCEPT !.status = "failed"]
  /\ UNCHANGED <<subs, pc, local, fleet, history>>

MayResume == mission.status \notin Terminal /\ Rows # {}

Resume ==
  /\ pc = "off"
  /\ MayResume
  /\ resumes < MaxResumes
  /\ resumes' = resumes + 1
  /\ mode' = "resume"
  /\ todo' = Status("running")
  /\ pc' = "requeue"
  /\ UNCHANGED <<mission, subs, rnd, waiting, failed, gone, blocked,
                 prevBlocked, passed, fleet, dispatched, everDone, filed>>

RequeueSubtask ==
  /\ pc = "requeue"
  /\ \E s \in todo :
       /\ First(s, todo)
       /\ todo' = todo \ {s}
       /\ SetStatus(s, "pending")
  /\ UNCHANGED <<mission, pc, mode, rnd, waiting, failed, gone, blocked,
                 prevBlocked, passed, fleet, history>>

\* (bug: the persisted replan_count is not passed on)
StartRoundOf_Zero == 0
StartRoundOf == mission.replan_count

Resumed ==
  /\ pc = "requeue"
  /\ todo = {}
  /\ rnd' = StartRoundOf
  /\ pc' = "round"
  /\ UNCHANGED <<mission, subs, mode, todo, waiting, failed, gone, blocked,
                 prevBlocked, passed, fleet, history>>

-----------------------------------------------------------------------------
(* conductor_worker.py: main().                                            *)

\* Read the row: its attempt is what the worker believes it works for.
WorkerStart(w) ==
  /\ worker[w].pc = "spawned"
  /\ worker' = [worker EXCEPT ![w].pc = "started",
                              ![w].attempt = subs[worker[w].sub].attempt]
  /\ UNCHANGED <<mission, subs, pc, local, registry, history>>

Stamp == Max({e.at : e \in registry} \cup {0}) + 1

WorkerRegister(w) ==
  LET s == worker[w].sub  p == worker[w].pane IN
  /\ worker[w].pc = "started"
  /\ worker' = [worker EXCEPT ![w].pc = "registered"]
  /\ registry' = Forget(p) \cup {[pane |-> p, sub |-> s, at |-> Stamp]}
  /\ UNCHANGED <<mission, subs, pc, local, history>>

\* The row is set to running whatever it holds.
WorkerRun(w) ==
  /\ worker[w].pc = "registered"
  /\ worker' = [worker EXCEPT ![w].pc = "working"]
  /\ SetStatus(worker[w].sub, "running")
  /\ UNCHANGED <<mission, pc, local, registry, history>>

\* run_worker returns a result; the worker deregisters its pane.
WorkerFinish(w, kind) ==
  /\ worker[w].pc = "working"
  /\ kind = "gone" => "gone" \in Faults
  /\ worker' = [worker EXCEPT ![w].pc = "finished", ![w].kind = kind]
  /\ registry' = Forget(worker[w].pane)
  /\ UNCHANGED <<mission, subs, pc, local, history>>

\* result_is_stale: the row belongs to a later attempt or was timed out.
ResultIsStale(w) ==
  LET row == subs[worker[w].sub]
  IN  \/ row.attempt # worker[w].attempt
      \/ row.status = "error" /\ row.result.kind = "timeout"

\* A stale result is logged, not applied.
WorkerCheck(w) ==
  /\ worker[w].pc = "finished"
  /\ worker' = [worker EXCEPT ![w] = IF ResultIsStale(w) THEN Exited
                                     ELSE [@ EXCEPT !.pc = "fresh"]]
  /\ UNCHANGED <<mission, subs, pc, local, registry, history>>

\* The write is a second statement, after the check.
WorkerWrite(w) ==
  LET s == worker[w].sub IN
  /\ worker[w].pc = "fresh"
  /\ SetResult(s, worker[w].kind, worker[w].attempt)
  /\ everDone' = IF worker[w].kind = "ok" THEN everDone \cup {s} ELSE everDone
  /\ worker' = [worker EXCEPT ![w] = Exited]
  /\ UNCHANGED <<mission, pc, local, registry, resumes, dispatched, filed>>

\* The process dies and leaves its registry entry behind.
WorkerDie(w) ==
  /\ "die" \in Faults
  /\ worker[w].pc # "idle"
  /\ worker' = [worker EXCEPT ![w] = Exited]
  /\ UNCHANGED <<mission, subs, pc, local, registry, history>>

-----------------------------------------------------------------------------
Init ==
  /\ mission = [status |-> "planning", replan_count |-> 0, verdict |-> "none"]
  /\ subs = [s \in Subtasks |-> [status |-> "absent", attempt |-> 0, result |-> NoResult]]
  /\ pc = "plan"
  /\ mode = "run" /\ rnd = 0 /\ todo = {} /\ waiting = {} /\ failed = {}
  /\ gone = FALSE /\ blocked = {} /\ prevBlocked = {} /\ passed = FALSE
  /\ worker = [w \in Workers |-> Exited]
  /\ registry = {}
  /\ resumes = 0 /\ dispatched = {} /\ everDone = {}
  /\ filed = [ready |-> 0, draft |-> 0]

\* What the Conductor process does when it is scheduled.
ConductorStep ==
  \/ PersistPlan \/ CreateSubtask
  \/ StartRound \/ ResetSubtask \/ BeginDag
  \/ ReadyWave \/ Dispatch \/ Gather \/ Expire \/ StopWorker \/ TimeOut \/ WaveOver
  \/ NoWave \/ BlockSubtask
  \/ Collect \/ (\E p \in BOOLEAN : Verdict(p)) \/ GiveUp
  \/ Replan \/ ReplanSubtask \/ NextRound
  \/ Escalate \/ Synthesize \/ Gate \/ Report \/ Close
  \/ RequeueSubtask \/ Resumed

WorkerStep(w) ==
  \/ WorkerStart(w) \/ WorkerRegister(w) \/ WorkerRun(w)
  \/ \E k \in WorkerKinds : WorkerFinish(w, k)
  \/ WorkerCheck(w) \/ WorkerWrite(w) \/ WorkerDie(w)

Next ==
  \/ ConductorStep
  \/ Crash \/ Raise \/ RaiseAfter \/ Resume
  \/ \E w \in Workers : WorkerStep(w)

Spec == Init /\ [][Next]_vars

\* The Conductor process is scheduled and its deadlines pass; workers may
\* hang for ever and nobody has to resume anything.
FairSpec == Spec /\ WF_vars(ConductorStep)

-----------------------------------------------------------------------------
Locations == {"plan", "create", "round", "reset", "wave", "spawn", "wait", "stop",
              "timeout", "block", "verify", "replan?", "replan", "exhausted",
              "synthesize", "report", "finish", "requeue", "off"}
Panes == Workers \cup {ConductorPane}
MissionRow == [status : MissionStatus, replan_count : Nat, verdict : {"none", "pass", "fail"}]
Result == [kind : Kinds, of : Nat]
SubtaskRow == [status : SubtaskStatus, attempt : Nat, result : Result]
Process == [pc : {"idle", "spawned", "started", "registered", "working", "finished", "fresh"},
            sub : Subtasks \cup {0}, attempt : Nat, kind : Kinds, pane : Panes]

\* Every variable has its type; a process that is not idle works for a subtask.
TypeOK ==
  /\ mission \in MissionRow
  /\ subs \in [Subtasks -> SubtaskRow]
  /\ pc \in Locations
  /\ mode \in {"run", "resume"}
  /\ rnd \in Nat
  /\ todo \in SUBSET Subtasks /\ waiting \in SUBSET Subtasks
  /\ failed \in SUBSET Subtasks
  /\ blocked \in SUBSET Subtasks /\ prevBlocked \in SUBSET Subtasks
  /\ gone \in BOOLEAN /\ passed \in BOOLEAN
  /\ worker \in [Workers -> Process]
  /\ \A w \in Workers : worker[w].pc # "idle" => worker[w].sub \in Subtasks
  /\ \A e \in registry : e.pane \in Panes /\ e.sub \in Subtasks
  /\ resumes \in Nat
  /\ dispatched \subseteq Subtasks \X Nat
  /\ everDone \subseteq Subtasks
  /\ filed \in [ready : Nat, draft : Nat]

\* run_and_verify bumps `attempt' before a row is dispatched again, also when
\* a crashed Conductor is resumed with its workers still alive: no attempt is
\* ever given to two spawned workers (conductor.py 1521-1523, 2408-2410).
DispatchOncePerAttempt ==
  [][\A w \in Workers :
        worker[w].pc = "idle" /\ worker'[w].pc = "spawned"
          => <<worker'[w].sub, subs[worker'[w].sub].attempt>> \notin dispatched]_vars

\* execute_dag spawns a subtask only after each of its dependencies has
\* delivered a done result, however waves, retries, late workers and resumed
\* Conductors interleave (conductor.py 917-919).
DependenciesFirst == \A d \in dispatched : DependsOn[d[1]] \subseteq everDone

\* The retry budget: a subtask is spawned at most once in each of the
\* max_replans + 1 rounds, and once more for each --resume, which starts again
\* at replan_count even when it died after bumping attempts for the next
\* round (conductor.py 1517-1524, 2412).
DispatchBudget ==
  \A s \in Subtasks :
    Cardinality({d \in dispatched : d[1] = s}) <= MaxReplans + 1 + resumes

\* A merge request that reads as ready is filed only by a run whose own
\* verification passed with every subtask done; a run that ran out of
\* re-plans files a draft (conductor.py 2279-2304).
NeverFalseReady ==
  [][filed'.ready # filed.ready => mission.verdict = "pass" /\ failed = {}]_vars

\* The status a mission settles in agrees with the verdict stored beside it,
\* also after an earlier run of it left another verdict in the row.
SettledMatchesVerdict ==
  /\ mission.status = "done" => mission.verdict = "pass"
  /\ mission.status \in {"partial", "escalated"} => mission.verdict = "fail"

\* done, failed and partial are final: no Conductor step, no resume and no
\* late worker changes the mission row again (conductor.py 2398), but that what
\* raises after it was written marks a mission failed that nobody resumed (2376).
TerminalIsFinal ==
  [][mission.status \in Terminal =>
       mission' = mission \/ (resumes = 0 /\ mission' = [mission EXCEPT !.status = "failed"])]_vars

\* What readers of agents.missions are promised: see MissionLifecycle.
Lifecycle == INSTANCE MissionLifecycle
             WITH status <- mission.status, replan_count <- mission.replan_count,
                  verdict <- mission.verdict

\* The Conductor, its workers, crashes and resumptions implement the mission
\* lifecycle: rounds grow by one and only after a failed verdict, never past
\* max_replans, and every filing and final status agrees with the verdict.
ImplementsLifecycle == Lifecycle!Spec

\* Every run of the Conductor ends, whatever its workers do: a worker that
\* hangs, dies or is never heard of cannot keep it waiting (conductor.py
\* 875-897).
RunEnds == pc # "off" ~> pc = "off"

-----------------------------------------------------------------------------
(* A statement of the repository's own text that the code does not keep.   *)

\* "Pick a non-terminal mission back up from DB state (state is fully
\* persisted)" (conductor.py 2389): a resumed mission that ends done has done
\* every subtask of its plan.
WholePlanDone == mission.status = "done" => Rows = Subtasks
=============================================================================
