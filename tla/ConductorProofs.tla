--------------------------- MODULE ConductorProofs --------------------------
(***************************************************************************)
(* What holds of Conductor for every plan, every number of workers and     *)
(* re-plans, and every combination of the modelled faults.                 *)
(***************************************************************************)
EXTENDS ConductorInv, FiniteSetTheorems, TLAPS

\* A worker's result kind always maps to one of the row's statuses.
LEMMA StatusOfType == \A kind : StatusOf(kind) \in {"done", "blocked", "error"}
BY DEF StatusOf

\* Writing a result or a status keeps the rows well formed.
LEMMA SetResultType ==
  ASSUME TypeOK, NEW s \in Subtasks, NEW kind \in Kinds, NEW of \in Nat,
         SetResult(s, kind, of)
  PROVE  subs' \in [Subtasks -> SubtaskRow]
<1>1. StatusOf(kind) \in SubtaskStatus
  BY StatusOfType DEF SubtaskStatus
<1> DEFINE result == [kind |-> kind, of |-> of]
<1>2. result \in Result
  BY DEF Result
<1>3. subs \in [Subtasks -> SubtaskRow] /\ subs[s] \in SubtaskRow
  BY DEF TypeOK
<1>4. [subs[s] EXCEPT !.status = StatusOf(kind), !.result = result] \in SubtaskRow
  BY <1>1, <1>2, <1>3 DEF SubtaskRow
<1> QED
  BY <1>3, <1>4 DEF SetResult

LEMMA SetStatusType ==
  ASSUME TypeOK, NEW s \in Subtasks, NEW st \in SubtaskStatus, SetStatus(s, st)
  PROVE  subs' \in [Subtasks -> SubtaskRow]
BY DEF TypeOK, SetStatus, SubtaskRow

\* The initial state is well typed.
LEMMA InitType == Init => TypeOK
<1> SUFFICES ASSUME Init PROVE TypeOK
  OBVIOUS
<1>1. mission \in MissionRow
  BY DEF Init, MissionRow, MissionStatus
<1>2. subs \in [Subtasks -> SubtaskRow]
  BY DEF Init, SubtaskRow, SubtaskStatus, Result, NoResult, Kinds
<1>3. /\ worker \in [Workers -> Process]
      /\ \A w \in Workers : worker[w].pc = "idle"
  BY DEF Init, Process, Exited, Kinds, Panes
<1>4. filed \in [ready : Nat, draft : Nat]
  BY DEF Init
<1> QED
  BY <1>1, <1>2, <1>3, <1>4 DEF Init, TypeOK, Locations

\* Every step keeps every variable in its type.
LEMMA NextType == TypeOK /\ [Next]_vars => TypeOK'
<1> SUFFICES ASSUME TypeOK, [Next]_vars PROVE TypeOK'
  OBVIOUS
<1> USE DEF local, fleet, history
<1>1. CASE PersistPlan
  BY <1>1 DEF TypeOK, PersistPlan, MissionRow, MissionStatus, Locations
<1>2. CASE CreateSubtask
  <2>1. subs' \in [Subtasks -> SubtaskRow]
    BY <1>2 DEF TypeOK, CreateSubtask, SubtaskRow, SubtaskStatus, NoResult, Result, Kinds
  <2> QED BY <1>2, <2>1 DEF TypeOK, CreateSubtask, Locations
<1>3. CASE StartRound
  BY <1>3 DEF TypeOK, StartRound, Redo, NotDone, Rows, Status, Locations
<1>4. CASE ResetSubtask
  <2>1. subs' \in [Subtasks -> SubtaskRow]
    BY <1>4 DEF TypeOK, ResetSubtask, SubtaskRow, SubtaskStatus, NextAttempt
  <2> QED BY <1>4, <2>1 DEF TypeOK, ResetSubtask
<1>5. CASE BeginDag
  BY <1>5 DEF TypeOK, BeginDag, MissionRow, MissionStatus, Locations
<1>6. CASE ReadyWave
  BY <1>6 DEF TypeOK, ReadyWave, Ready, Status, Locations
<1>7. CASE Dispatch
  <2> PICK s \in todo :
        /\ todo' = todo \ {s}
        /\ \/ \E w \in Workers : \E pane \in {w, ConductorPane} : Spawn(s, w, pane)
           \/ RefuseWorkspace(s)
        /\ pc' = IF todo = {s} THEN "wait" ELSE "spawn"
    BY <1>7 DEF Dispatch
  <2>0. s \in Subtasks /\ subs[s].attempt \in Nat
    BY DEF TypeOK, SubtaskRow
  <2>1. CASE \E w \in Workers : \E pane \in {w, ConductorPane} : Spawn(s, w, pane)
    <3> PICK w \in Workers : \E pane \in {w, ConductorPane} : Spawn(s, w, pane)
      BY <2>1
    <3> PICK pane \in {w, ConductorPane} : Spawn(s, w, pane)
      OBVIOUS
    <3>1. worker' \in [Workers -> Process]
      BY <2>0 DEF Spawn, TypeOK, Process, Panes, Kinds
    <3>2. \A v \in Workers : worker'[v].pc # "idle" => worker'[v].sub \in Subtasks
      BY <2>0 DEF Spawn, TypeOK
    <3>3. dispatched' \subseteq Subtasks \X Nat
      BY <2>0 DEF Spawn, TypeOK
    <3> QED BY <1>7, <3>1, <3>2, <3>3 DEF TypeOK, Dispatch, Spawn, Locations
  <2>2. CASE RefuseWorkspace(s)
    <3>1. subs' \in [Subtasks -> SubtaskRow]
      BY <2>0, <2>2, SetResultType DEF RefuseWorkspace, Kinds
    <3> QED BY <1>7, <2>2, <3>1 DEF TypeOK, Dispatch, RefuseWorkspace, Locations
  <2> QED BY <2>1, <2>2
<1>8. CASE Gather
  BY <1>8 DEF TypeOK, Gather
<1>9. CASE Expire
  BY <1>9 DEF TypeOK, Expire, Locations
<1>10. CASE StopWorker
  <2>0. Exited \in Process /\ Exited.pc = "idle"
    BY DEF Exited, Process, Kinds, Panes
  <2>1. CASE UNCHANGED <<local, fleet>> /\ pc' = "timeout"
    BY <1>10, <2>1 DEF TypeOK, StopWorker, Locations
  <2>2. CASE ~(UNCHANGED <<local, fleet>> /\ pc' = "timeout")
    <3> PICK s \in todo : \E e \in WorkerPane(s) :
            /\ registry' = Forget(e.pane)
            /\ \/ /\ e.pane \in Workers
                  /\ worker' = [worker EXCEPT ![e.pane] = Exited]
                  /\ pc' = "timeout"
                  /\ UNCHANGED local
               \/ /\ e.pane = ConductorPane
                  /\ pc' = "off"
                  /\ Fresh
                  /\ UNCHANGED worker
               \/ /\ "kill" \in Faults
                  /\ pc' = "timeout"
                  /\ UNCHANGED <<worker, local>>
      BY <1>10, <2>2 DEF StopWorker
    <3>1. worker' \in [Workers -> Process]
      BY <2>0 DEF TypeOK
    <3>2. \A v \in Workers : worker'[v].pc # "idle" => worker'[v].sub \in Subtasks
      BY <2>0 DEF TypeOK
    <3>3. \A e \in registry' : e.pane \in Panes /\ e.sub \in Subtasks
      BY DEF TypeOK, Forget
    <3>4. pc' \in Locations
      BY DEF Locations
    <3>5. UNCHANGED <<mission, subs, history>>
      BY <1>10 DEF StopWorker
    <3>6. Fresh \/ UNCHANGED local
      OBVIOUS
    <3>7. CASE Fresh
      BY <3>1, <3>2, <3>3, <3>4, <3>5, <3>7 DEF TypeOK, Fresh
    <3>8. CASE UNCHANGED local
      BY <3>1, <3>2, <3>3, <3>4, <3>5, <3>8 DEF TypeOK
    <3> QED BY <3>6, <3>7, <3>8
  <2> QED BY <2>1, <2>2
<1>11. CASE TimeOut
  <2>1. subs' \in [Subtasks -> SubtaskRow]
    <3> PICK s \in todo : SetResult(s, "timeout", subs[s].attempt)
      BY <1>11 DEF TimeOut
    <3>1. s \in Subtasks /\ subs[s].attempt \in Nat /\ "timeout" \in Kinds
      BY DEF TypeOK, SubtaskRow, Kinds
    <3> QED BY <3>1, SetResultType
  <2> QED BY <1>11, <2>1 DEF TypeOK, TimeOut, Locations
<1>12. CASE WaveOver
  BY <1>12 DEF TypeOK, WaveOver, Locations
<1>13. CASE NoWave
  BY <1>13 DEF TypeOK, NoWave, Status, Locations
<1>14. CASE BlockSubtask
  <2>1. subs' \in [Subtasks -> SubtaskRow]
    BY <1>14, SetStatusType DEF TypeOK, BlockSubtask, SubtaskStatus
  <2> QED BY <1>14, <2>1 DEF TypeOK, BlockSubtask
<1>15. CASE Collect
  BY <1>15 DEF TypeOK, Collect, NotDone, Rows, Status, MissionRow, MissionStatus, Locations
<1>16. CASE \E p \in BOOLEAN : Verdict(p)
  BY <1>16 DEF TypeOK, Verdict, MissionRow, Locations
<1>17. CASE GiveUp
  BY <1>17 DEF TypeOK, GiveUp, Locations
<1>18. CASE Replan
  BY <1>18 DEF TypeOK, Replan, Rows, Locations
<1>19. CASE ReplanSubtask
  <2>1. subs' \in [Subtasks -> SubtaskRow]
    BY <1>19, SetStatusType DEF TypeOK, ReplanSubtask, SubtaskStatus
  <2> QED BY <1>19, <2>1 DEF TypeOK, ReplanSubtask
<1>20. CASE NextRound
  BY <1>20 DEF TypeOK, NextRound, Locations
<1>21. CASE Escalate
  BY <1>21 DEF TypeOK, Escalate, Finish, Fresh, MissionRow, MissionStatus, Locations
<1>22. CASE Synthesize
  BY <1>22 DEF TypeOK, Synthesize, MissionRow, MissionStatus, Locations
<1>23. CASE Gate
  BY <1>23 DEF TypeOK, Gate, Finish, Fresh, MissionRow, MissionStatus, Locations
<1>24. CASE Report
  BY <1>24 DEF TypeOK, Report, Locations
<1>25. CASE Close
  BY <1>25 DEF TypeOK, Close, Finish, Fresh, MissionRow, MissionStatus, Locations
<1>26. CASE Crash
  BY <1>26 DEF TypeOK, Crash, Fresh, Locations
<1>27. CASE Raise
  BY <1>27 DEF TypeOK, Raise, Fresh, MissionRow, MissionStatus, Locations
<1>33. CASE RaiseAfter
  BY <1>33 DEF TypeOK, RaiseAfter, MissionRow, MissionStatus
<1>28. CASE Resume
  BY <1>28 DEF TypeOK, Resume, Status, Locations
<1>29. CASE RequeueSubtask
  <2>1. subs' \in [Subtasks -> SubtaskRow]
    BY <1>29, SetStatusType DEF TypeOK, RequeueSubtask, SubtaskStatus
  <2> QED BY <1>29, <2>1 DEF TypeOK, RequeueSubtask
<1>30. CASE Resumed
  BY <1>30 DEF TypeOK, Resumed, StartRoundOf, MissionRow, Locations
<1>31. ASSUME NEW w \in Workers, WorkerStep(w) PROVE TypeOK'
  <2>0. Exited \in Process /\ Exited.pc = "idle"
    BY DEF Exited, Process, Kinds, Panes
  <2>1. CASE WorkerStart(w)
    <3>1. worker[w].sub \in Subtasks /\ subs[worker[w].sub].attempt \in Nat
      BY <2>1 DEF TypeOK, WorkerStart, SubtaskRow
    <3>2. worker' \in [Workers -> Process]
      BY <2>1, <3>1 DEF TypeOK, WorkerStart, Process
    <3>3. \A v \in Workers : worker'[v].pc # "idle" => worker'[v].sub \in Subtasks
      BY <2>1, <3>1 DEF TypeOK, WorkerStart, Process
    <3> QED BY <2>1, <3>2, <3>3 DEF TypeOK, WorkerStart
  <2>2. CASE WorkerRun(w)
    <3>1. worker[w].sub \in Subtasks
      BY <2>2 DEF TypeOK, WorkerRun
    <3>2. subs' \in [Subtasks -> SubtaskRow]
      BY <2>2, <3>1, SetStatusType DEF WorkerRun, SubtaskStatus
    <3> QED BY <2>2, <3>2 DEF TypeOK, WorkerRun, Process
  <2>7. CASE WorkerRegister(w)
    <3>1. worker[w].sub \in Subtasks /\ worker[w].pane \in Panes
      BY <2>7 DEF TypeOK, WorkerRegister, Process
    <3>2. \A e \in registry' : e.pane \in Panes /\ e.sub \in Subtasks
      BY <2>7, <3>1 DEF TypeOK, WorkerRegister, Forget
    <3> QED BY <2>7, <3>2 DEF TypeOK, WorkerRegister, Process
  <2>3. CASE \E k \in WorkerKinds : WorkerFinish(w, k)
    <3> PICK k \in WorkerKinds : WorkerFinish(w, k)
      BY <2>3
    <3>1. k \in Kinds
      BY DEF Kinds
    <3>2. worker' \in [Workers -> Process]
      BY <3>1 DEF TypeOK, WorkerFinish, Process
    <3>3. \A v \in Workers : worker'[v].pc # "idle" => worker'[v].sub \in Subtasks
      BY DEF TypeOK, WorkerFinish, Process
    <3> QED BY <3>2, <3>3 DEF TypeOK, WorkerFinish, Forget
  <2>4. CASE WorkerCheck(w)
    BY <2>0, <2>4 DEF TypeOK, WorkerCheck, Process
  <2>5. CASE WorkerWrite(w)
    <3>1. worker[w].sub \in Subtasks /\ worker[w].kind \in Kinds /\ worker[w].attempt \in Nat
      BY <2>5 DEF TypeOK, WorkerWrite, Process
    <3>2. subs' \in [Subtasks -> SubtaskRow]
      BY <2>5, <3>1, SetResultType DEF WorkerWrite
    <3> QED BY <2>0, <2>5, <3>1, <3>2 DEF TypeOK, WorkerWrite
  <2>6. CASE WorkerDie(w)
    BY <2>0, <2>6 DEF TypeOK, WorkerDie
  <2> QED BY <1>31, <2>1, <2>2, <2>3, <2>4, <2>5, <2>6, <2>7 DEF WorkerStep
<1>32. CASE UNCHANGED vars
  BY <1>32 DEF TypeOK, vars
<1> QED
  BY <1>1, <1>2, <1>3, <1>4, <1>5, <1>6, <1>7, <1>8, <1>9, <1>10, <1>11, <1>12, <1>13,
     <1>14, <1>15, <1>16, <1>17, <1>18, <1>19, <1>20, <1>21, <1>22, <1>23, <1>24, <1>25,
     <1>26, <1>27, <1>28, <1>29, <1>30, <1>31, <1>32, <1>33 DEF Next, ConductorStep

\* Type correctness of every reachable state.
THEOREM TypeCorrect == Spec => []TypeOK
BY InitType, NextType, PTL DEF Spec

-----------------------------------------------------------------------------
(* The mission row, the round counter and the verdict.                     *)

Control == RowMatchesControl /\ RoundMatchesRow /\ VerdictMatchesControl
             /\ SettledMatchesVerdict

LEMMA ControlInit == Init => Control
<1> SUFFICES ASSUME Init PROVE Control
  OBVIOUS
<1>1. /\ mission.status = "planning" /\ mission.replan_count = 0
      /\ pc = "plan" /\ rnd = 0 /\ Rows = {}
  BY DEF Init, Rows
<1> QED
  BY <1>1, MaxReplansAssumption
     DEF Control, RowMatchesControl, RoundMatchesRow, VerdictMatchesControl,
         SettledMatchesVerdict, InDag, AfterVerify, Terminal

\* Every step of the Conductor, its workers, a crash or a resumption keeps
\* the mission row in agreement with the Conductor's control state.
LEMMA ControlNext ==
  ASSUME TypeOK, WorkersHaveRows, Control, [Next]_vars
  PROVE  Control'
<1> USE DEF local, fleet, history, Control, RowMatchesControl, RoundMatchesRow,
            VerdictMatchesControl, SettledMatchesVerdict, InDag, AfterVerify
<1>0. mission \in MissionRow /\ rnd \in Nat /\ pc \in Locations
  BY DEF TypeOK
<1>1. CASE PersistPlan
  BY <1>0, <1>1 DEF PersistPlan, MissionRow, Terminal, Rows
<1>2. CASE CreateSubtask
  BY <1>0, <1>2 DEF CreateSubtask, MissionRow
<1>3. CASE StartRound
  BY <1>0, <1>3 DEF StartRound, Rows
<1>4. CASE ResetSubtask
  BY <1>0, <1>4 DEF ResetSubtask
<1>5. CASE BeginDag
  BY <1>0, <1>5 DEF BeginDag, MissionRow, Terminal
<1>6. CASE ReadyWave
  BY <1>0, <1>6 DEF ReadyWave
<1>7. CASE Dispatch
  BY <1>0, <1>7 DEF Dispatch
<1>8. CASE Gather
  BY <1>0, <1>8 DEF Gather
<1>9. CASE Expire
  BY <1>0, <1>9 DEF Expire
<1>10. CASE StopWorker
  BY <1>0, <1>10, MaxReplansAssumption DEF StopWorker, Fresh, Rows
<1>11. CASE TimeOut
  BY <1>0, <1>11 DEF TimeOut
<1>12. CASE WaveOver
  BY <1>0, <1>12 DEF WaveOver
<1>13. CASE NoWave
  BY <1>0, <1>13 DEF NoWave
<1>14. CASE BlockSubtask
  BY <1>0, <1>14 DEF BlockSubtask
<1>15. CASE Collect
  BY <1>0, <1>15 DEF Collect, MissionRow, Terminal
<1>16. CASE \E p \in BOOLEAN : Verdict(p)
  BY <1>0, <1>16 DEF Verdict, MayPass, MissionRow, Terminal
<1>17. CASE GiveUp
  BY <1>0, <1>17 DEF GiveUp
<1>18. CASE Replan
  BY <1>0, <1>18 DEF Replan, MoreRounds
<1>19. CASE ReplanSubtask
  BY <1>0, <1>19 DEF ReplanSubtask
<1>20. CASE NextRound
  BY <1>0, <1>20, MaxReplansAssumption DEF NextRound, MissionRow
<1>21. CASE Escalate
  BY <1>0, <1>21, MaxReplansAssumption DEF Escalate, Finish, Fresh, MissionRow, Terminal
<1>22. CASE Synthesize
  BY <1>0, <1>22 DEF Synthesize, MissionRow, Terminal
<1>23. CASE Gate
  BY <1>0, <1>23, MaxReplansAssumption DEF Gate, Finish, Fresh, MissionRow, Terminal
<1>24. CASE Report
  <2>1. filed.ready \in Nat /\ filed.draft \in Nat /\ filed \in [ready : Nat, draft : Nat]
    BY DEF TypeOK
  <2>2. IF passed THEN filed'.ready > 0 ELSE filed'.draft > 0
    BY <1>24, <2>1 DEF Report
  <2> QED BY <1>0, <1>24, <2>2 DEF Report
<1>25. CASE Close
  BY <1>0, <1>25, MaxReplansAssumption DEF Close, Finish, Fresh, MissionRow, Terminal
<1>26. CASE Crash
  BY <1>0, <1>26, MaxReplansAssumption DEF Crash, Fresh, MissionRow, Terminal, Rows
<1>27. CASE Raise
  BY <1>0, <1>27, MaxReplansAssumption DEF Raise, Fresh, MissionRow, Terminal, Rows
<1>33. CASE RaiseAfter
  BY <1>0, <1>33 DEF RaiseAfter, MissionRow, Rows
<1>28. CASE Resume
  BY <1>0, <1>28 DEF Resume, MayResume
<1>29. CASE RequeueSubtask
  BY <1>0, <1>29 DEF RequeueSubtask
<1>30. CASE Resumed
  BY <1>0, <1>30 DEF Resumed, StartRoundOf, MissionRow
<1>31. ASSUME NEW w \in Workers, WorkerStep(w) PROVE Control'
  <2>1. UNCHANGED <<mission, pc, mode, rnd, todo, waiting, failed, gone, blocked,
                    prevBlocked, passed, filed>>
    BY <1>31 DEF WorkerStep, WorkerStart, WorkerRegister, WorkerRun, WorkerFinish, WorkerCheck,
                 WorkerWrite, WorkerDie
  <2>2. mission.status # "planning"
    BY <1>31 DEF WorkersHaveRows, WorkerStep, WorkerStart, WorkerRegister, WorkerRun, WorkerFinish,
                 WorkerCheck, WorkerWrite, WorkerDie
  <2> QED BY <2>1, <2>2
<1>32. CASE UNCHANGED vars
  BY <1>32 DEF vars, Rows
<1> QED
  BY <1>1, <1>2, <1>3, <1>4, <1>5, <1>6, <1>7, <1>8, <1>9, <1>10, <1>11, <1>12, <1>13,
     <1>14, <1>15, <1>16, <1>17, <1>18, <1>19, <1>20, <1>21, <1>22, <1>23, <1>24, <1>25,
     <1>26, <1>27, <1>28, <1>29, <1>30, <1>31, <1>32, <1>33 DEF Next, ConductorStep

-----------------------------------------------------------------------------
(* Rows are never deleted, and only the Conductor makes a row pending or   *)
(* gives it another attempt.                                               *)

\* What any step other than the Conductor's own row loops does to the rows.
RowsKept ==
  /\ \A s \in Subtasks : subs'[s].attempt = subs[s].attempt
  /\ Rows \subseteq Rows'
  /\ Status("pending")' \subseteq Status("pending")

\* Writing a result creates no pending row and touches no attempt.
LEMMA SetResultKeeps ==
  ASSUME TypeOK, NEW s \in Subtasks, NEW kind, NEW of, SetResult(s, kind, of)
  PROVE  /\ RowsKept
         /\ \A t \in Subtasks \ {s} : subs'[t] = subs[t]
         /\ subs'[s].status = StatusOf(kind)
<1>1. subs' = [subs EXCEPT ![s] = [subs[s] EXCEPT !.status = StatusOf(kind),
                                       !.result = [kind |-> kind, of |-> of]]]
  BY DEF SetResult
<1>2. subs \in [Subtasks -> SubtaskRow] /\ subs[s] \in SubtaskRow
  BY DEF TypeOK
<1>3. /\ subs'[s].attempt = subs[s].attempt
      /\ subs'[s].status = StatusOf(kind)
      /\ \A t \in Subtasks \ {s} : subs'[t] = subs[t]
  BY <1>1, <1>2 DEF SubtaskRow
<1>4. StatusOf(kind) \notin {"absent", "pending"}
  BY StatusOfType
<1> QED
  BY <1>3, <1>4 DEF RowsKept, Rows, Status

\* So does setting any status other than pending.
LEMMA SetStatusKeeps ==
  ASSUME TypeOK, NEW s \in Subtasks, NEW st \in SubtaskStatus \ {"absent"}, SetStatus(s, st)
  PROVE  /\ \A t \in Subtasks : subs'[t].attempt = subs[t].attempt
         /\ Rows \subseteq Rows'
         /\ \A t \in Subtasks \ {s} : subs'[t] = subs[t]
         /\ subs'[s].status = st
BY DEF TypeOK, SetStatus, SubtaskRow, Rows

\* Whatever a worker process does, it keeps the rows and starts no process.
LEMMA WorkerKeeps ==
  ASSUME TypeOK, NEW w \in Workers, WorkerStep(w)
  PROVE  /\ RowsKept
         /\ UNCHANGED <<mission, pc, todo, waiting, dispatched>>
         /\ everDone \subseteq everDone'
         /\ \A v \in Workers : worker'[v].pc # "idle" =>
              worker[v].pc # "idle" /\ worker'[v].sub = worker[v].sub
         /\ \A s \in Subtasks : subs'[s].status = "done" =>
              subs[s].status = "done" \/ s \in everDone'
<1> USE DEF local, history
<1>0. worker \in [Workers -> Process] /\ Exited.pc = "idle"
  BY DEF TypeOK, Exited
<1>1. CASE WorkerStart(w)
  BY <1>0, <1>1 DEF WorkerStart, RowsKept, Rows, Status, Process
<1>2. CASE WorkerRun(w)
  <2>1. worker[w].sub \in Subtasks
    BY <1>2 DEF TypeOK, WorkerRun
  <2>2. SetStatus(worker[w].sub, "running")
    BY <1>2 DEF WorkerRun
  <2>3. /\ RowsKept
        /\ \A s \in Subtasks : subs'[s].status = "done" => subs[s].status = "done"
    BY <2>1, <2>2, SetStatusKeeps DEF RowsKept, Status, SubtaskStatus
  <2> QED BY <1>0, <1>2, <2>3 DEF WorkerRun, Process
<1>7. CASE WorkerRegister(w)
  BY <1>0, <1>7 DEF WorkerRegister, RowsKept, Rows, Status, Process
<1>3. CASE \E k \in WorkerKinds : WorkerFinish(w, k)
  BY <1>0, <1>3 DEF WorkerFinish, RowsKept, Rows, Status, Process
<1>4. CASE WorkerCheck(w)
  BY <1>0, <1>4 DEF WorkerCheck, RowsKept, Rows, Status, Process
<1>5. CASE WorkerWrite(w)
  <2> DEFINE s == worker[w].sub
  <2>1. s \in Subtasks
    BY <1>5 DEF TypeOK, WorkerWrite
  <2>2. SetResult(s, worker[w].kind, worker[w].attempt)
    BY <1>5 DEF WorkerWrite
  <2>3. /\ RowsKept
        /\ \A t \in Subtasks \ {s} : subs'[t] = subs[t]
        /\ subs'[s].status = StatusOf(worker[w].kind)
    BY <2>1, <2>2, SetResultKeeps
  <2>4. StatusOf(worker[w].kind) = "done" => s \in everDone'
    BY <1>5 DEF StatusOf, WorkerWrite
  <2>5. everDone \subseteq everDone'
    BY <1>5 DEF WorkerWrite
  <2> QED BY <1>0, <1>5, <2>3, <2>4, <2>5 DEF WorkerWrite
<1>6. CASE WorkerDie(w)
  BY <1>0, <1>6 DEF WorkerDie, RowsKept, Rows, Status
<1> QED
  BY <1>1, <1>2, <1>3, <1>4, <1>5, <1>6, <1>7 DEF WorkerStep

-----------------------------------------------------------------------------
(* Attempts and dependencies.                                              *)

Dispatching == WorkersHaveRows /\ AttemptsAreFresh /\ DoneWasDelivered /\ DependenciesFirst

LEMMA DispatchingInit == Init => Dispatching
BY DEF Init, Dispatching, WorkersHaveRows, AttemptsAreFresh, DoneWasDelivered,
       DependenciesFirst, Exited, Status

\* Every step keeps: a pending row that can still be spawned in this round is
\* on an attempt nobody was given, and its dependencies were delivered.
LEMMA DispatchingNext ==
  ASSUME TypeOK, Dispatching, [Next]_vars
  PROVE  Dispatching'
<1> USE DEF local, fleet, history, Dispatching, WorkersHaveRows, AttemptsAreFresh,
            DoneWasDelivered, DependenciesFirst, Unspawned
<1>0. /\ subs \in [Subtasks -> SubtaskRow] /\ worker \in [Workers -> Process]
      /\ todo \subseteq Subtasks /\ waiting \subseteq Subtasks
      /\ dispatched \subseteq Subtasks \X Nat
      /\ \A s \in Subtasks : subs[s].attempt \in Nat
      /\ \A d \in dispatched : d = <<d[1], d[2]>> /\ d[1] \in Subtasks /\ d[2] \in Nat
      /\ \A w \in Workers : worker[w].pc # "idle" => worker[w].sub \in Subtasks
  BY DEF TypeOK, SubtaskRow
<1>a. DependsOn \in [Subtasks -> SUBSET Subtasks]
  BY DependsOnAssumption
<1>1. CASE PersistPlan
  BY <1>0, <1>1 DEF PersistPlan, Rows, Status
<1>2. CASE CreateSubtask
  BY <1>0, <1>2 DEF CreateSubtask, Rows, Status
<1>3. CASE StartRound
  BY <1>0, <1>3 DEF StartRound, Redo, NotDone, Rows, Status
<1>4. CASE ResetSubtask
  <2> PICK s \in todo : /\ todo' = todo \ {s}
                        /\ subs' = [subs EXCEPT ![s].status = "pending",
                                                ![s].attempt = NextAttempt(@)]
    BY <1>4 DEF ResetSubtask
  <2>1. /\ subs'[s].attempt = subs[s].attempt + 1 /\ subs'[s].status = "pending"
        /\ \A t \in Subtasks \ {s} : subs'[t] = subs[t]
    BY <1>0 DEF SubtaskRow, NextAttempt
  <2>2. <<s, subs[s].attempt + 1>> \notin dispatched
    BY <1>0
  <2>3. \A d \in dispatched : d[2] <= subs'[d[1]].attempt
    BY <1>0, <2>1
  <2>4. Rows \subseteq Rows' /\ Status("done")' \subseteq Status("done")
    BY <2>1 DEF Rows, Status
  <2>5. \A t \in Status("pending")' : t \in todo' \/ <<t, subs'[t].attempt>> \notin dispatched
    BY <1>4, <2>1, <2>2 DEF Status, ResetSubtask
  <2> QED BY <1>0, <1>4, <2>3, <2>4, <2>5 DEF ResetSubtask
<1>5. CASE BeginDag
  BY <1>0, <1>5 DEF BeginDag, Rows, Status
<1>6. CASE ReadyWave
  BY <1>0, <1>6, <1>a DEF ReadyWave, Ready, Rows, Status
<1>7. CASE Dispatch
  <2> PICK s \in todo :
        /\ todo' = todo \ {s}
        /\ \/ \E w \in Workers : \E pane \in {w, ConductorPane} : Spawn(s, w, pane)
           \/ RefuseWorkspace(s)
        /\ pc' = IF todo = {s} THEN "wait" ELSE "spawn"
    BY <1>7 DEF Dispatch
  <2>0. /\ s \in Subtasks /\ s \in Rows /\ s \in waiting /\ Unspawned(s)
        /\ DependsOn[s] \subseteq everDone
        /\ UNCHANGED <<waiting, everDone>>
    BY <1>0, <1>7 DEF Dispatch
  <2>1. CASE \E w \in Workers : \E pane \in {w, ConductorPane} : Spawn(s, w, pane)
    <3>1. UNCHANGED subs /\ dispatched' = dispatched \cup {<<s, subs[s].attempt>>}
      BY <2>1 DEF Spawn
    <3>2. \A v \in Workers : worker'[v].pc # "idle" => worker'[v].sub \in Rows
      BY <1>0, <2>0, <2>1 DEF Spawn
    <3>3. \A d \in dispatched' : d[2] <= subs[d[1]].attempt /\ DependsOn[d[1]] \subseteq everDone
      BY <1>0, <2>0, <3>1
    <3>4. \A t \in Subtasks \ {s} : Unspawned(t) => Unspawned(t)'
      BY <3>1
    <3> QED BY <1>0, <1>7, <2>0, <3>1, <3>2, <3>3, <3>4 DEF Dispatch, Rows, Status
  <2>2. CASE RefuseWorkspace(s)
    <3>1. /\ RowsKept
          /\ \A t \in Subtasks \ {s} : subs'[t] = subs[t]
          /\ subs'[s].status = "error"
      BY <2>0, <2>2, SetResultKeeps DEF RefuseWorkspace, StatusOf
    <3>2. Status("done")' \subseteq Status("done")
      BY <2>0, <3>1 DEF Status
    <3> QED BY <1>0, <1>7, <2>0, <2>2, <3>1, <3>2 DEF Dispatch, RefuseWorkspace, RowsKept, Status
  <2> QED BY <2>1, <2>2
<1>8. CASE Gather
  BY <1>0, <1>8 DEF Gather, Rows, Status, TerminalRow
<1>9. CASE Expire
  BY <1>0, <1>9 DEF Expire, Rows, Status
<1>10. CASE StopWorker
  <2>1. /\ UNCHANGED <<subs, dispatched, everDone>>
        /\ pc' \in {"timeout", "off"} /\ (pc' = "timeout" => UNCHANGED local)
    BY <1>10 DEF StopWorker
  <2>2. \A v \in Workers : worker'[v].pc # "idle" => worker'[v] = worker[v]
    BY <1>0, <1>10 DEF StopWorker, Exited
  <2> QED BY <1>0, <1>10, <2>1, <2>2 DEF StopWorker, Rows, Status
<1>11. CASE TimeOut
  <2> PICK s \in todo : SetResult(s, "timeout", subs[s].attempt)
    BY <1>11 DEF TimeOut
  <2>1. /\ RowsKept
        /\ \A t \in Subtasks \ {s} : subs'[t] = subs[t]
        /\ subs'[s].status = "error"
    BY <1>0, SetResultKeeps DEF StatusOf
  <2>2. Status("done")' \subseteq Status("done") /\ s \notin Status("pending")'
    BY <1>0, <2>1 DEF Status
  <2>3. todo = {s}
    BY <1>11 DEF TimeOut
  <2> QED BY <1>0, <1>11, <2>1, <2>2, <2>3 DEF TimeOut, RowsKept
<1>12. CASE WaveOver
  BY <1>0, <1>12 DEF WaveOver, Rows, Status
<1>13. CASE NoWave
  BY <1>0, <1>13 DEF NoWave, Rows, Status
<1>14. CASE BlockSubtask
  <2> PICK s \in todo : SetStatus(s, "blocked")
    BY <1>14 DEF BlockSubtask
  <2>1. /\ Rows \subseteq Rows' /\ Status("done")' \subseteq Status("done")
        /\ \A t \in Subtasks : subs'[t].attempt = subs[t].attempt
    BY <1>0, SetStatusKeeps DEF SubtaskStatus, Status
  <2> QED BY <1>0, <1>14, <2>1 DEF BlockSubtask
<1>15. CASE Collect
  BY <1>0, <1>15 DEF Collect, Rows, Status
<1>16. CASE \E p \in BOOLEAN : Verdict(p)
  BY <1>0, <1>16 DEF Verdict, Rows, Status
<1>17. CASE GiveUp
  BY <1>0, <1>17 DEF GiveUp, Rows, Status
<1>18. CASE Replan
  BY <1>0, <1>18 DEF Replan, Rows, Status
<1>19. CASE ReplanSubtask
  <2> PICK s \in todo : SetStatus(s, "pending")
    BY <1>19 DEF ReplanSubtask
  <2>1. /\ Rows \subseteq Rows' /\ Status("done")' \subseteq Status("done")
        /\ \A t \in Subtasks : subs'[t].attempt = subs[t].attempt
    BY <1>0, SetStatusKeeps DEF SubtaskStatus, Status
  <2> QED BY <1>0, <1>19, <2>1 DEF ReplanSubtask
<1>20. CASE NextRound
  BY <1>0, <1>20 DEF NextRound, Rows, Status
<1>21. CASE Escalate
  BY <1>0, <1>21 DEF Escalate, Finish, Rows, Status
<1>22. CASE Synthesize
  BY <1>0, <1>22 DEF Synthesize, Rows, Status
<1>23. CASE Gate
  BY <1>0, <1>23 DEF Gate, Finish, Rows, Status
<1>24. CASE Report
  BY <1>0, <1>24 DEF Report, Rows, Status
<1>25. CASE Close
  BY <1>0, <1>25 DEF Close, Finish, Rows, Status
<1>26. CASE Crash
  BY <1>0, <1>26 DEF Crash, Rows, Status
<1>27. CASE Raise
  BY <1>0, <1>27 DEF Raise, Rows, Status
<1>33. CASE RaiseAfter
  BY <1>0, <1>33 DEF RaiseAfter, Rows, Status
<1>28. CASE Resume
  BY <1>0, <1>28 DEF Resume, Rows, Status
<1>29. CASE RequeueSubtask
  <2> PICK s \in todo : SetStatus(s, "pending")
    BY <1>29 DEF RequeueSubtask
  <2>1. /\ Rows \subseteq Rows' /\ Status("done")' \subseteq Status("done")
        /\ \A t \in Subtasks : subs'[t].attempt = subs[t].attempt
    BY <1>0, SetStatusKeeps DEF SubtaskStatus, Status
  <2> QED BY <1>0, <1>29, <2>1 DEF RequeueSubtask
<1>30. CASE Resumed
  BY <1>0, <1>30 DEF Resumed, Rows, Status
<1>31. ASSUME NEW w \in Workers, WorkerStep(w) PROVE Dispatching'
  <2>1. /\ RowsKept
        /\ UNCHANGED <<mission, pc, todo, waiting, dispatched>>
        /\ everDone \subseteq everDone'
        /\ \A v \in Workers : worker'[v].pc # "idle" =>
             worker[v].pc # "idle" /\ worker'[v].sub = worker[v].sub
        /\ \A s \in Subtasks : subs'[s].status = "done" =>
             subs[s].status = "done" \/ s \in everDone'
    BY <1>31, WorkerKeeps
  <2>2. Status("done")' \subseteq everDone'
    BY <2>1 DEF Status
  <2> QED BY <1>0, <1>a, <2>1, <2>2 DEF RowsKept
<1>32. CASE UNCHANGED vars
  BY <1>32 DEF vars, Rows, Status
<1> QED
  BY <1>1, <1>2, <1>3, <1>4, <1>5, <1>6, <1>7, <1>8, <1>9, <1>10, <1>11, <1>12, <1>13,
     <1>14, <1>15, <1>16, <1>17, <1>18, <1>19, <1>20, <1>21, <1>22, <1>23, <1>24, <1>25,
     <1>26, <1>27, <1>28, <1>29, <1>30, <1>31, <1>32, <1>33 DEF Next, ConductorStep

-----------------------------------------------------------------------------
(* The retry budget.  Attempt numbers do not bound it: a reset that is cut *)
(* short leaves attempts nobody is spawned for.  What does is that a round  *)
(* spawns a subtask only on an attempt that is fresh, and once.            *)

LEMMA SpentType ==
  ASSUME IsFiniteSet(dispatched), NEW s
  PROVE  IsFiniteSet({d \in dispatched : d[1] = s}) /\ Spent(s) \in Nat
<1>1. IsFiniteSet({d \in dispatched : d[1] = s})
  BY FS_Subset
<1> QED BY <1>1, FS_CardinalityType DEF Spent

LEMMA BudgetedInit == Init => Budgeted
<1> SUFFICES ASSUME Init PROVE Budgeted
  OBVIOUS
<1>1. dispatched = {} /\ mission.replan_count = 0 /\ resumes = 0 /\ pc = "plan"
  BY DEF Init
<1>2. \A s : Spent(s) = 0
  BY <1>1, FS_EmptySet DEF Spent
<1> QED BY <1>1, <1>2, FS_EmptySet DEF Budgeted, InDag

\* Spawning a worker spends one, on a subtask that has one left.
LEMMA BudgetedSpawn ==
  ASSUME TypeOK, Budgeted, AttemptsAreFresh, pc = "spawn", NEW s \in todo, NEW w, NEW pane,
         Spawn(s, w, pane), UNCHANGED <<mission, resumes>>, pc' \in InDag
  PROVE  Budgeted'
<1>1. /\ mission.replan_count \in Nat /\ resumes \in Nat /\ s \in Subtasks
      /\ IsFiniteSet(dispatched) /\ Unspawned(s)
  BY DEF TypeOK, MissionRow, Budgeted, AttemptsAreFresh
<1>2. dispatched' = dispatched \cup {<<s, subs[s].attempt>>} /\ subs' = subs
  BY DEF Spawn
<1>3. IsFiniteSet(dispatched')
  BY <1>1, <1>2, FS_AddElement
<1>4. Spent(s)' = Spent(s) + 1
  <2> DEFINE D == {d \in dispatched : d[1] = s}
             new == <<s, subs[s].attempt>>
  <2>1. {d \in dispatched' : d[1] = s} = D \cup {new}
    BY <1>2
  <2>2. IsFiniteSet(D) /\ new \notin D
    BY <1>1, FS_Subset DEF Unspawned
  <2>3. Cardinality(D \cup {new}) = Cardinality(D) + 1
    BY <2>2, FS_AddElement
  <2> QED BY <2>1, <2>3 DEF Spent
<1>5. ASSUME NEW t \in Subtasks, t # s
      PROVE  Spent(t)' = Spent(t) /\ Unspawned(t)' = Unspawned(t)
  <2>1. {d \in dispatched' : d[1] = t} = {d \in dispatched : d[1] = t}
    BY <1>2, <1>5
  <2>2. <<t, subs[t].attempt>> # <<s, subs[s].attempt>>
    BY <1>5
  <2> QED BY <1>2, <2>1, <2>2 DEF Spent, Unspawned
<1>6. ~Unspawned(s)'
  BY <1>2 DEF Unspawned
<1>7. \A t \in Subtasks :
        /\ Spent(t) \in Nat
        /\ Spent(t) <= mission.replan_count + 1 + resumes
        /\ Unspawned(t) => Spent(t) <= mission.replan_count + resumes
  BY <1>1, SpentType DEF Budgeted, InDag
<1>8. mission' = mission /\ resumes' = resumes /\ pc' \notin {"round", "reset", "requeue"}
  BY DEF InDag
<1>9. ASSUME NEW t \in Subtasks
      PROVE  /\ Spent(t)' <= mission.replan_count + 1 + resumes
             /\ Unspawned(t)' => Spent(t)' <= mission.replan_count + resumes
  BY <1>1, <1>4, <1>5, <1>6, <1>7, <1>9
<1> QED BY <1>3, <1>8, <1>9 DEF Budgeted

\* A step that spawns nobody: a new round or a resumption grants one more.
LEMMA BudgetedKept ==
  ASSUME TypeOK, TypeOK', Budgeted, UNCHANGED dispatched,
         mission'.replan_count + resumes' >= mission.replan_count + resumes,
         pc' \in {"round", "reset"} /\ pc \notin {"round", "reset"} =>
           \/ dispatched = {}
           \/ rnd' + resumes' >= mission.replan_count + 1 + resumes
           \/ pc = "requeue" /\ rnd' + resumes' >= mission.replan_count + resumes,
         pc' \in {"round", "reset"} /\ pc \in {"round", "reset"} =>
           UNCHANGED <<rnd, resumes>>,
         pc' = "requeue" =>
           \/ pc = "requeue"
           \/ mission'.replan_count + resumes' >= mission.replan_count + 1 + resumes,
         pc' \in InDag =>
           \/ pc \in InDag /\ \A s \in Subtasks : subs'[s].attempt = subs[s].attempt
           \/ pc = "reset" /\ mission'.replan_count = rnd /\ UNCHANGED resumes
  PROVE  Budgeted'
<1>1. /\ mission.replan_count \in Nat /\ resumes \in Nat /\ rnd \in Nat
      /\ mission'.replan_count \in Nat /\ resumes' \in Nat /\ rnd' \in Nat
  BY DEF TypeOK, MissionRow
<1>2. IsFiniteSet(dispatched) /\ dispatched' = dispatched
  BY DEF Budgeted
<1>3. \A s : Spent(s) \in Nat /\ Spent(s)' = Spent(s)
  BY <1>2, SpentType DEF Spent
<1>4. \A s : dispatched = {} => Spent(s) = 0
  BY FS_EmptySet DEF Spent
<1>5. ASSUME NEW s \in Subtasks
      PROVE  /\ Spent(s) <= mission'.replan_count + 1 + resumes'
             /\ pc' \in {"round", "reset"} => Spent(s) <= rnd' + resumes'
             /\ pc' = "requeue" => Spent(s) <= mission'.replan_count + resumes'
             /\ pc' \in InDag /\ Unspawned(s)' => Spent(s) <= mission'.replan_count + resumes'
  <2>1. /\ Spent(s) \in Nat
        /\ Spent(s) <= mission.replan_count + 1 + resumes
        /\ pc \in {"round", "reset"} => Spent(s) <= rnd + resumes
        /\ pc = "requeue" => Spent(s) <= mission.replan_count + resumes
        /\ pc \in InDag /\ Unspawned(s) => Spent(s) <= mission.replan_count + resumes
        /\ dispatched = {} => Spent(s) = 0
    BY <1>3, <1>4, <1>5 DEF Budgeted
  <2>2. Spent(s) <= mission'.replan_count + 1 + resumes'
    BY <1>1, <2>1
  <2>3. pc' \in {"round", "reset"} => Spent(s) <= rnd' + resumes'
    BY <1>1, <2>1
  <2>4. pc' = "requeue" => Spent(s) <= mission'.replan_count + resumes'
    BY <1>1, <2>1
  <2>5. CASE pc \in InDag /\ \A t \in Subtasks : subs'[t].attempt = subs[t].attempt
    <3>1. Unspawned(s)' = Unspawned(s)
      BY <1>2, <1>5, <2>5 DEF Unspawned
    <3> QED BY <1>1, <2>1, <2>2, <2>3, <2>4, <2>5, <3>1
  <2>6. CASE pc = "reset" /\ mission'.replan_count = rnd /\ UNCHANGED resumes
    BY <1>1, <2>1, <2>2, <2>3, <2>4, <2>6
  <2> QED BY <2>2, <2>3, <2>4, <2>5, <2>6
<1> QED BY <1>2, <1>3, <1>5 DEF Budgeted

LEMMA BudgetedNext ==
  ASSUME TypeOK, TypeOK', Control, Dispatching, Budgeted, [Next]_vars
  PROVE  Budgeted'
<1> USE DEF local, fleet, history, InDag
<1>0. /\ mission \in MissionRow /\ mission.replan_count \in Nat
      /\ rnd \in Nat /\ resumes \in Nat
      /\ subs \in [Subtasks -> SubtaskRow] /\ todo \subseteq Subtasks
  BY DEF TypeOK, MissionRow
<1>1. CASE PersistPlan \/ Verdict(TRUE) \/ Verdict(FALSE) \/ GiveUp \/ Replan \/ Synthesize
           \/ Escalate \/ Gate \/ Close \/ Crash \/ Raise \/ Collect \/ RaiseAfter
  <2>1. /\ UNCHANGED <<dispatched, resumes>> /\ mission'.replan_count = mission.replan_count
        /\ pc' \notin {"round", "reset", "requeue"} \cup InDag
    BY <1>0, <1>1 DEF PersistPlan, Verdict, GiveUp, Replan, Synthesize, Escalate, Gate, Close,
                      Crash, Raise, RaiseAfter, Collect, Finish, MissionRow
  <2> QED BY <1>0, <2>1, BudgetedKept
<1>2. CASE Report \/ ReplanSubtask
  <2>1. /\ UNCHANGED <<dispatched, resumes, mission>>
        /\ pc' \notin {"round", "reset", "requeue"} \cup InDag
    BY <1>2 DEF Report, ReplanSubtask
  <2> QED BY <1>0, <2>1, BudgetedKept
<1>3. CASE CreateSubtask
  <2>1. /\ UNCHANGED <<dispatched, resumes, mission>> /\ dispatched = {}
        /\ pc \notin {"round", "reset"} /\ pc' \in {"create", "round"}
    BY <1>3 DEF CreateSubtask, Dispatching, AttemptsAreFresh
  <2> QED BY <1>0, <2>1, BudgetedKept
<1>4. CASE StartRound \/ ResetSubtask
  <2>1. /\ UNCHANGED <<dispatched, resumes, mission, rnd>>
        /\ pc \in {"round", "reset"} /\ pc' \in {"round", "reset"}
    BY <1>4 DEF StartRound, ResetSubtask
  <2> QED BY <1>0, <2>1, BudgetedKept
<1>5. CASE BeginDag
  <2>1. /\ UNCHANGED <<dispatched, resumes>> /\ pc = "reset" /\ pc' = "wave"
        /\ mission'.replan_count = rnd
    BY <1>0, <1>5 DEF BeginDag, MissionRow
  <2>2. rnd = mission.replan_count \/ rnd = mission.replan_count + 1
    BY <2>1 DEF Control, RoundMatchesRow
  <2> QED BY <1>0, <2>1, <2>2, BudgetedKept
<1>6. CASE Dispatch
  <2> PICK s \in todo :
        \/ \E w \in Workers : \E pane \in {w, ConductorPane} : Spawn(s, w, pane)
        \/ RefuseWorkspace(s)
    BY <1>6 DEF Dispatch
  <2>1. UNCHANGED <<mission, resumes, rnd>> /\ pc = "spawn" /\ pc' \in {"wait", "spawn"}
    BY <1>6 DEF Dispatch
  <2>2. CASE \E w \in Workers : \E pane \in {w, ConductorPane} : Spawn(s, w, pane)
    <3> PICK w \in Workers : \E pane \in {w, ConductorPane} : Spawn(s, w, pane)
      BY <2>2
    <3> PICK pane \in {w, ConductorPane} : Spawn(s, w, pane)
      OBVIOUS
    <3>1. AttemptsAreFresh /\ pc' \in InDag
      BY <2>1 DEF Dispatching
    <3> QED BY <2>1, <3>1, BudgetedSpawn
  <2>3. CASE RefuseWorkspace(s)
    <3>1. UNCHANGED dispatched /\ \A t \in Subtasks : subs'[t].attempt = subs[t].attempt
      BY <1>0, <2>3, SetResultKeeps DEF RefuseWorkspace, RowsKept
    <3> QED BY <1>0, <2>1, <3>1, BudgetedKept
  <2> QED BY <2>2, <2>3
<1>7. CASE ReadyWave \/ Gather \/ Expire \/ WaveOver \/ NoWave
  <2>1. /\ UNCHANGED <<dispatched, resumes, mission, subs>> /\ pc \in InDag /\ pc' \in InDag
    BY <1>7 DEF ReadyWave, Gather, Expire, WaveOver, NoWave
  <2> QED BY <1>0, <2>1, BudgetedKept
<1>8. CASE StopWorker
  <2>1. /\ UNCHANGED <<dispatched, resumes, mission, subs>> /\ pc \in InDag
        /\ pc' \in {"timeout", "off"}
    BY <1>8 DEF StopWorker
  <2> QED BY <1>0, <2>1, BudgetedKept
<1>9. CASE TimeOut
  <2> PICK s \in todo : SetResult(s, "timeout", subs[s].attempt)
    BY <1>9 DEF TimeOut
  <2>1. \A t \in Subtasks : subs'[t].attempt = subs[t].attempt
    BY <1>0, SetResultKeeps DEF RowsKept
  <2>2. UNCHANGED <<dispatched, resumes, mission>> /\ pc = "timeout" /\ pc' = "wait"
    BY <1>9 DEF TimeOut
  <2> QED BY <1>0, <2>1, <2>2, BudgetedKept
<1>10. CASE BlockSubtask
  <2> PICK s \in todo : SetStatus(s, "blocked")
    BY <1>10 DEF BlockSubtask
  <2>1. \A t \in Subtasks : subs'[t].attempt = subs[t].attempt
    BY <1>0, SetStatusKeeps DEF SubtaskStatus
  <2>2. UNCHANGED <<dispatched, resumes, mission, pc>> /\ pc = "block"
    BY <1>10 DEF BlockSubtask
  <2> QED BY <1>0, <2>1, <2>2, BudgetedKept
<1>11. CASE NextRound
  <2>1. /\ UNCHANGED <<dispatched, resumes, mission>> /\ pc = "replan" /\ pc' = "round"
        /\ rnd' = rnd + 1
    BY <1>11 DEF NextRound
  <2>2. rnd = mission.replan_count
    BY <2>1 DEF Control, RoundMatchesRow, AfterVerify
  <2> QED BY <1>0, <2>1, <2>2, BudgetedKept
<1>12. CASE Resume
  <2>1. /\ UNCHANGED <<dispatched, mission>> /\ pc = "off" /\ pc' = "requeue"
        /\ resumes' = resumes + 1
    BY <1>12 DEF Resume
  <2> QED BY <1>0, <2>1, BudgetedKept
<1>13. CASE RequeueSubtask
  <2>1. /\ UNCHANGED <<dispatched, resumes, mission>> /\ pc = "requeue" /\ pc' = "requeue"
    BY <1>13 DEF RequeueSubtask
  <2> QED BY <1>0, <2>1, BudgetedKept
<1>14. CASE Resumed
  <2>1. /\ UNCHANGED <<dispatched, resumes, mission>> /\ pc = "requeue" /\ pc' = "round"
        /\ rnd' = mission.replan_count
    BY <1>14 DEF Resumed, StartRoundOf
  <2> QED BY <1>0, <2>1, BudgetedKept
<1>15. ASSUME NEW w \in Workers, WorkerStep(w) PROVE Budgeted'
  <2>1. UNCHANGED <<mission, pc, dispatched>>
        /\ \A t \in Subtasks : subs'[t].attempt = subs[t].attempt
    BY <1>15, WorkerKeeps DEF RowsKept
  <2>2. UNCHANGED <<resumes, rnd>>
    BY <1>15 DEF WorkerStep, WorkerStart, WorkerRegister, WorkerRun, WorkerFinish, WorkerCheck,
                 WorkerWrite, WorkerDie
  <2> QED BY <1>0, <2>1, <2>2, BudgetedKept
<1>16. CASE UNCHANGED vars
  <2>1. UNCHANGED <<mission, pc, dispatched, resumes, rnd, subs>>
    BY <1>16 DEF vars
  <2> QED BY <1>0, <2>1, BudgetedKept
<1> QED
  BY <1>1, <1>2, <1>3, <1>4, <1>5, <1>6, <1>7, <1>8, <1>9, <1>10, <1>11, <1>12, <1>13,
     <1>14, <1>15, <1>16 DEF Next, ConductorStep

-----------------------------------------------------------------------------
(* The invariant and the properties that follow from it.                   *)

\* IInv is inductive: it holds of every reachable state.
THEOREM Invariance == Spec => []IInv
<1>1. Init => IInv
  BY InitType, ControlInit, DispatchingInit, BudgetedInit DEF IInv, Control, Dispatching
<1>2. IInv /\ [Next]_vars => IInv'
  <2> SUFFICES ASSUME IInv, [Next]_vars PROVE IInv'
    OBVIOUS
  <2>1. TypeOK /\ Control /\ Dispatching /\ Budgeted /\ WorkersHaveRows
    BY DEF IInv, Control, Dispatching
  <2>2. TypeOK'
    BY <2>1, NextType
  <2>3. Control' /\ Dispatching' /\ Budgeted'
    BY <2>1, <2>2, ControlNext, DispatchingNext, BudgetedNext
  <2> QED BY <2>2, <2>3 DEF IInv, Control, Dispatching
<1> QED
  BY <1>1, <1>2, PTL DEF Spec

\* The status a mission settles in agrees with the verdict in its row, for
\* every plan, number of re-plans and resumptions.
THEOREM SettledAgreesWithVerdict == Spec => []SettledMatchesVerdict
<1>1. IInv => SettledMatchesVerdict
  BY DEF IInv
<1> QED
  BY <1>1, Invariance, PTL

\* No subtask is ever spawned before all it depends on delivered a result.
THEOREM DependenciesComeFirst == Spec => []DependenciesFirst
<1>1. IInv => DependenciesFirst
  BY DEF IInv
<1> QED
  BY <1>1, Invariance, PTL

\* A subtask is spawned once in each round at most, and once more for each
\* --resume, which may repeat the round its crash cut short (conductor.py
\* 1517-1524, 2412).
THEOREM BudgetHolds == Spec => []DispatchBudget
<1>1. ASSUME IInv PROVE DispatchBudget
  <2>1. /\ mission.replan_count \in Nat /\ mission.replan_count <= MaxReplans
        /\ resumes \in Nat /\ IsFiniteSet(dispatched)
        /\ \A s \in Subtasks : Spent(s) <= mission.replan_count + 1 + resumes
    BY <1>1 DEF IInv, TypeOK, MissionRow, RoundMatchesRow, Budgeted
  <2>2. \A s \in Subtasks : Spent(s) <= MaxReplans + 1 + resumes
    <3>1. \A s \in Subtasks : Spent(s) \in Nat
      BY <2>1, SpentType
    <3> QED BY <2>1, <3>1, MaxReplansAssumption
  <2> QED BY <2>2 DEF DispatchBudget, Spent
<1> QED BY <1>1, Invariance, PTL

\* No attempt of a subtask is ever given to two spawned workers.
THEOREM AttemptsAreDispatchedOnce == Spec => DispatchOncePerAttempt
<1> DEFINE Once == \A w \in Workers :
             worker[w].pc = "idle" /\ worker'[w].pc = "spawned"
               => <<worker'[w].sub, subs[worker'[w].sub].attempt>> \notin dispatched
<1>1. ASSUME IInv, Next PROVE Once
  <2> SUFFICES ASSUME NEW w \in Workers, worker[w].pc = "idle", worker'[w].pc = "spawned"
               PROVE  <<worker'[w].sub, subs[worker'[w].sub].attempt>> \notin dispatched
    OBVIOUS
  <2>0. worker \in [Workers -> Process] /\ Exited.pc = "idle" /\ worker' # worker
    BY <1>1 DEF IInv, TypeOK, Exited
  <2>1. CASE Dispatch
    <3> PICK s \in todo :
          \/ \E v \in Workers : \E pane \in {v, ConductorPane} : Spawn(s, v, pane)
          \/ RefuseWorkspace(s)
      BY <2>1 DEF Dispatch
    <3>1. worker'[w].sub = s
      BY <2>0 DEF Spawn, RefuseWorkspace
    <3>2. Unspawned(s)
      BY <1>1, <2>1 DEF IInv, AttemptsAreFresh, Dispatch
    <3> QED BY <3>1, <3>2 DEF Unspawned
  <2>2. CASE StopWorker
    BY <2>0, <2>2 DEF StopWorker, fleet, Exited, WorkerPane
  <2>3. ASSUME NEW v \in Workers, WorkerStep(v) PROVE FALSE
    <3>1. worker'[w].pc # "idle" => worker[w].pc # "idle"
      BY <1>1, <2>3, WorkerKeeps DEF IInv
    <3> QED BY <3>1
  <2>4. CASE /\ ConductorStep \/ Crash \/ Raise \/ RaiseAfter \/ Resume
             /\ ~Dispatch /\ ~StopWorker
    <3>1. UNCHANGED worker
      BY <2>4 DEF ConductorStep, Crash, Raise, RaiseAfter, Resume, PersistPlan, CreateSubtask,
         StartRound, ResetSubtask, BeginDag, ReadyWave, Gather, Expire, TimeOut, WaveOver, NoWave,
         BlockSubtask, Collect, Verdict, GiveUp, Replan, ReplanSubtask, NextRound, Escalate,
         Synthesize, Gate, Report, Close, RequeueSubtask, Resumed, fleet
    <3> QED BY <2>0, <3>1
  <2> QED BY <1>1, <2>1, <2>2, <2>3, <2>4 DEF Next
<1>2. IInv /\ [Next]_vars => [Once]_vars
  BY <1>1
<1> QED
  BY <1>2, Invariance, PTL DEF Spec, DispatchOncePerAttempt

\* done, failed and partial are final, whoever acts, but for an exception at the
\* end of the first run.
THEOREM FinalMissionsStay == Spec => TerminalIsFinal
<1> DEFINE Stays == mission' = mission
                    \/ (resumes = 0 /\ mission' = [mission EXCEPT !.status = "failed"])
<1>1. ASSUME IInv, Next, mission.status \in Terminal PROVE Stays
  <2>1. pc = "off" /\ mission \in MissionRow
    BY <1>1 DEF IInv, RowMatchesControl, TypeOK
  <2>2. ~ConductorStep /\ ~Crash /\ ~Raise
    BY <2>1 DEF ConductorStep, Crash, Raise, PersistPlan, CreateSubtask, StartRound,
       ResetSubtask, BeginDag, ReadyWave, Dispatch, Gather, Expire, StopWorker, TimeOut,
       WaveOver, NoWave, BlockSubtask, Collect, Verdict, GiveUp, Replan, ReplanSubtask,
       NextRound, Escalate, Synthesize, Gate, Report, Close, RequeueSubtask, Resumed
  <2>3. ~Resume
    BY <1>1 DEF Resume, MayResume
  <2>4. ASSUME NEW w \in Workers, WorkerStep(w) PROVE mission' = mission
    BY <1>1, <2>4, WorkerKeeps DEF IInv
  <2>5. CASE RaiseAfter
    BY <2>5 DEF RaiseAfter
  <2> QED BY <1>1, <2>2, <2>3, <2>4, <2>5 DEF Next
<1>2. IInv /\ [Next]_vars => [mission.status \in Terminal => Stays]_vars
  BY <1>1
<1> QED
  BY <1>2, Invariance, PTL DEF Spec, TerminalIsFinal

\* A merge request reads as ready only if the run that filed it verified the
\* mission with no subtask left undone.
THEOREM ReadyMeansVerified == Spec => NeverFalseReady
<1>1. ASSUME IInv, Next, filed'.ready # filed.ready
      PROVE  mission.verdict = "pass" /\ failed = {}
  <2>1. CASE Report
    <3>1. filed \in [ready : Nat, draft : Nat]
      BY <1>1 DEF IInv, TypeOK
    <3>2. passed
      BY <1>1, <2>1, <3>1 DEF Report
    <3> QED BY <1>1, <2>1, <3>2 DEF IInv, VerdictMatchesControl, Report
  <2>2. CASE (ConductorStep \/ Crash \/ Raise \/ RaiseAfter \/ Resume) /\ ~Report
    <3>1. UNCHANGED filed
      BY <2>2 DEF ConductorStep, Crash, Raise, RaiseAfter, Resume, PersistPlan, CreateSubtask,
         StartRound, ResetSubtask, BeginDag, ReadyWave, Dispatch, Gather, Expire, StopWorker,
         TimeOut, WaveOver, NoWave, BlockSubtask, Collect, Verdict, GiveUp, Replan,
         ReplanSubtask, NextRound, Escalate, Synthesize, Gate, Close, RequeueSubtask,
         Resumed, history
    <3> QED BY <1>1, <3>1
  <2>3. ASSUME NEW w \in Workers, WorkerStep(w) PROVE UNCHANGED filed
    BY <2>3 DEF WorkerStep, WorkerStart, WorkerRegister, WorkerRun, WorkerFinish, WorkerCheck,
                WorkerWrite, WorkerDie, history
  <2> QED BY <1>1, <2>1, <2>2, <2>3 DEF Next
<1>2. IInv /\ [Next]_vars =>
        [filed'.ready # filed.ready => mission.verdict = "pass" /\ failed = {}]_vars
  BY <1>1
<1> QED
  BY <1>2, Invariance, PTL DEF Spec, NeverFalseReady

-----------------------------------------------------------------------------
(* The Conductor implements the mission lifecycle.                         *)

\* A step of the Conductor, a worker, a crash or a resumption is a step of
\* MissionLifecycle or leaves the mission row and what was filed alone.
LEMMA LifecycleStep ==
  ASSUME IInv, [Next]_vars
  PROVE  [Lifecycle!Next]_(Lifecycle!lifecycle)
<1> USE DEF local, fleet, history, Lifecycle!lifecycle, Lifecycle!Next
<1>0. /\ mission \in MissionRow /\ rnd \in Nat /\ filed \in [ready : Nat, draft : Nat]
      /\ RowMatchesControl /\ RoundMatchesRow /\ VerdictMatchesControl
  BY DEF IInv, TypeOK
<1>1. CASE PersistPlan
  BY <1>0, <1>1 DEF PersistPlan, RowMatchesControl, MissionRow, Lifecycle!Start
<1>2. CASE BeginDag
  <2>1. /\ mission.status \notin Terminal \cup {"planning"}
        /\ \/ rnd = mission.replan_count
           \/ /\ rnd = mission.replan_count + 1 /\ rnd <= MaxReplans
              /\ mission.status = "verifying" /\ mission.verdict = "fail"
    BY <1>0, <1>2 DEF BeginDag, RowMatchesControl, RoundMatchesRow
  <2>2. /\ mission'.status = "dispatched" /\ mission'.replan_count = rnd
        /\ mission'.verdict = mission.verdict /\ filed' = filed
    BY <1>0, <1>2 DEF BeginDag, MissionRow
  <2>3. rnd = mission.replan_count + 1 => mission.replan_count < MaxReplans
    BY <1>0, <2>1, MaxReplansAssumption DEF MissionRow
  <2> QED BY <2>1, <2>2, <2>3 DEF Lifecycle!Round, Lifecycle!Open, Lifecycle!Final, Terminal
<1>3. CASE Collect
  BY <1>0, <1>3 DEF Collect, RowMatchesControl, InDag, MissionRow, Lifecycle!Verify
<1>4. CASE \E p \in BOOLEAN : Verdict(p)
  BY <1>0, <1>4 DEF Verdict, RowMatchesControl, MissionRow, Lifecycle!Judge
<1>5. CASE Escalate
  BY <1>0, <1>5 DEF Escalate, Finish, RowMatchesControl, VerdictMatchesControl, AfterVerify,
                    MissionRow, Lifecycle!Settle
<1>6. CASE Synthesize
  BY <1>0, <1>6 DEF Synthesize, RowMatchesControl, VerdictMatchesControl, AfterVerify,
                    MissionRow, Lifecycle!Synthesize
<1>7. CASE Gate
  BY <1>0, <1>7 DEF Gate, Finish, RowMatchesControl, MissionRow, Lifecycle!Settle
<1>8. CASE Report
  BY <1>0, <1>8 DEF Report, RowMatchesControl, VerdictMatchesControl, MissionRow, Lifecycle!File
<1>9. CASE Close
  BY <1>0, <1>9 DEF Close, Finish, RowMatchesControl, VerdictMatchesControl, MissionRow,
                    Lifecycle!Settle
<1>10. CASE Raise
  BY <1>0, <1>10 DEF Raise, RowMatchesControl, MissionRow, Lifecycle!Settle, Lifecycle!Open,
                     Lifecycle!Final, Terminal
<1>14. CASE RaiseAfter
  BY <1>0, <1>14 DEF RaiseAfter, MissionRow, Lifecycle!Settle
<1>11. CASE /\ ConductorStep \/ Crash \/ Resume
            /\ ~(PersistPlan \/ BeginDag \/ Collect \/ (\E p \in BOOLEAN : Verdict(p)))
            /\ ~(Escalate \/ Synthesize \/ Gate \/ Report \/ Close)
  <2>1. UNCHANGED <<mission, filed>>
    BY <1>11 DEF ConductorStep, Crash, Resume, CreateSubtask, StartRound, ResetSubtask,
       ReadyWave, Dispatch, Gather, Expire, StopWorker, TimeOut, WaveOver, NoWave,
       BlockSubtask, GiveUp, Replan, ReplanSubtask, NextRound, RequeueSubtask, Resumed
  <2> QED BY <2>1
<1>12. ASSUME NEW w \in Workers, WorkerStep(w) PROVE UNCHANGED <<mission, filed>>
  BY <1>12 DEF WorkerStep, WorkerStart, WorkerRegister, WorkerRun, WorkerFinish, WorkerCheck,
               WorkerWrite, WorkerDie
<1>13. CASE UNCHANGED vars
  BY <1>13 DEF vars
<1> QED
  BY <1>1, <1>2, <1>3, <1>4, <1>5, <1>6, <1>7, <1>8, <1>9, <1>10, <1>11, <1>12, <1>13,
     <1>14 DEF Next

\* Whoever reads agents.missions sees the lifecycle MissionLifecycle promises.
THEOREM LifecycleImplemented == Spec => ImplementsLifecycle
<1>1. Init => Lifecycle!Init
  BY DEF Init, Lifecycle!Init
<1> QED
  BY <1>1, LifecycleStep, Invariance, PTL DEF Spec, ImplementsLifecycle, Lifecycle!Spec
=============================================================================
