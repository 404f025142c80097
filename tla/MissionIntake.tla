---------------------------- MODULE MissionIntake ----------------------------
(***************************************************************************)
(* The head of run_mission (agent-runner/conductor.py): classify the goal, *)
(* create the mission's row, design, plan, pass the plan gate, persist the *)
(* plan and its subtasks; and what --resume makes of a run that died on    *)
(* the way.  What is built then is module Conductor's.                     *)
(*                                                                         *)
(* A judgment is an LLM call that may flake and is retried; a plan is the  *)
(* number of its revision and the keys of its subtasks; the reviewers run  *)
(* concurrently, are read-only, and are gathered before anything else      *)
(* happens.  The tracker card and the event log are left out.              *)
(***************************************************************************)
EXTENDS Naturals, FiniteSets

CONSTANTS
  Keys,              \* subtask ids a plan may have
  Reviewers,         \* the plan gate's reviewers
  MaxRounds,         \* plan_gate.max_rounds
  MaxJudgeAttempts,  \* policy.judge_max_attempts
  GateOn, DesignOn,  \* plan_gate.enabled, plan_gate.design
  OnExhausted,       \* the values plan_gate.on_exhausted may have
  DbTakesModel,      \* whether Db.create_mission has the parameter `model': a set of answers
  Faults             \* which of AllFaults happen

AllFaults ==
  {"flake",  \* a judgment returns an error or nothing that parses
   "raise",  \* an exception, but for the database's, which fail the handler too
   "crash"}  \* the process dies, or loses its database

ASSUME RoundsAssumption == MaxRounds \in Nat /\ MaxJudgeAttempts \in Nat \ {0}
ASSUME ReviewersAssumption == IsFiniteSet(Reviewers) /\ Reviewers # {}
ASSUME GateAssumption ==
  /\ GateOn \in BOOLEAN /\ DesignOn \in BOOLEAN /\ DbTakesModel \subseteq BOOLEAN
  /\ OnExhausted \in SUBSET {"proceed", "escalate", "stop"} \ {{}}
  /\ Faults \subseteq AllFaults

VARIABLES
  pc, tries,          \* run_mission's place, judge's attempt
  mission,            \* status of the row in agents.missions
  rows,               \* agents.mission_subtasks: which revision's which subtask
  plan, rnd, todo,    \* the plan in hand, the gate's round, rows still to create
  returned,           \* what run_mission or resume_mission returned
  reviewed, decision  \* history: the revision last reviewed, the gate's answer

vars == <<pc, tries, mission, rows, plan, rnd, todo, returned, reviewed, decision>>

-----------------------------------------------------------------------------
\* judge: one call to the model.
Judges == {"classify", "design", "plan", "revise"}

JudgeReturns(node) == pc = node /\ tries' = 0

Fail ==
  /\ returned' = "failed"
  /\ mission' = IF mission = "absent" THEN "absent" ELSE "failed"
  /\ pc' = "end"

\* (bug: no attempt is the last one)
Retry_Forever ==
  tries' = (tries + 1) % MaxJudgeAttempts /\ UNCHANGED <<pc, mission, returned>>
\* Another attempt, or the error propagates to run_mission's handler.
Retry ==
  IF tries + 1 < MaxJudgeAttempts
  THEN tries' = tries + 1 /\ UNCHANGED <<pc, mission, returned>>
  ELSE tries' = 0 /\ Fail

JudgeFlakes ==
  /\ "flake" \in Faults
  /\ pc \in Judges
  /\ Retry
  /\ UNCHANGED <<rows, plan, rnd, todo, reviewed, decision>>

Classify ==
  /\ JudgeReturns("classify")
  /\ pc' = "create"
  /\ UNCHANGED <<mission, rows, plan, rnd, todo, returned, reviewed, decision>>

\* A keyword the function does not have is a TypeError; there is no row yet.
CreateMission ==
  /\ pc = "create"
  /\ \/ /\ TRUE \in DbTakesModel
        /\ mission' = "planning"
        /\ pc' = IF GateOn /\ DesignOn THEN "design" ELSE "plan"
        /\ UNCHANGED returned
     \/ FALSE \in DbTakesModel /\ Fail
  /\ UNCHANGED <<tries, rows, plan, rnd, todo, reviewed, decision>>

Design ==
  /\ JudgeReturns("design")
  /\ pc' = "plan"
  /\ UNCHANGED <<mission, rows, plan, rnd, todo, returned, reviewed, decision>>

NewPlan == \E keys \in SUBSET Keys : plan' = [rev |-> plan.rev + 1, keys |-> keys]

Plan ==
  /\ JudgeReturns("plan")
  /\ NewPlan
  /\ pc' = IF GateOn THEN "review" ELSE "persist"
  /\ UNCHANGED <<mission, rows, rnd, todo, returned, reviewed, decision>>

-----------------------------------------------------------------------------
(* run_plan_gate.                                                          *)

\* A majority passes and nobody found a blocker (a pass may carry one).
Approved(passing, blocking) ==
  Cardinality(passing) >= Cardinality(Reviewers) \div 2 + 1 /\ blocking = {}

MayRevise == rnd < MaxRounds

Review ==
  /\ pc = "review"
  /\ reviewed' = plan.rev
  /\ \E passing, blocking \in SUBSET Reviewers :
       \/ /\ Approved(passing, blocking)
          /\ decision' = "approved"
          /\ pc' = "persist"
       \/ /\ ~Approved(passing, blocking)
          /\ MayRevise
          /\ pc' = "revise"
          /\ UNCHANGED decision
       \/ /\ ~Approved(passing, blocking)
          /\ ~MayRevise
          /\ \/ /\ "proceed" \in OnExhausted
                /\ decision' = "forced" /\ pc' = "persist"
             \/ /\ OnExhausted # {"proceed"}
                /\ decision' = "stop" /\ pc' = "halt"
  /\ UNCHANGED <<tries, mission, rows, plan, rnd, todo, returned>>

\* (bug: the revised plan is taken for an approved one)
AfterRevise_Build == "persist"
\* The loop's next round reviews the revised plan.
AfterRevise == "review"

Revise ==
  /\ JudgeReturns("revise")
  /\ NewPlan
  /\ rnd' = rnd + 1
  /\ pc' = AfterRevise
  /\ UNCHANGED <<mission, rows, todo, returned, reviewed, decision>>

\* (bug: the halted mission is not finished)
HaltMission_Open == pc' = "end" /\ returned' = "failed" /\ UNCHANGED mission
HaltMission == Fail

Halt ==
  /\ pc = "halt"
  /\ HaltMission
  /\ UNCHANGED <<tries, rows, plan, rnd, todo, reviewed, decision>>

-----------------------------------------------------------------------------
(* The plan is persisted, one autocommitted statement at a time.           *)

Persist ==
  /\ pc = "persist"
  /\ mission' = "dispatched"
  /\ todo' = plan.keys
  /\ pc' = "rows"
  /\ UNCHANGED <<tries, rows, plan, rnd, returned, reviewed, decision>>

CreateSubtask ==
  /\ pc = "rows"
  /\ \E k \in todo :
       /\ rows' = rows \cup {[rev |-> plan.rev, key |-> k]}
       /\ todo' = todo \ {k}
  /\ UNCHANGED <<pc, tries, mission, plan, rnd, returned, reviewed, decision>>

\* finalize takes over, unless the plan is empty.
HandOver ==
  IF rows = {} THEN Fail
  ELSE pc' = "end" /\ returned' = "built" /\ UNCHANGED mission

StartBuild ==
  /\ pc = "rows" /\ todo = {}
  /\ HandOver
  /\ UNCHANGED <<tries, rows, plan, rnd, todo, reviewed, decision>>

-----------------------------------------------------------------------------
Running == pc \notin {"end", "off"}

\* An exception anywhere ends the run through run_mission's handler.
Raise ==
  /\ "raise" \in Faults
  /\ Running
  /\ Fail
  /\ UNCHANGED <<tries, rows, plan, rnd, todo, reviewed, decision>>

Crash ==
  /\ "crash" \in Faults
  /\ Running
  /\ pc' = "off"
  /\ UNCHANGED <<tries, mission, rows, plan, rnd, todo, returned, reviewed, decision>>

\* resume_mission, for a run that died before it was handed over.
Resume ==
  /\ pc = "off"
  /\ mission # "absent"
  /\ pc' = "end"
  /\ returned' = IF rows # {} THEN "built" ELSE "unresumable"
  /\ UNCHANGED <<tries, mission, rows, plan, rnd, todo, reviewed, decision>>

-----------------------------------------------------------------------------
Init ==
  /\ pc = "classify" /\ tries = 0
  /\ mission = "absent" /\ rows = {}
  /\ plan = [rev |-> 0, keys |-> {}] /\ rnd = 0 /\ todo = {}
  /\ returned = "none" /\ reviewed = 0 /\ decision = "none"

\* One step of the process itself; a flake is a step too.
Step ==
  \/ JudgeFlakes \/ Classify \/ CreateMission \/ Design \/ Plan
  \/ Review \/ Revise \/ Halt
  \/ Persist \/ CreateSubtask \/ StartBuild
  \/ Raise

Next == Step \/ Crash \/ Resume

Spec == Init /\ [][Next]_vars

\* A process that is running takes its next step.
FairSpec == Spec /\ WF_vars(Step)

-----------------------------------------------------------------------------
Revs == 0 .. MaxRounds + 1

\* Every variable has its type: a mission sees at most one plan per round of
\* the gate.
TypeOK ==
  /\ pc \in Judges \cup {"create", "review", "halt", "persist", "rows", "end", "off"}
  /\ tries \in 0 .. MaxJudgeAttempts - 1
  /\ mission \in {"absent", "planning", "dispatched", "failed"}
  /\ rows \subseteq [rev : Revs, key : Keys]
  /\ plan \in [rev : Revs, keys : SUBSET Keys]
  /\ rnd \in 0 .. MaxRounds
  /\ todo \subseteq Keys
  /\ returned \in {"none", "failed", "built", "unresumable"}
  /\ reviewed \in Revs
  /\ decision \in {"none", "approved", "forced", "stop"}

\* What is built is one revision of the plan, the one the gate last reviewed
\* and let pass; a plan the gate stopped, or an empty one, is never built, not
\* by --resume either (conductor.py 1473-1507, 2337-2364, 2401-2403).
BuildsWhatWasReviewed ==
  /\ returned = "built" => rows # {}
  /\ GateOn /\ rows # {} => decision \in {"approved", "forced"}
  /\ \A r \in rows : r.rev = plan.rev /\ (GateOn => r.rev = reviewed)

\* What the caller is told is what the row says: failed is failed, and what is
\* handed over or cannot be resumed is not (conductor.py 2339-2345, 2375-2381).
ReturnedIsRecorded ==
  /\ returned = "failed" => mission \in {"absent", "failed"}
  /\ returned \in {"built", "unresumable"} => mission \in {"planning", "dispatched"}

\* Whatever the model and the reviewers answer, the intake of a live process
\* ends (conductor.py 446-475, 1479, 2310-2383).
IntakeEnds == <>~Running
=============================================================================
