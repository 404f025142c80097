------------------------- MODULE MissionIntakeProofs -------------------------
(***************************************************************************)
(* What holds of MissionIntake for every plan, reviewer fleet, number of   *)
(* rounds and combination of flakes, exceptions and crashes.               *)
(***************************************************************************)
EXTENDS MissionIntake, TLAPS

\* Which revision is in hand at each place: the gate reviews revision rnd + 1,
\* and only what it let pass is persisted.
PlanInHand ==
  /\ pc \in {"classify", "create", "design", "plan"} =>
       plan = [rev |-> 0, keys |-> {}] /\ rnd = 0
  /\ pc \in {"review", "revise"} => plan.rev = rnd + 1
  /\ pc = "revise" => MayRevise
  /\ GateOn /\ pc \in {"persist", "rows"} =>
       reviewed = plan.rev /\ decision \in {"approved", "forced"}

\* Rows exist only of a run that persists them or has.
RowsOfPlan ==
  /\ rows # {} => pc \in {"rows", "end", "off"}
  /\ todo \subseteq Keys
  /\ returned = "built" => rows # {}
  /\ GateOn /\ rows # {} => reviewed = plan.rev /\ decision \in {"approved", "forced"}
  /\ \A r \in rows : r.rev = plan.rev

\* Nothing is returned, and nothing failed, before the run ends.
Settled ==
  /\ pc # "end" => returned = "none" /\ mission # "failed"
  /\ rows # {} => mission # "absent"
  /\ pc \in {"persist", "rows"} => mission \in {"planning", "dispatched"}
  /\ pc \in {"design", "plan", "review", "revise", "halt"} => mission = "planning"

\* The inductive invariant.
IInv == TypeOK /\ PlanInHand /\ RowsOfPlan /\ Settled /\ ReturnedIsRecorded

-----------------------------------------------------------------------------
\* A run starts in the invariant.
LEMMA InitInv == Init => IInv
BY RoundsAssumption
   DEF Init, IInv, TypeOK, PlanInHand, RowsOfPlan, Settled, ReturnedIsRecorded, Revs, Judges

\* Failing, from wherever the run is, records what it returns.
LEMMA FailInv ==
  ASSUME IInv, pc # "end", Fail, tries' \in 0 .. MaxJudgeAttempts - 1,
         UNCHANGED <<rows, plan, rnd, todo, reviewed, decision>>
  PROVE  IInv'
BY DEF Fail, IInv, TypeOK, PlanInHand, RowsOfPlan, Settled, ReturnedIsRecorded

\* The places of run_mission differ from one another.
LEMMA Places ==
  /\ "end" \notin Judges /\ "off" \notin Judges
  /\ Judges = {"classify", "design", "plan", "revise"}
BY DEF Judges

\* Every step keeps the invariant.
LEMMA NextInv == IInv /\ [Next]_vars => IInv'
<1> SUFFICES ASSUME IInv, [Next]_vars PROVE IInv'
  OBVIOUS
<1> USE DEF IInv, TypeOK, PlanInHand, RowsOfPlan, Settled, ReturnedIsRecorded, Revs
<1>0. 0 \in 0 .. MaxJudgeAttempts - 1 /\ MaxRounds \in Nat /\ MaxJudgeAttempts \in Nat
  BY RoundsAssumption
<1>1. CASE JudgeFlakes
  <2>1. pc # "end"
    BY <1>1, Places DEF JudgeFlakes
  <2>2. CASE tries + 1 < MaxJudgeAttempts
    <3>1. UNCHANGED <<pc, mission, rows, plan, rnd, todo, returned, reviewed, decision>>
      BY <1>1, <2>2 DEF JudgeFlakes, Retry
    <3>2. tries' \in 0 .. MaxJudgeAttempts - 1
      BY <1>0, <1>1, <2>2 DEF JudgeFlakes, Retry
    <3> QED BY <3>1, <3>2 DEF MayRevise
  <2>3. CASE ~(tries + 1 < MaxJudgeAttempts)
    <3>1. Fail /\ tries' = 0 /\ UNCHANGED <<rows, plan, rnd, todo, reviewed, decision>>
      BY <1>1, <2>3 DEF JudgeFlakes, Retry
    <3> QED BY <1>0, <2>1, <3>1, FailInv
  <2> QED BY <2>2, <2>3
<1>2. CASE Classify
  BY <1>0, <1>2, Places DEF Classify, JudgeReturns
<1>3. CASE CreateMission
  <2>1. CASE /\ mission' = "planning"
             /\ pc' = IF GateOn /\ DesignOn THEN "design" ELSE "plan"
             /\ UNCHANGED returned
    BY <1>3, <2>1, Places DEF CreateMission
  <2>2. CASE Fail
    BY <1>3, <2>2, FailInv DEF CreateMission
  <2> QED BY <1>3, <2>1, <2>2 DEF CreateMission
<1>4. CASE Design
  BY <1>0, <1>4, Places DEF Design, JudgeReturns
<1>5. CASE Plan
  <2> PICK keys \in SUBSET Keys : plan' = [rev |-> plan.rev + 1, keys |-> keys]
    BY <1>5 DEF Plan, NewPlan
  <2>1. plan' = [rev |-> 1, keys |-> keys]
    BY <1>5 DEF Plan, JudgeReturns
  <2>2. plan' \in [rev : Revs, keys : SUBSET Keys]
    BY <1>0, <2>1
  <2> QED BY <1>0, <1>5, <2>1, <2>2, Places DEF Plan, JudgeReturns
<1>6. CASE Review
  <2>1. /\ pc = "review" /\ reviewed' = plan.rev
        /\ UNCHANGED <<tries, mission, rows, plan, rnd, todo, returned>>
        /\ \/ decision' = "approved" /\ pc' = "persist"
           \/ MayRevise /\ pc' = "revise" /\ UNCHANGED decision
           \/ decision' = "forced" /\ pc' = "persist"
           \/ decision' = "stop" /\ pc' = "halt"
    BY <1>6 DEF Review
  <2> QED BY <2>1, Places DEF MayRevise
<1>7. CASE Revise
  <2> PICK keys \in SUBSET Keys : plan' = [rev |-> plan.rev + 1, keys |-> keys]
    BY <1>7 DEF Revise, NewPlan
  <2>1. rnd' = rnd + 1 /\ rnd' \in 0 .. MaxRounds
    BY <1>0, <1>7 DEF Revise, JudgeReturns, MayRevise
  <2>2. plan'.rev = rnd' + 1 /\ plan' \in [rev : Revs, keys : SUBSET Keys]
    BY <1>0, <1>7, <2>1 DEF Revise, JudgeReturns
  <2> QED BY <1>0, <1>7, <2>1, <2>2, Places DEF Revise, JudgeReturns, AfterRevise
<1>8. CASE Halt
  BY <1>8, FailInv DEF Halt, HaltMission
<1>9. CASE Persist
  BY <1>9, Places DEF Persist
<1>10. CASE CreateSubtask
  <2> PICK k \in todo : /\ rows' = rows \cup {[rev |-> plan.rev, key |-> k]}
                        /\ todo' = todo \ {k}
    BY <1>10 DEF CreateSubtask
  <2>1. [rev |-> plan.rev, key |-> k] \in [rev : Revs, key : Keys]
    OBVIOUS
  <2>2. \A r \in rows' : r.rev = plan.rev
    OBVIOUS
  <2> QED BY <1>10, <2>1, <2>2 DEF CreateSubtask
<1>11. CASE StartBuild
  <2>1. CASE rows = {}
    BY <1>11, <2>1, FailInv DEF StartBuild, HandOver
  <2>2. CASE rows # {}
    BY <1>11, <2>2 DEF StartBuild, HandOver
  <2> QED BY <2>1, <2>2
<1>12. CASE Raise
  BY <1>12, FailInv DEF Raise, Running
<1>13. CASE Crash
  BY <1>13 DEF Crash, Running
<1>14. CASE Resume
  BY <1>14 DEF Resume
<1>15. CASE UNCHANGED vars
  BY <1>15 DEF vars, MayRevise
<1> QED
  BY <1>1, <1>2, <1>3, <1>4, <1>5, <1>6, <1>7, <1>8, <1>9, <1>10, <1>11, <1>12, <1>13,
     <1>14, <1>15 DEF Next, Step

-----------------------------------------------------------------------------
\* The invariant the properties below rest on: at each place of run_mission, which
\* revision is in hand and what the row may say (conductor.py 2310-2383).
THEOREM Invariance == Spec => []IInv
BY InitInv, NextInv, PTL DEF Spec

\* Every variable keeps its type; the gate sees at most one plan per round.
THEOREM TypeCorrect == Spec => []TypeOK
<1>1. IInv => TypeOK
  BY DEF IInv
<1> QED BY <1>1, Invariance, PTL

\* What is built is the one revision the gate last reviewed and let pass
\* (conductor.py 1473-1507, 2337-2364, 2401-2403).
THEOREM BuiltIsReviewed == Spec => []BuildsWhatWasReviewed
<1>1. IInv => BuildsWhatWasReviewed
  BY DEF IInv, RowsOfPlan, BuildsWhatWasReviewed
<1> QED BY <1>1, Invariance, PTL

\* What the caller is told agrees with the mission's row (conductor.py 2339-2381).
THEOREM ReturnIsRecorded == Spec => []ReturnedIsRecorded
<1>1. IInv => ReturnedIsRecorded
  BY DEF IInv
<1> QED BY <1>1, Invariance, PTL
=============================================================================
