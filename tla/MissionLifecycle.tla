-------------------------- MODULE MissionLifecycle --------------------------
(***************************************************************************)
(* What a mission row promises to whoever reads agents.missions (the       *)
(* operator, --resume, the fleet dashboard), without subtasks, workers or  *)
(* the Conductor's control state: rounds only grow and only after a        *)
(* failed verdict, what is filed agrees with the verdict, and a mission    *)
(* that is done, failed or partial stays so or turns failed.  Conductor    *)
(* implements it.                                                          *)
(***************************************************************************)
EXTENDS Naturals

CONSTANT MaxReplans

VARIABLES status, replan_count, verdict, filed

lifecycle == <<status, replan_count, verdict, filed>>

Final == {"done", "failed", "partial"}
Open == status \notin Final

Start ==
  /\ status = "planning"
  /\ status' = "dispatched"
  /\ UNCHANGED <<replan_count, verdict, filed>>

\* A round: the one already counted, again (--resume), or a new one after a
\* failed verdict.
Round ==
  /\ Open /\ status # "planning"
  /\ status' = "dispatched"
  /\ \/ replan_count' = replan_count
     \/ /\ status = "verifying" /\ verdict = "fail" /\ replan_count < MaxReplans
        /\ replan_count' = replan_count + 1
  /\ UNCHANGED <<verdict, filed>>

Verify ==
  /\ status = "dispatched"
  /\ status' = "verifying"
  /\ UNCHANGED <<replan_count, verdict, filed>>

Judge ==
  /\ status = "verifying"
  /\ verdict' \in {"pass", "fail"}
  /\ UNCHANGED <<status, replan_count, filed>>

Synthesize ==
  /\ status = "verifying" /\ verdict # "none"
  /\ status' = "synthesizing"
  /\ UNCHANGED <<replan_count, verdict, filed>>

\* A ready merge request for a verified mission, a draft for the others.
File ==
  /\ status = "synthesizing"
  /\ filed' = IF verdict = "pass" THEN [filed EXCEPT !.ready = @ + 1]
                                  ELSE [filed EXCEPT !.draft = @ + 1]
  /\ UNCHANGED <<status, replan_count, verdict>>

Settle ==
  /\ \/ status = "verifying" /\ verdict = "fail" /\ status' = "escalated"
     \/ status = "synthesizing" /\ status' = "gated"
     \/ status = "synthesizing" /\ verdict = "pass" /\ filed.ready > 0 /\ status' = "done"
     \/ status = "synthesizing" /\ verdict = "fail" /\ filed.draft > 0 /\ status' = "partial"
     \/ status' = "failed"
  /\ UNCHANGED <<replan_count, verdict, filed>>

Init ==
  /\ status = "planning" /\ replan_count = 0 /\ verdict = "none"
  /\ filed = [ready |-> 0, draft |-> 0]

Next == Start \/ Round \/ Verify \/ Judge \/ Synthesize \/ File \/ Settle

Spec == Init /\ [][Next]_lifecycle
=============================================================================
