---------------------------- MODULE ConductorInv ----------------------------
(***************************************************************************)
(* The inductive invariant of Conductor: what holds at each control point  *)
(* of the mission loop whatever the workers, crashes and resumptions do.   *)
(***************************************************************************)
EXTENDS Conductor

InDag == {"wave", "spawn", "wait", "stop", "timeout", "block"}
AfterVerify == {"replan?", "replan", "exhausted"}

\* The mission row agrees with where the Conductor is.
RowMatchesControl ==
  /\ mission.status = "planning" => pc \in {"plan", "off"} /\ Rows = {}
  /\ pc = "plan" => mission.status = "planning"
  /\ pc # "off" => mission.status \notin Terminal
  /\ pc \in InDag => mission.status = "dispatched"
  /\ pc \in AfterVerify \cup {"verify", "synthesize"} => mission.status = "verifying"
  /\ pc \in {"report", "finish"} => mission.status = "synthesizing"

\* The round counter and the persisted replan_count are at most one apart,
\* and apart only between a failed verdict and the end of the next reset.
RoundMatchesRow ==
  /\ mission.replan_count <= MaxReplans
  /\ rnd <= MaxReplans
  /\ pc \in {"plan", "create"} => rnd = 0 /\ mission.replan_count = 0
  /\ pc \in InDag \cup AfterVerify \cup {"verify"} => mission.replan_count = rnd
  /\ pc = "replan" => rnd < MaxReplans
  /\ pc \in {"round", "reset"} =>
       \/ rnd = mission.replan_count
       \/ rnd = mission.replan_count + 1 /\ mission.status = "verifying"
                                         /\ mission.verdict = "fail"

\* The stored verdict is the one the current run reached.
VerdictMatchesControl ==
  /\ pc \in AfterVerify => mission.verdict = "fail" /\ ~passed
  /\ pc = "synthesize" => mission.verdict = "pass" /\ passed /\ failed = {}
  /\ pc \in {"report", "finish"} =>
       /\ mission.verdict = IF passed THEN "pass" ELSE "fail"
       /\ passed => failed = {}
  /\ pc = "finish" => IF passed THEN filed.ready > 0 ELSE filed.draft > 0

Unspawned(s) == <<s, subs[s].attempt>> \notin dispatched

\* Whatever can still be spawned in this round is on an attempt nobody has.
AttemptsAreFresh ==
  /\ \A d \in dispatched : d[2] <= subs[d[1]].attempt
  /\ pc \in {"plan", "create"} => dispatched = {}
  /\ pc = "wave" => \A s \in Status("pending") : Unspawned(s)
  /\ pc = "spawn" => /\ todo \subseteq waiting
                     /\ \A s \in todo : Unspawned(s)
                     /\ \A s \in Status("pending") : s \in waiting \/ Unspawned(s)
  /\ pc = "wait" => \A s \in Status("pending") : s \in waiting \/ Unspawned(s)
  /\ pc \in {"stop", "timeout"} =>
       /\ \E s \in Subtasks : todo = {s}
       /\ \A s \in Status("pending") : s \in waiting \cup todo \/ Unspawned(s)
  /\ pc = "reset" => \A s \in Status("pending") : s \in todo \/ Unspawned(s)

\* A row is done only once a worker delivered, and what is about to be
\* spawned has all it depends on.
DoneWasDelivered ==
  /\ Status("done") \subseteq everDone
  /\ pc = "spawn" => \A s \in todo : DependsOn[s] \subseteq everDone

\* A process or a subtask about to be spawned has a row in the database.
WorkersHaveRows ==
  /\ \A w \in Workers : worker[w].pc # "idle" => worker[w].sub \in Rows
  /\ pc = "spawn" => todo \subseteq Rows

\* A subtask that can still be spawned in this round has not used the round
\* up; a resumption grants one more, to repeat the round it cut short.
Spent(s) == Cardinality({d \in dispatched : d[1] = s})
Budgeted ==
  /\ IsFiniteSet(dispatched)
  /\ \A s \in Subtasks :
       /\ Spent(s) <= mission.replan_count + 1 + resumes
       /\ pc \in {"round", "reset"} => Spent(s) <= rnd + resumes
       /\ pc = "requeue" => Spent(s) <= mission.replan_count + resumes
       /\ pc \in InDag /\ Unspawned(s) => Spent(s) <= mission.replan_count + resumes

IInv ==
  /\ TypeOK
  /\ WorkersHaveRows
  /\ RowMatchesControl
  /\ RoundMatchesRow
  /\ VerdictMatchesControl
  /\ SettledMatchesVerdict
  /\ AttemptsAreFresh
  /\ DoneWasDelivered
  /\ DependenciesFirst
  /\ Budgeted
=============================================================================
