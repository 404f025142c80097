\* The Conductor dies or raises anywhere, also after its last write, or waits at its
\* report gate, and is resumed while old workers still run.
SPECIFICATION Spec
CONSTANTS
  Subtasks = {1, 2}
  DependsOn <- Chain
  Workers = {w1, w2}
  MaxReplans = 1
  MaxResumes = 1
  OnExhausted = "escalate"
  GateBeforeReport = {"run"}
  Faults = {"crash", "raise"}
SYMMETRY Symmetry
INVARIANT DispatchBudget
PROPERTIES DispatchOncePerAttempt ImplementsLifecycle
CHECK_DEADLOCK FALSE
