\* A crash between two create_subtask calls, then --resume.
SPECIFICATION Spec
CONSTANTS
  Subtasks = {1, 2}
  DependsOn <- Chain
  Workers = {w1, w2}
  MaxReplans = 0
  MaxResumes = 1
  OnExhausted = "escalate"
  GateBeforeReport = {}
  Faults = {"crash"}
INVARIANT WholePlanDone
CHECK_DEADLOCK FALSE
