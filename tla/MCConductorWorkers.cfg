\* A full run with its re-plan: slow, refused, hung, dead, unkillable and subprocess workers.
SPECIFICATION FairSpec
CONSTANTS
  Subtasks = {1, 2}
  DependsOn <- Chain
  Workers = {w1, w2}
  MaxReplans = 1
  MaxResumes = 0
  OnExhausted = "partial"
  GateBeforeReport = {}
  Faults = {"workspace", "kill", "gone", "die", "fallback"}
INVARIANTS DependenciesFirst SettledMatchesVerdict
PROPERTIES NeverFalseReady RunEnds
CHECK_DEADLOCK FALSE
