\* Both ends of an exhausted gate, with a model that flakes whenever it can.
SPECIFICATION FairSpec
CONSTANTS
  Keys = {s1, s2}
  Reviewers = {r1, r2, r3}
  MaxRounds = 2
  MaxJudgeAttempts = 3
  GateOn = TRUE
  DesignOn = TRUE
  OnExhausted = {"proceed", "stop"}
  DbTakesModel = {TRUE, FALSE}
  Faults = {"flake", "raise", "crash"}
INVARIANTS ReturnedIsRecorded BuildsWhatWasReviewed
PROPERTIES IntakeEnds
CHECK_DEADLOCK FALSE
