\* Two repositories, two panes, two requests at a time; one spawn per window.
SPECIFICATION Spec
CONSTANTS
  Repos = {a, b}
  Panes = {p1, p2}
  Requests = {q1, q2}
  RATE_MAX = 1
  None = None
  Bounds <- Small
INVARIANTS OneWindow RateKept
PROPERTIES LocksAreReleased RevivesTheLost
CHECK_DEADLOCK FALSE
