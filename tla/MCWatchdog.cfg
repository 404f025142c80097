\* Two panes, a hook process beside the loop.  Two sessions, one in a pane used
\* again or each in its own, and one denial; or one session and two denials; or
\* one session, one denial and one fault.
SPECIFICATION Spec
CONSTANTS
  Panes = {p1, p2}
  First = p1
  Hooks = {h1}
  Ring <- FourModes
  Start = "auto"
  MAX_CYCLES = 5
  THRESHOLD = 1
  Sessions = {1, 2}
  Bounds <- Small
INVARIANTS InnocentUntouched ModeIsAccountedFor DenialsAreSpent
PROPERTY EscalationEnds
CHECK_DEADLOCK FALSE
