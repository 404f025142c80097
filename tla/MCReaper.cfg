\* Two panes; a tick is the slop, a sweep comes every two, as long as the warning.  Two
\* acts of humans; or one and a pane opened again; or one and a failure, with a timer
\* that is on time or late.
SPECIFICATION ReapSpec
CONSTANTS
  Panes = {p1, p2}
  IDLE = 4
  LEAD = 2
  SLOP = 1
  Period = 2
  Limits <- Small
INVARIANTS WarnedBeforeClosed ClosedWasJudged
PROPERTIES SparedForHumans IdleAreClosed
CHECK_DEADLOCK FALSE
