\* Two panes, two overlapping polls, spawns, exits, a drop, a refused subscription and
\* stray reconnect timers.
SPECIFICATION FairSpec
CONSTANTS
  Panes = {a, b}
  Polls = {p1, p2}
  MaxChanges = 2
  MaxFaults = 1
  MaxTimers = 2
INVARIANTS SubscriptionCoversRoster ToldIsShown
PROPERTIES FleetIsCovered
CHECK_DEADLOCK FALSE
