\* Two agents, a message and a request, a queue of one, and any one fault.
SPECIFICATION FairSpec
CONSTANTS
  Panes = {p1, p2}
  Reqs = {r1}
  MaxSends = 1
  MaxReplies = 1
  MaxDrafts = 1
  QueueMax = 1
  Faults = {"publish", "ack", "send", "die", "list", "restart"}
  MaxFaults = 1
INVARIANTS AccountedFor ComesOnce
PROPERTIES CallersSettle HeldIsTyped
CHECK_DEADLOCK FALSE
