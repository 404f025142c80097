\* Four small settings, each from the start: an archive beside an agent that takes
\* facts; two archives of one job; an archive, a note and a flush; two notes of a
\* session and a flush.  Calls fail, Redis loses its scripts, a fact expires.
SPECIFICATION Spec
CONSTANTS
  a1 = a1
  a2 = a2
  n1 = n1
  n2 = n2
  x1 = x1
  file = file
  Facts = {1, 2, 3}
  KeyOf <- Keys
  JobOf <- Jobs
  Plain = {"shared", "plain"}
  Mortal = {3}
  Page = 2
  Consumers = {c1}
  Archives = {a1, a2}
  ArchiveOf <- Job
  Notes = {n1, n2}
  SessionOf <- Session
  Mentioned <- Names
  Flushes = {x1}
  Together <- Some
  CanFail = TRUE
INVARIANTS TakenOnce LinksResolve SiblingsLinked CleanUpIsCovered
CHECK_DEADLOCK FALSE
