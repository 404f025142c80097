\* Three hooks, a database that fails twice and a flush that is killed once.
SPECIFICATION FairLogSpec
CONSTANTS
  Events = {e1, e2, e3}
  Files = {1, 2, 3, 4}
  NoFile = 0
  MaxFails = 2
  MaxCrashes = 1
INVARIANTS KeptUnlessLate RepeatsNeedFailure
PROPERTY LoggedIsStored
CHECK_DEADLOCK FALSE
