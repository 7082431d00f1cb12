SPECIFICATION Spec
CONSTANTS
  Workers = {w1}
  Clerks = {c1}
  Ids = {r1, r2, r3}
  Users = {ua, ub}
  NoUser = NoUser
  NoId = NoId
  Offsets = {1}
  EscalateBefore = 0
  NotifyOwner = FALSE
  EventTimes = {2, 3}
  Lease = 1
  BackoffCap = 2
  MaxAttempts = 2
  BatchLimit = 2
  MaxTime = 4
  MaxEdits = 3
  MaxFaults = 0
  LastFault = 4
INVARIANT HandoverCovered
CHECK_DEADLOCK FALSE
