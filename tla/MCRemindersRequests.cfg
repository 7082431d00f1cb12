SPECIFICATION Spec
CONSTANTS
  Workers = {w1}
  Clerks = {c1, c2}
  Ids = {r1, r2, r3}
  Users = {ua, ub}
  NoUser = NoUser
  NoId = NoId
  Offsets = {1}
  EscalateBefore = 1
  NotifyOwner = FALSE
  EventTimes = {2, 3}
  Lease = 1
  BackoffCap = 2
  MaxAttempts = 2
  BatchLimit = 2
  MaxTime = 3
  MaxEdits = 3
  MaxFaults = 0
  LastFault = 3
INVARIANTS UnclaimedFollowsEvent UpcomingCovered
SYMMETRY Symmetry
CHECK_DEADLOCK FALSE
