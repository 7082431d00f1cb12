SPECIFICATION FairSpec
CONSTANTS
  Workers = {w1, w2}
  Clerks = {c1}
  Ids = {r1, r2}
  Users = {ua}
  NoUser = NoUser
  NoId = NoId
  Offsets = {1}
  EscalateBefore = 0
  NotifyOwner = FALSE
  EventTimes = {2}
  Lease = 1
  BackoffCap = 1
  MaxAttempts = 2
  BatchLimit = 1
  MaxTime = 5
  MaxEdits = 2
  MaxFaults = 1
  LastFault = 3
INVARIANTS NotifiedOnce SentMeansNotified FailedMeansExhausted LockBounded
PROPERTY ImplementsContract
CHECK_DEADLOCK FALSE
