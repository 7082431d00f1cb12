SPECIFICATION FairSpec
CONSTANTS
  Workers = {w1, w2}
  Messages = {m1}
  NoMessage = NoMessage
  Configured = {m1}
  Lease = 1
  BackoffCap = 1
  MaxAttempts = 2
  BatchLimit = 2
  MaxTime = 5
  MaxFaults = 2
  LastFault = 3
  MaxSwitches = 1
INVARIANTS ResendsExplained SentMeansAccepted FailedMeansExhausted RetryBounded
PROPERTY EventuallySettled
CHECK_DEADLOCK FALSE
