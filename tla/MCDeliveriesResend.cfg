SPECIFICATION Spec
CONSTANTS
  Workers = {w1, w2}
  Messages = {m1, m2}
  NoMessage = NoMessage
  Configured = {m1, m2}
  Lease = 1
  BackoffCap = 1
  MaxAttempts = 2
  BatchLimit = 2
  MaxTime = 6
  MaxFaults = 0
  LastFault = 3
  MaxSwitches = 0
INVARIANT ResendNeedsCrash
SYMMETRY Symmetry
CHECK_DEADLOCK FALSE
