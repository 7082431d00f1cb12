SPECIFICATION Spec
CONSTANTS
  w1 = w1
  r1 = r1
  r2 = r2
  r3 = r3
  Workers <- MCWorkers
  Requests <- MCRequests
  MaxVersions = 2
  Infected = {2}
  MaxFaults = 0
SYMMETRY Symmetry
INVARIANTS InboxMatchesWorkflow StatusIsVersionStatus NoOrphanFiles
PROPERTY DecisionsStand
CHECK_DEADLOCK FALSE
