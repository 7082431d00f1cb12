SPECIFICATION FairSpec
CONSTANTS
  Workers = {w1}
  Jobs = {j1}
  MaxAsking = 2
  MaxRecords = 3
  MaxFaults = 1
INVARIANTS RecordsHonest NewestKept
PROPERTY QueuedIsMade
CHECK_DEADLOCK FALSE
