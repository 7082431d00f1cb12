SPECIFICATION FairPipelineSpec
CONSTANTS
  w1 = w1
  w2 = w2
  Workers <- MCWorkers
  MaxVersions = 2
  Infected = {2}
  MaxFaults = 1
INVARIANTS InfectedStaysOut FindingsAlerted OneExtractor IndexFollowsCurrent
PROPERTY EventuallyProcessed
CHECK_DEADLOCK FALSE
