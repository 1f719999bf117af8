CONSTANTS
  Capacity = 3
  Ratio = 2
  StepSizes = {2, 5}
  ChunkSizes = {0, 2}
  MaxEvents = 5
  MaxTriggers = 3
SPECIFICATION Spec
INVARIANTS TypeOK PrepareGivesRoom HoldsNewest
PROPERTIES GrowsOnlyIfNeeded IsTwoQueues
