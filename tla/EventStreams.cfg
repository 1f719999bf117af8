SPECIFICATION Spec
CONSTANTS
  Steps = {0, 1, 3}
  Delta = 2
  Count = 1
  SkipTime = 3
  SkipCount = 1
  MaxSize = 1
  Skews = {FALSE, TRUE}
  MaxItems = 3
  MaxChunk = 2
  MaxBlanks = 1
INVARIANTS NothingLost WindowsPerfect EndIsTrue ChunksDoNotMatter
PROPERTIES BothEnd
CHECK_DEADLOCK FALSE
