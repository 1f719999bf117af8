CONSTANTS
  Configs <- ReaderConfigs
  MaxTime = 7
  MaxEvents = 8
  DefaultDeltaT = 2
  DefaultNEvents = 4
  DeltaTs = {5}
  Ns = {1}
  SeekTimes = {2}
  SeekIndexes = {2}
  SeekShifts <- MCShifts
  Step = 4
  DtStep = 3
  ChunkSize = 2
  Reserve = 2
  Pad = 2
  Ops = {"read", "iterate", "read_all", "reset", "seek_t", "seek_n"}
  MaxCur = 5
SPECIFICATION FairSpec
INVARIANTS TypeOK Lossless WindowExact ClockBehindCursor CounterIsCursor SeeksKeepOrigin
PROPERTIES ReadsLikeCursor IterationEnds
