CONSTANTS
  Configs <- TailConfigs
  MaxTime = 7
  MaxEvents = 8
  DefaultDeltaT = 2
  DefaultNEvents = 8
  DeltaTs = {3}
  Ns = {1}
  SeekTimes = {2}
  SeekIndexes = {2}
  SeekShifts <- MCShifts
  Step = 4
  DtStep = 3
  ChunkSize = 2
  Reserve = 2
  Pad = 2
  Ops = {"iterate"}
  MaxCur = 5
SPECIFICATION Spec
INVARIANTS EofComplete
