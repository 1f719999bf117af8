CONSTANTS
  Formats = {"csv", "dat", "aer", "npz", "hdf5", "aedat1", "aedat2", "aedat3", "aedat4"}
  Starts = {5}
  Steps = {0, 1, 3}
  Wrap = 8
  Ms = 2
  MaxBatch = 2
  MaxEvents = 3
  ChunkSize = 2
  Hints <- MCHints
  Block = 3
  Low = 2
  TOffsets = {0, 5}
  SeekTimes = {0, 5, 6, 8, 9, 11}
  SeekIndexes = {0, 1, 2, 4}
  MsRanges <- MCMsRanges
SPECIFICATION Spec
INVARIANTS FileHoldsAll TimesTrue LandsOnTarget MsRangeExact
PROPERTIES IsCursor EmptyMeansEnd CallsReturn

CHECK_DEADLOCK FALSE
