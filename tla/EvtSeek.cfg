CONSTANTS
  H = 3
  L = 2
  V = 1
  Reserve = 4
  Pad = 2
  Deltas = {0, 3}
  CamDeltas = {0, 3}
  Xs = {0}
  Ys = {0, 1}
  Masks = {{0}, {0, 2}}
  Caps = {6}
  Noise = {"other"}
  LowAgain = {TRUE}
  Wants = {FALSE}
  TCap = 2
  Grow = 6
  Start = 2
  MaxWrites = 4
  Stride = 2
  ICap = 6
  Times = {5, 8}
  Indexes = {2}
SPECIFICATION SeekSpec
INVARIANTS IndexExact ResumesExactly
PROPERTIES SkipsNothingLater
CHECK_DEADLOCK FALSE
