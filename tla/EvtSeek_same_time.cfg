CONSTANTS
  H = 3
  L = 2
  V = 1
  Reserve = 4
  Pad = 2
  Deltas = {0}
  CamDeltas = {0}
  Xs = {0, 1}
  Ys = {0}
  Masks = {{0}}
  Caps = {6}
  Noise = {"other"}
  LowAgain = {TRUE}
  Wants = {FALSE}
  TCap = 2
  Grow = 6
  Start = 5
  MaxWrites = 4
  Stride = 2
  ICap = 6
  Times = {5, 6}
  Indexes = {}
SPECIFICATION SeekSpec
PROPERTIES LandsOnTarget
CHECK_DEADLOCK FALSE
