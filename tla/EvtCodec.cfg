CONSTANTS
  H = 3
  L = 2
  V = 1
  Reserve = 4
  Pad = 2
  Deltas = {0, 1, 3}
  CamDeltas = {0, 1, 3}
  Xs = {0}
  Ys = {0, 1}
  Masks = {{0}, {0, 2}}
  Caps = {6}
  Noise = {"other", "v8"}
  LowAgain = {FALSE}
  Wants = {TRUE, FALSE}
  TCap = 2
  Grow = 6
  Start = 2
  MaxWrites = 5
SPECIFICATION Spec
INVARIANTS TypeOK Faithful Complete
PROPERTIES EmptyMeansEnd
CHECK_DEADLOCK FALSE
