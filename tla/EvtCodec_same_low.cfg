CONSTANTS
  H = 3
  L = 2
  V = 1
  Reserve = 4
  Pad = 2
  Deltas = {0, 2}
  CamDeltas = {0}
  Xs = {0}
  Ys = {0, 1}
  Masks = {{0}, {0, 2}}
  Caps = {6}
  Noise = {"other"}
  LowAgain = {FALSE}
  Wants = {TRUE, FALSE}
  TCap = 2
  Grow = 6
  Start = 2
  MaxWrites = 3
SPECIFICATION Spec
INVARIANT Faithful
CHECK_DEADLOCK FALSE
