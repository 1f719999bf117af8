CONSTANTS
  Users = {u1}
  MaxChunks = 5
  Depth = 2
SPECIFICATION Spec
INVARIANT NoConcurrentDecoder
