CONSTANTS
  Users = {u1}
  MaxChunks = 5
  Depth = 2
SPECIFICATION FairSpec
INVARIANTS TypeOK SameChunksInOrder CurrentWindowIntact ExclusiveUntilClosed
PROPERTIES EveryCallReturns CloseReleases IteratesLikeSource
