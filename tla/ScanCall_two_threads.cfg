\* A thread for each of two calls, each of which may be cancelled at any point
\* of its job; operations may hang until they are cancelled.
CONSTANTS
  Call = {c1, c2}
  PoolSize = 2
SPECIFICATION FairSpec
INVARIANTS
  CancelFindsHandle
  EndedIsClean
  NoLostCancel
  ResultsAccounted
PROPERTIES OwnsContract CancelEnds
