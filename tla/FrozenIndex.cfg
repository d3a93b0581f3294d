SPECIFICATION Spec
CONSTANTS
  Size = 3
  MaxValue = 2
  MaxEdges = 5
  MaxUint = 4
  CheckEvery = 2
INVARIANTS ReadsAheadOfWrites IndexIsExact
