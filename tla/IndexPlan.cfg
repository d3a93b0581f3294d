SPECIFICATION PlanSpec
CONSTANTS
  Slot = {0, 1, 2}
  MaxRaw = 4
  MaxBound = 3
  Sizes = {1, 4}
  SlabSize = 2
  MaxUint32 = 3
INVARIANT PeakIsMinimal
