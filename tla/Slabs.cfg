SPECIFICATION Spec
CONSTANTS
  SlabSize = 2
  Value = {0, 1}
  Zero = 0
  MaxUint = 5
  MaxChunks = 4
  MaxHeld = 2
PROPERTY ImplementsArray
