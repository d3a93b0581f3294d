\* Four inputs and three workers: the window slides while results wait out of
\* order, and one worker can stay behind the others.
CONSTANTS
  NumInputs = 4
  Workers = 3
SPECIFICATION Spec
INVARIANTS
  TypeOK
  ExactlyOnce
  NeverBlocks
  Window
  InputOrder
  JoinedBeforeDone
  NoAbortedImage
  TransferOnce
PROPERTY ImplementsBatch
