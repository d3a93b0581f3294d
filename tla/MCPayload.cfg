SPECIFICATION Spec
CONSTANTS
  Value <- MCValue
  Text <- MCText
  Fingerprint <- MCFingerprint
  MaxPacks = 4
  MaxUint = 4
INVARIANTS RowsDecode SpansCanonical ChainsDescend
