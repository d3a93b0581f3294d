SPECIFICATION FixSpec
CONSTANTS
  Version = {2, 3}
  Odd = {1, 4}
  FixPackage <- MCPackage
  Entry <- MCEntry
  Unnamed = Unnamed
INVARIANTS EvidenceIsExact
