\* Scans may hang until their context is done.
CONSTANTS
  NumInputs = 3
  Workers = 2
SPECIFICATION FairSpec
PROPERTIES
  CancelSettles
  ReleaseReturns
  PanicSettles
  StartedSettles
