SPECIFICATION Spec
CONSTANTS
  Thread = {t1, t2}
  Element <- MCElement
  LocalSize = 2
  Absent <- MCAbsent
  MaxViews = 2
INVARIANT ReadsAreExact
PROPERTY ReportReleased
