SPECIFICATION Spec
CONSTANTS
  p1 = p1
  p2 = p2
  NoRow = NoRow
  Rows <- MCRows
  Criteria <- MCCriteria
  Processors <- MCProcessors
  MaxFaults = 2
INVARIANTS
  OnlyRepeatedRefundsAreReported
  ReportedOnceAndPerFault
  RepeatedRefundsAreReported
PROPERTIES
  ReportsAreComplete
CHECK_DEADLOCK FALSE
