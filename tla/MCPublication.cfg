SPECIFICATION Spec
CONSTANTS
  Initializers = {i1}
  Files = {f1, f2, f3, f4}
  NoFile = NoFile
  MaxFaults = 5
INVARIANTS PublishedIsComplete ReportedIsDurable
PROPERTIES ReportedIsKept WorkIsKept InterruptionIsRepaired
CHECK_DEADLOCK FALSE
