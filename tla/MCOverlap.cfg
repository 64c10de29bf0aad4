SPECIFICATION Spec
CONSTANTS
  Initializers = {i1, i2}
  Files = {f1, f2, f3}
  NoFile = NoFile
  MaxFaults = 0
PROPERTIES ReportedIsKept
CHECK_DEADLOCK FALSE
