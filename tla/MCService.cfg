\* Two threads, two calls: the same bytes, other bytes or other names; one failure of
\* the disk or one death of the process at any step.
CONSTANTS
  c1 = c1
  c2 = c2
  n1 = n1
  n2 = n2
  n3 = n3
  b1 = b1
  b2 = b2
  Calls = {c1, c2}
  Workers = 2
  Limit = 2
  Names = {n1, n2, n3}
  Contents = {b1, b2}
  Requests <- MCRequests
  NoFile = NoFile
  NoWriter = NoWriter
  MaxFaults = 1
SPECIFICATION Spec
\* When every call has ended the service may stay as it is.
CHECK_DEADLOCK FALSE
INVARIANTS
  SlotsAreExact
  ReferencesAreKept
  AnswersAreTrue
  CancelledDidNothing
PROPERTIES
  BoardNeverGoesBack
  CommitsAreShown
  CallsEnd
