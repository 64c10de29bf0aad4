\* Two items that may be planned to replace each other, before and after they start,
\* at work or in review, and one of which may wait for the other.
CONSTANTS
  Items = {i1, i2}
  NoItem = NoItem
  Tasks = {t1}
  NoTask = NoTask
  Checkpoints = {}
  WholeItem = WholeItem
  Candidates = {s1}
  NoCandidate = NoCandidate
  LeaseTime = 1
  Horizon = 0
  MaxRevision = 6
  MaxReadings = 1
  Kinds = {"start-preparation", "activate", "acquire-attempt", "pause", "submit-review", "resume", "complete", "cancel", "record-replacement", "retain-temporarily", "close", "return-for-correction"}
SPECIFICATION Spec
SYMMETRY Symmetry
\* The bounds on time and on commits stop every behaviour.
CHECK_DEADLOCK FALSE
INVARIANTS
  TerminalHoldsNoAuthority
PROPERTIES
  StartsOnSatisfiedDependencies
  TerminalIsFinal
  SubmissionsAreCurrent
