\* The code's own check of a stored claim, at the time of the last commit.
CONSTANTS
  Items = {i1}
  NoItem = NoItem
  Tasks = {t1}
  NoTask = NoTask
  Checkpoints = {c1}
  WholeItem = WholeItem
  Candidates = {s1}
  NoCandidate = NoCandidate
  LeaseTime = 1
  Horizon = 2
  MaxRevision = 3
  MaxReadings = 1
  Kinds = {"start-preparation", "revise-item"}
SPECIFICATION Spec
\* The bounds on time and on commits stop every behaviour.
CHECK_DEADLOCK FALSE
INVARIANTS
  StoredClaimIsExact
