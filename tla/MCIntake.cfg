\* Four items come in one after the other, with relations to each other; they are
\* prepared, started and parked, merged, and consolidated into a new or a live campaign.
CONSTANTS
  Items = {i1, i2, i3, i4}
  NoItem = NoItem
  Tasks = {t1}
  NoTask = NoTask
  Checkpoints = {c1}
  WholeItem = WholeItem
  Candidates = {s1}
  NoCandidate = NoCandidate
  LeaseTime = 1
  Horizon = 0
  MaxRevision = 5
  MaxReadings = 0
  MaxWaits = 1
  Kinds = {"create-proposal", "merge-proposal", "reject-proposal", "consolidate", "start-preparation", "activate", "pause"}
SPECIFICATION IntakeSpec
SYMMETRY Symmetry
\* The bound on commits stops every behaviour.
CHECK_DEADLOCK FALSE
INVARIANTS
  Acyclic
  LiveClaimIsExact
  RoadmapIsFaithful
PROPERTIES
  WaitsAreKept
