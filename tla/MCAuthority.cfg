\* One item, two tasks, two units of time and leases of two.  Both leases of the item are
\* acquired or claimed, renewed late, released, revoked, transferred, consumed and fenced,
\* while the project revises, rebinds, blocks, defers, closes, reviews and cancels it.
CONSTANTS
  Items = {i1}
  NoItem = NoItem
  Tasks = {t1, t2}
  NoTask = NoTask
  Checkpoints = {c1}
  WholeItem = WholeItem
  Candidates = {s1}
  NoCandidate = NoCandidate
  LeaseTime = 2
  Horizon = 2
  MaxRevision = 6
  MaxReadings = 1
  Kinds = {"start-preparation", "activate", "acquire-attempt", "renew-attempt", "release-attempt", "revoke-attempt", "submit-review", "rebind-attempt", "revise-item", "accept-review-and-continue", "return-for-correction", "accept-checkpoint", "complete", "renew-preparation", "release-preparation", "revoke-preparation", "block-item", "cancel", "resume", "defer", "reopen", "close"}
SPECIFICATION Spec
SYMMETRY Symmetry
\* The bounds on time and on commits stop every behaviour.
CHECK_DEADLOCK FALSE
INVARIANTS
  LiveClaimIsExact
PROPERTIES
  PreparationIsFenced
  AttemptIsFenced
  NewWorkNewGeneration
  SubmissionsAreCurrent
