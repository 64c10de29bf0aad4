\* One item from claim to completion with two candidates; nine commits make room
\* for a second round of work after a pause, a revision or a review.
CONSTANTS
  Items = {i1}
  NoItem = NoItem
  Tasks = {t1}
  NoTask = NoTask
  Checkpoints = {c1}
  WholeItem = WholeItem
  Candidates = {s1, s2}
  NoCandidate = NoCandidate
  LeaseTime = 2
  Horizon = 1
  MaxRevision = 9
  MaxReadings = 1
  Kinds = {"start-preparation", "activate", "acquire-attempt", "worker-pause", "submit-review", "rebind-attempt", "pause", "block-attempt", "return-for-correction", "accept-checkpoint", "accept-review-and-continue", "complete", "resume", "close", "revise-item", "cancel"}
SPECIFICATION Spec
SYMMETRY Symmetry
\* The bounds on time and on commits stop every behaviour.
CHECK_DEADLOCK FALSE
INVARIANTS
  TypeOK
  AttemptMatchesItem
  SubjectRevisionCoversFacts
  WorkingMeansNoOpenDecisions
  CandidateOnlyUnderReview
  DoneAtAcceptedScope
PROPERTIES
  SatisfactionIsPermanent
