\* A ready item that one agent prepares while another starts the review of its
\* pull request.
CONSTANTS
  Items = {i1}
  NoItem = NoItem
  Tasks = {t1, t2}
  NoTask = NoTask
  Checkpoints = {}
  WholeItem = WholeItem
  Candidates = {s1}
  NoCandidate = NoCandidate
  LeaseTime = 1
  Horizon = 0
  MaxRevision = 4
  MaxReadings = 1
  Heads = {h1}
  NoHead = NoHead
  Findings = {f1}
  Kinds = {"start-pr-review", "review-pr-brief", "observe-pr-head", "record-pr-round", "close-pr-review", "revise-item", "cancel", "start-preparation", "activate", "block-item", "defer", "reopen", "close"}
SPECIFICATION PrSpec
SYMMETRY Symmetry
\* The bound on commits stops every behaviour.
CHECK_DEADLOCK FALSE
PROPERTIES
  LiveClaimSuppresses
