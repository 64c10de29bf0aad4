\* One item reviewed by two agents: two heads, two findings, a brief rejected or
\* overtaken by a new definition, and a claim that activates the item instead.
CONSTANTS
  Items = {i1}
  NoItem = NoItem
  Tasks = {t1, t2}
  NoTask = NoTask
  Checkpoints = {}
  WholeItem = WholeItem
  Candidates = {s1}
  NoCandidate = NoCandidate
  LeaseTime = 1
  Horizon = 0
  MaxRevision = 8
  MaxReadings = 0
  Heads = {h1, h2}
  NoHead = NoHead
  Findings = {f1, f2}
  Kinds = {"start-pr-review", "review-pr-brief", "observe-pr-head", "record-pr-round", "close-pr-review", "revise-item", "cancel", "start-preparation", "activate"}
SPECIFICATION PrSpec
SYMMETRY Symmetry
\* The bound on commits stops every behaviour.
CHECK_DEADLOCK FALSE
INVARIANTS
  HistoryValidates
  FindingsAreDisposed
  PresentedIsAcceptable
