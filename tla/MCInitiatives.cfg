\* Two initiatives, two goals and one item; six commits let a goal change and come back
\* between two judgments, and an item join, leave and join again.
CONSTANTS
  Initiatives = {n1, n2}
  Items = {i1}
  Goals = {g1, g2}
  MaxRevision = 6
  MaxReadings = 1
SPECIFICATION Spec
SYMMETRY Symmetry
\* The bound on commits stops every behaviour.
CHECK_DEADLOCK FALSE
INVARIANTS
  InitiativesValidate
  AssessmentsNameTheirGoal
