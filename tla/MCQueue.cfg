\* Four items: every position can be inserted at, left, and exchanged, and a campaign can
\* end up to three sources at once.
CONSTANTS
  Items = {i1, i2, i3, i4}
  Agents = {a1}
SPECIFICATION Spec
SYMMETRY Symmetry
INVARIANTS
  EveryUpdateApplies
  PositionsDense
PROPERTIES
  ImplementsLiveOrder
