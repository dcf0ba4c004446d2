SPECIFICATION Spec
CONSTANTS
  Subscriptions = {s1, s2}
  MaxEvent = 4
SYMMETRY Symmetry
INVARIANTS SeesAll NamedByItsKeymap ClosedHubEnds
CHECK_DEADLOCK FALSE
