SPECIFICATION Spec
CONSTANTS
  Handles = {h1, h2}
  Strings = {s1, s2}
  Holders = {p1, p2}
  Lists = {l1, l2}
  Null = Null
  MaxItems = 5
  Refuses = TRUE
SYMMETRY Interchangeable
CHECK_DEADLOCK FALSE
INVARIANTS
  CountsExact
  OverrunsAfterFailure
