SPECIFICATION Spec
CONSTANTS
  MaxNodes = 5
  MaxFaults = 1
  FirstRoom = 2
  MaxCues = 2
  NodeObjects = {"n1", "n2"}
INVARIANTS
  CountsExact
  KeptIffReachable
  OpenNodesSafe
  DefinedOtherwise
PROPERTIES
  FreedUntouched
CHECK_DEADLOCK FALSE
