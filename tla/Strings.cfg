SPECIFICATION Spec
CONSTANTS
  Handles = {h1, h2, h3}
  Buffers = {b1, b2, b3}
  Null = Null
  Empty = Empty
  Page = 16
  Least = 4
  Header = 1
  Capacities = {0, 1}
  LineAlloc = 2
  MaxLine = 3
  MaxLength = 3
  Pieces <- OneOrTwo
  Refuses = TRUE
  Detaches = TRUE
SYMMETRY Interchangeable
CHECK_DEADLOCK FALSE
INVARIANTS
  RefsExact
  Fits
PROPERTIES
  SharingUnobserved
