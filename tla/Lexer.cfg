SPECIFICATION Spec
CONSTANTS
  Docs <- AllDocs
  BufSize = 8
INVARIANTS
  TokenFits
  TextExact
  VerdictExact
  LineCount
CHECK_DEADLOCK FALSE
