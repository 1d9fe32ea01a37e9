SPECIFICATION Spec
CONSTANTS
  Docs <- Readings
  Dies = {0}
  Resume = {"SUCCESS", "UNFINISHED"}
  Scarce = {}
  BodySymbols = {"TXT", "OK", "LF", "CR"}
  BodyLength = 5
INVARIANTS
  StackShape
  AssertionsHold
  ErrorsExact
PROPERTIES
  HandedOverIsFinal
  KeepsPromise
