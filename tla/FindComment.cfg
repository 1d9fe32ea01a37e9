SPECIFICATION Spec
CONSTANTS
  Docs <- Headers
  Dies = {0}
  Resume = {"SUCCESS", "UNFINISHED"}
  Scarce = {}
  BodySymbols = {"SP", "TXT", "OK", "LF"}
  BodyLength = 5
INVARIANTS
  SignatureAccepted
