SPECIFICATION Spec
CONSTANTS
  Docs <- Bodies
  Dies = {0}
  Resume = {"SUCCESS"}
  Scarce = {}
  BodySymbols = {"BACK", "TXT", "OK", "LF"}
  BodyLength = 6
INVARIANTS
  AllCuesWhenNothingFailed
