SPECIFICATION Spec
CONSTANTS
  Docs <- FailingDocs
  Scarce <- ScarceDocs
  Dies = {0, 1, 2}
  Resume = {"SUCCESS", "UNFINISHED"}
  BodySymbols = {"TXT", "OK", "MAL", "GLUE", "NOSEP", "LF"}
  BodyLength = 3
INVARIANTS
  DeliveredSound
  DeliveredInPart
  StringsAccounted
  NoCueLeaked
  OneOwner
PROPERTIES
  CallsReturn
