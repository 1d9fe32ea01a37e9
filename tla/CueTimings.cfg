SPECIFICATION TimingsSpec
CONSTANTS
  Digits <- Four
  Word = 65536
  Sixty = 10
  Thousand = 64
  Hundred = 16
  KeyRoom = 2
  IntWord = 256
  MayFail = TRUE
  TimingLines <- CueLines
  Settings <- Given
INVARIANTS
  InBounds
  StampExact
  SettingsExact
  DocumentAgrees
PROPERTIES
  LineExact
CHECK_DEADLOCK FALSE
