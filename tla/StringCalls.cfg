SPECIFICATION CallSpec
CONSTANTS
  Page = 4096
  Least = 64
  Word = 65536
  Largest = 32768
  Requests <- RequestsUpToLargest
  SmallPage = 16
  SmallLeast = 4
  Header = 1
  Spare = 4
  Bytes = {"0", "a", "b"}
  Junk = "junk"
  MaxLength = 6
  Calls <- Sound
  Texts <- WellFormed
  Offsets <- ToSkip
INVARIANTS
  ReplacedSoFar
PROPERTIES
  SizeFound
  AllReplaced
  Utf16AtExact
