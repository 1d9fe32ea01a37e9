SPECIFICATION Spec
CONSTANTS
  Length = 4
  Texts <- AllTexts
  UnsetKinds = {"RUBY_TEXT", "LANG", "STRAY"}
INVARIANTS
  RubyTextInRuby
  LangsSound
  TreeExact
PROPERTIES
  Returns
