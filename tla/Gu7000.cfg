SPECIFICATION GuSpec
CONSTANTS
  Glyph <- Glyphs
  Commands <- SomeCommands
  MaxCommands = 4
INVARIANTS
  GuTypeOK
  InStep
  TextStaysLegible
  BackspaceReturnsToTheCharacter
PROPERTIES
  ImageStaysInItsRectangle
CHECK_DEADLOCK FALSE
