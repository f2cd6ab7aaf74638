CONSTANTS
  Names <- Files
  LongNames <- LongFile
  DefaultName = "data"
  Typed <- Odd
  MaxFiles = 2
  MaxCommands = 2
  MaxTyped = 2
  MaxBreaks = 1
  MaxRows = 1
SPECIFICATION Spec
INVARIANT
  WritingHasFile
