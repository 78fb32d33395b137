SPECIFICATION Spec
CONSTANTS
  Lines <- MCLines
  MaxCommands = 3
  Makes <- MCMakes
  Copies <- MCCopies
  Missing = "missing"
  Typed <- MCTyped
  PipeSize = 1
INVARIANTS
  TypeOK
  NoStrayWriter
  CleanPrompt
PROPERTIES Returns Answered
CHECK_DEADLOCK FALSE
