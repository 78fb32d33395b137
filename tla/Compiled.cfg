SPECIFICATION Spec
CONSTANTS
  Images <- MCImages
  Meaning <- MCMeaning
  Climb <- MCClimb
  ByteBase = 8
  Junk = {0, 5}
INVARIANTS Correct CallAligned BelowLocals
PROPERTIES Restored Terminates
CHECK_DEADLOCK FALSE
