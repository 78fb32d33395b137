SPECIFICATION Spec
CONSTANTS
  Images <- ElementImage
  Meaning <- ElementMeaning
  Climb <- ElementClimb
  ByteBase = 8
  Junk = {0, 5}
PROPERTY StoreInObject
CHECK_DEADLOCK FALSE
