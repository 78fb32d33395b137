SPECIFICATION Spec
CONSTANTS
  Images <- BranchImage
  Meaning <- BranchMeaning
  Climb <- BranchClimb
  ByteBase = 8
  Junk = {0, 5}
INVARIANT StatementValue
CHECK_DEADLOCK FALSE
