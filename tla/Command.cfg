SPECIFICATION Spec
CONSTANTS
  NUL = "NUL"
  JUNK = "?"
  Idchars = {"a", "-"}
  Spaces = {" "}
  BAR = "|"
  Foreign = {"."}
  NULL = NULL
  INITCAP = 2
  MaxLine = 6
INVARIANTS TypeOK Kept InBounds Parsed
CHECK_DEADLOCK FALSE
