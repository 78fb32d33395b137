SPECIFICATION Spec
CONSTANTS
  Conn <- MCConn
  addr <- MCaddr
  MAX_NUM_CLIENTS = 2
  readbufsz = 2
  MaxBytes <- MCMaxBytes
INVARIANTS
  TypeOK
  SlotsAgree
  NeverBlocks
  Saved
PROPERTIES
  Heard
  SlotsReturn
  Logged
CHECK_DEADLOCK FALSE
