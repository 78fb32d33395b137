SPECIFICATION Spec
CONSTANTS
  Proc <- MCProc
  Sockbuf <- MCSockbuf
  sbs <- MCsbs
  Chan <- MCChan
  infd <- MCinfd
  outfd <- MCoutfd
  cap = 2
  Room = 1
  MaxBytes <- MCMaxBytes
INVARIANTS
  TypeOK
  NeverBlocks
  WithinBuffer
  Relayed
PROPERTIES Flow EndToEnd EndTogether
CHECK_DEADLOCK FALSE
