SPECIFICATION RustSafe
CONSTANTS
  Proc <- MCProc
  Sockbuf <- MCSockbuf
  sbs <- MCsbs
  Chan <- MCChan
  infd <- MCinfd
  outfd <- MCoutfd
  cap = 2
  Room = 3
  MaxBytes <- MCMaxBytes
INVARIANT WithinBuffer
CHECK_DEADLOCK FALSE
