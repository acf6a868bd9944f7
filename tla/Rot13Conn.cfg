SPECIFICATION MCSpec
CONSTANTS
  MAX_LINE = 3
  RecvSize = 2
  SndBuf = 2
  MaxSent = 5
  Char <- MCChar
  Junk <- MCJunk
CHECK_DEADLOCK FALSE
INVARIANTS WritePending PatientClientLosesNothing
PROPERTIES StoredLineIsSent EchoSpec
