SPECIFICATION FairSpec
CONSTANTS
  BUFSIZE = 4
  MaxLen = 6
  Char <- MCAll
  Junk <- MCJunk
CHECK_DEADLOCK FALSE
INVARIANTS WindowOfFile ScanIsReference
