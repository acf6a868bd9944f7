SPECIFICATION FairSpec
CONSTANTS
  BUFSIZE = 4
  MaxLen = 5
  Char <- MCChar
  Junk <- MCJunk
CHECK_DEADLOCK FALSE
INVARIANTS UnterminatedIsTrue
