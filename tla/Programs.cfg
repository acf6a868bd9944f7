SPECIFICATION FairSpec
CONSTANTS
  Sleeps = 3
  External = {"HUP", "INT", "USR1", "USR2"}
  MaxTicks = 2
  Debug = TRUE
  MaySigint = TRUE
  ClientTyped <- MCClientTyped
  BufLen = 3
  RecvSize = 6
  SndBuf = 6
  ClientMaxTyped = 2
  MaxShort = 2
  s1 = s1
  s2 = s2
  Senders <- MCSenders
  SenderTyped <- MCSenderTyped
  SenderMaxTyped = 2
  MaxDup = 1
  MayHurt = TRUE
  Receiver = Receiver
  Stranger = Stranger
  BufSize = 6
  MaxTokens = 2
  MaxReceived = 5
CHECK_DEADLOCK FALSE
INVARIANTS NoHalfOutput UseAfterFreeNeedsLateSigint NothingLeftBehind PatientUserHearsAnswers TypedLinesArrive HealthyService AllButTwoShown
PROPERTIES ProgramEnds
