SPECIFICATION Spec
CONSTANTS
  s1 = s1
  s2 = s2
  Receiver = Receiver
  Senders <- MCSenders
  Typed <- MCTyped
  Outputs <- MCOutputs
  RecvSize = 2
  LinesSize = 4
  OutSize = 3
  FdLimit = 1
  MaxTyped = 3
  MaxCmds = 2
  MaxDup = 1
SYMMETRY MCSymmetry
CHECK_DEADLOCK FALSE
INVARIANTS PrintedIsHeard HarmNeedsRagged AnswersAreAskedFor
