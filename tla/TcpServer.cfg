SPECIFICATION FairSpec
CONSTANTS
  p1 = p1
  p2 = p2
  k1 = k1
  NoConn = NoConn
  Plain <- MCPlain
  Cmd <- MCCmd
  Worlds <- MCWorlds
  BufSize = 3
  SndBuf = 1
  FdLimit = 2
  MaxOut = 2
CHECK_DEADLOCK FALSE
INVARIANTS RepliesFollowTheStream StopsOnlyWhenAsked EventIffOpen DoubleFreeNeedsReset
PROPERTIES EveryRequestAnswered DescriptorReturned
