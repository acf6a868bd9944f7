SPECIFICATION LineSpec
CONSTANTS
  Servers = {"line"}
  FD_SETSIZE = 0
  SndBuf = 1
  c1 = c1
  c2 = c2
  c3 = c3
  NoConn = NoConn
  Conns = {c1}
  Limits = {2}
  FirstFd = 0
  AllocMayFail = TRUE
  Clients <- MCClients
  LineBytes = {"x", "nl"}
  MAX_LINE = 2
  FdLimit = 2
  LineMaxBytes <- MCLineMaxBytes
  Letters <- MCLetters
  SIZE = 4
  MaxBytes = 5
CHECK_DEADLOCK FALSE
INVARIANTS EchoOfWhatWasRead
PROPERTIES EchoArrives ClientLetGo
