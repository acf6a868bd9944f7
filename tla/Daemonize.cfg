SPECIFICATION Spec
CONSTANTS
  MAXFD = 11
  Args = {"unit", "daemon", "foreground"}
  MaxHup = 2
  MaxClients = 2
CHECK_DEADLOCK FALSE
INVARIANTS LogKeepsToItself  SocketsAboveStdio
