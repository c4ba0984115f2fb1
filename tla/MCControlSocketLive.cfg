\* Two connections for one slot, a ring of one, a buffer that any part fills.
\* The clients may stop sending and the application may end: no deadlock check.
CONSTANTS
  MaxClients = 1
  DeferMax = 1
  LineMax = 1
  Fd = {f1, f2}
  NoFd = NoFd
  MaxConn = 2
  MaxSent = 2
  Lines = {"cmd", "eval"}
  WriteMayBlock = FALSE
SPECIFICATION FairSpec
CHECK_DEADLOCK FALSE
INVARIANT SlotsOwnDescriptors
PROPERTY RequestsAnswered
