\* Two connections, two slots, a ring of two; any client may be slow.
\* The clients may stop sending and the application may end: no deadlock check.
CONSTANTS
  MaxClients = 2
  DeferMax = 2
  LineMax = 2
  Fd = {f1, f2}
  NoFd = NoFd
  MaxConn = 2
  MaxSent = 2
  Lines = {"cmd", "eval", "blank"}
  WriteMayBlock = TRUE
SYMMETRY MCSymmetry
SPECIFICATION Spec
CHECK_DEADLOCK FALSE
INVARIANTS
  TypeOK
  RepliesToIssuer
PROPERTY ServesEvalQueue
