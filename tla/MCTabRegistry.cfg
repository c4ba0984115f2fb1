\* Two tabs at most and four opened in all on two descriptors, three pids and
\* three ptys, so that each of them is reused; openpty and fork may fail.
CONSTANTS
  MaxSessions = 2
  MaxId = 4
  Fd = {f1, f2}
  Pid = {k1, k2, k3}
  Pty = {p1, p2, p3}
  NoFd = NoFd
  NoPid = NoPid
  NoPty = NoPty
  StackGarbage = {NoFd}
  ForkMayFail = TRUE
SPECIFICATION FairSpec
INVARIANTS
  TypeOK
  NoDanglingHandler
  MastersOwned
  OwnShells
  NoOrphanShell
PROPERTIES
  ImplementsTabSet
  PtysReleased
  SignalledShellsAreReaped
