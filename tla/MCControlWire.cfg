\* Two arguments at most, a server's buffer of eight bytes, replies of thirty-two.
\* The application may end, or say nothing more: no deadlock check.
CONSTANTS
  Commands <- MCCommands
  Bodies <- MCBodies
  MaxArgv = 2
  LineMax = 8
  ClientMax = 32
  ReplyMax = 32
  TailReserve = 4
  WriteMayBlock = TRUE
SPECIFICATION FairSpec
CHECK_DEADLOCK FALSE
INVARIANTS
  TypeOK
  ArgumentsArrive
  OutputIsReply
PROPERTY TermctlEnds
