SPECIFICATION Spec
CONSTANTS
  Addr = {a1, a2}
  NoAddr = NoAddr
  MaxId = 3
  MaxFingers = 2
  PosX <- MCPosX
  PosY <- MCPosY
  BezelReleases = TRUE
INVARIANTS TypeOK NoDanglingOrigin EmitsToLatchedTab ScrollFollowsFinger
