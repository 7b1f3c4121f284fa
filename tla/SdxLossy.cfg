SPECIFICATION Spec
CONSTANTS
  AddressBits = 4
  c1 = c1
  c2 = c2
  s1 = s1
  s2 = s2
  s3 = s3
  s4 = s4
  t1 = t1
  NoPrefix = NoPrefix
  NoPid = NoPid
  NoToken = NoToken
  SafeEnabled = TRUE
  Pids <- MCPids
  Tokens <- MCTokens
  Sdxes <- FourSdxes
  Customers <- OneHome
  Offered <- JustRoute
  Stitches <- Diamond
  Answers <- BOOLEAN
  Lossy = TRUE
  Dest <- MCDest
  Origin = c1
INVARIANTS
  PathsSimple
  RoutesBacked
  NeighborsStitched
PROPERTIES
  ImplementsPathVector
CHECK_DEADLOCK FALSE
