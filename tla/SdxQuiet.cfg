SPECIFICATION FairSpec
CONSTANTS
  AddressBits = 4
  c1 = c1
  c2 = c2
  s1 = s1
  s2 = s2
  s3 = s3
  s4 = s4
  t1 = t1
  NoPrefix = NoPrefix
  NoPid = NoPid
  NoToken = NoToken
  SafeEnabled = TRUE
  Pids <- MCPids
  Tokens <- MCTokens
  Sdxes <- MCSdxes
  Customers <- TwoHomes
  Offered <- RoutesAndPolicy
  Stitches <- Line
  Answers <- Permissive
  Lossy = FALSE
  Dest <- MCDest
  Origin = c1
INVARIANTS
  QuietAgreement
PROPERTIES
  ExchangeEnds
  StitchEnds
CHECK_DEADLOCK FALSE
