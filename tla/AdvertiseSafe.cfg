SPECIFICATION Spec
CONSTANTS
  AddressBits = 4
  c1 = c1
  n1 = n1
  n2 = n2
  t1 = t1
  t2 = t2
  NoPrefix = NoPrefix
  NoPid = NoPid
  NoToken = NoToken
  SafeEnabled = TRUE
  Pids <- MCPids
  Tokens <- MCTokens
  Routes <- MCRoutes
  Policies <- MCPolicies
INVARIANTS
  TypeOK
  ChosenAuthorised
  FibFollowsChoice
  MeetingsMatched
  MatchesUndominated
  AdvertisedAuthorised
  ShortestChosen
