SPECIFICATION Spec
CONSTANTS
  p1 = p1
  p2 = p2
  p3 = p3
  g = g
  h = h
  v0 = v0
  v1 = v1
  c = c
  d = d
  s1 = s1
  s2 = s2
  q1 = q1
  q2 = q2
  Packet = {p1, p2, p3}
  Local = {p2, p3}
  Inner = {p3}
  Gateway = {g, h}
  HostOf <- MCHostOf
  PacketRoutes <- MCPacketRoutes
  MaxPosts = 2
  MaxSuspended = 2
  Vlan = {v0, v1}
  NoVlan = v0
  Busy = {v1}
  VlanClient = {c}
  MaxRouters = 3
  MaxIds = 2
  Match <- MCMatch
  NoValue = "0"
  Addr = {a}
  NoAddr = none
  MaxId = 2
  MaxRules = 3
  MaxEvents = 1
  Bits = 4
  Addresses <- MCAddresses
  FlowRoutes <- MCFlowRoutes
  FlowHosts = {2, 3, 4}
  FlowPackets <- MCFlowPackets
  MaxWaiting = 1
  Host = {h1, h2}
  Port = {1, 2}
  Nowhere = 0
  AnySource = any
  MaxMoves = 1
  MaxTold = 2
  MirrorRoutes <- MCMirrorRoutes
  Mirrors <- MCMirrors
  MirrorGateways = {2}
  Stations = {2, 3}
  MirrorHosts = {2, 3}
  MirrorPackets <- MCMirrorPackets
  QosIds = {2}
  VfcAddresses <- MCVfcAddresses
  IngressBits = 3
  AnyPort = 0
  Filters <- MCFilters
  IngressRoutes <- MCIngressRoutes
  IngressMirrors <- MCIngressMirrors
  IngressGateways = {2, 3}
  IngressStations = {3}
  IngressPackets <- MCIngressPackets
  FirstMirror = 1
  Switch = {s1, s2}
  Client = {c, d}
  Version <- MCVersion
  Offers <- MCOffers
  AskedBy <- MCAskedBy
  MaxParts = 2
  MaxXid <- MCMaxXid
  Customer = {c, d}
  Reserve = {q1, q2}
  GatewayFor <- MCGatewayFor
  Prefix = {p1, p2}
  None = none
  MaxNotices = 3
  Router = {s1, s2}
  Thread = {c, d}
  NoThread = none
  MaxFaces = 2
  MaxDepth = 2
  SliceRouter = {q1, s1, s2}
  SliceCustomer = {c, d, h}
  RouterOf <- MCRouterOf
  NetOf <- MCNetOf
  Chameleon = {h}
  MaskNumber = 2
  FirstIp = 1
  FirstOctet = 19
  InSlice = TRUE
  MaxLinks = 2
  MaxStops = 2
INVARIANTS
  OneOutcome
  Served
  RightHop
  FilterThenRoute
  MirrorThenRoute
  UniqueIds
  OwnAnswer
  Revocable
  HangsAfterFailure
  AddressesFit
PROPERTIES
  UndoneForgotten
CHECK_DEADLOCK FALSE
