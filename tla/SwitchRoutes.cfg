SPECIFICATION Spec
CONSTANTS
  g1 = g1
  g2 = g2
  m1 = m1
  m2 = m2
  client = client
  client2 = client2
  handler = handler
  any = any
  unknown = unknown
  AnySource = any
  Unknown = unknown
  Handler = handler
  Clients = {client, client2}
  Gateways = {g1, g2}
  Macs = {m1, m2}
  Networks <- MCNetworks
  IpPrefixes <- MCIpPrefixes
  Keys <- MCKeys
  Packets <- MCPackets
  MaxSuspended = 2
  MaxRoutes = 2
  MaxAddresses = 1
INVARIANTS
  FlowsFollowTable
  GatewayMacs
  AnsweredOnce
SYMMETRY MCSymmetry
CHECK_DEADLOCK FALSE
