SPECIFICATION Spec
CONSTANTS
  s1 = s1
  s2 = s2
  s3 = s3
  s4 = s4
  ga = ga
  gb = gb
  A = A
  B = B
  C = C
  l12 = l12
  l23 = l23
  l34 = l34
  l41 = l41
  Routers = {s1, s2, s3}
  Prefixes = {A, B}
  DefaultRoute = any
  Gateways = {ga, gb}
  EdgeOf <- Edges
  GatewayOf <- Customers
  NoHop = none
  LinkNames = {l12, l23}
  InitLinks <- Line
  DefaultBw = 1
  Bandwidths = {1}
  Sources = {any, A, B}
  PostsMayFail = FALSE
  MaxRequests = 2
PROPERTY
  PathInstalled
CHECK_DEADLOCK FALSE
