SPECIFICATION MCSpec
CONSTANTS
  p1 = p1
  p2 = p2
  p3 = p3
  p4 = p4
  g = g
  e1 = e1
  e2 = e2
  n1 = n1
  n2 = n2
  n3 = n3
  none = none
  Peers <- MCPeers
  Trusted <- MCTrusted
  Received = Received
  PostsFail = FALSE
INVARIANTS
  DeliveredVerifies
  QuietTree
  QueryExact
PROPERTIES
  TokensTold
  EventuallyTree
  AllFlush
  EventuallyReached
CHECK_DEADLOCK FALSE
