SPECIFICATION Spec
CONSTANTS
  AddressBits = 3
  MaxCached = 1
  Keys <- HostKeys
INVARIANTS
  QueryComplete
