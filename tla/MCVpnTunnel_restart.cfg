SPECIFICATION TunnelSpec
CONSTANTS
  k1 = k1
  k2 = k2
  PublicKeys = {k1, k2}
  NumAddresses = 2
  Faults = {"restart"}
  MaxRequests = 3
  MaxCrashes = 1
INVARIANTS TunnelAgrees
CHECK_DEADLOCK FALSE
