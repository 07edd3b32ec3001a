SPECIFICATION TunnelSpec
CONSTANTS
  k1 = k1
  k2 = k2
  PublicKeys = {k1, k2}
  NumAddresses = 2
  Faults = {"giveup"}
  MaxRequests = 3
  MaxCrashes = 0
INVARIANTS TunnelAgrees
CHECK_DEADLOCK FALSE
