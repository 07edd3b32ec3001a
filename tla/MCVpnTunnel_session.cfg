SPECIFICATION TunnelSpec
CONSTANTS
  k1 = k1
  k2 = k2
  PublicKeys = {k1, k2}
  NumAddresses = 2
  Faults = {"ekm", "wg", "restart", "reboot", "lost", "qkd", "kill", "giveup", "wgclient", "clientreboot"}
  MaxRequests = 4
  MaxCrashes = 2
SYMMETRY KeySymmetry
INVARIANTS SessionNamesPsk RefreshPossible StatusTellsPsk
CHECK_DEADLOCK FALSE
