SPECIFICATION FairTunnelSpec
CONSTANTS
  k1 = k1
  k2 = k2
  PublicKeys = {k1, k2}
  NumAddresses = 2
  Faults = {"ekm", "lost", "qkd", "wgclient", "clientreboot"}
  MaxRequests = 4
  MaxCrashes = 0
INVARIANTS TunnelAgrees SessionMatchesInterface
PROPERTIES RekeyCompletes RefreshFlagged RekeyingSpec
CHECK_DEADLOCK FALSE
