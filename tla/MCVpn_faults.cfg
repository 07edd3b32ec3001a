SPECIFICATION Spec
CONSTANTS
  k1 = k1
  k2 = k2
  k3 = k3
  PublicKeys = {k1, k2, k3}
  NumAddresses = 2
  Faults = {"ekm", "wg", "save", "restart", "reboot"}
  MaxRequests = 4
  MaxCrashes = 1
SYMMETRY KeySymmetry
INVARIANTS TypeOK AddressKept NoHalfConfiguredPeer
CHECK_DEADLOCK FALSE
