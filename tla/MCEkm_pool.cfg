SPECIFICATION FairSpec
CONSTANTS
  Objects = {}
  PeerList <- OnePeer
  BindPeer = "QKD2"
  Target = 2
  MaxPerRequest = 2
  Ttl = 0
  MaxKeys = 4
  MaxTime = 1
INVARIANTS PoolWithinTarget ExpiryIsComplete OutageFlagRecoverable
PROPERTIES OutageEnds
