SPECIFICATION Spec
CONSTANTS
  v1 = v1
  Objects = {v1}
  PeerList <- TwoPeers
  BindPeer = "QKD2"
  Target = 1
  MaxPerRequest = 1
  Ttl = 1
  MaxKeys = 3
  MaxTime = 0
INVARIANTS BoundBeforeAnswer
