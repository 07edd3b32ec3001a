SPECIFICATION Spec
CONSTANTS
  v1 = v1
  v2 = v2
  Objects = {v1, v2}
  PeerList <- TwoPeers
  BindPeer = "QKD2"
  Target = 2
  MaxPerRequest = 2
  Ttl = 1
  MaxKeys = 3
  MaxTime = 0
SYMMETRY ObjectSymmetry
INVARIANTS TypeOK UnitSpentOnce EveryWrapUnwraps BindingMatchesKek ExhaustedMeansNoneDelivered
PROPERTIES LedgerSpec
