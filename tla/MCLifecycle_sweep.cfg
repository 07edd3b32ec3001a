SPECIFICATION Spec
CONSTANTS
  k1 = k1
  k2 = k2
  k3 = k3
  k4 = k4
  v1 = v1
  v2 = v2
  IDS = {k1, k2, k3, k4}
  VERSIONS = {v1, v2}
  MAX_EPOCH = 3
  Sweep <- AllReadings
  SeededInto <- LargeReadings
CONSTRAINT Domains
INVARIANTS TypeOK I1 I3 I4 I6 I7 EnumerationClean SeededDetected
PROPERTIES RecoveryLeftRestored EpochsAdvance
