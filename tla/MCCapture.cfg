CONSTANTS
  k1 = k1
  k2 = k2
  KEYS = {k1, k2}
  RATES <- ThreeRates
  INVENTORY = 1
  MAX_KEY_PER_REQUEST = 2
  MAX_IDS = 2
  MAX_REQUESTS = 2
  MAX_GENERATED_BITS = 1
  MAX_PROCESSES = 2
SPECIFICATION Spec
SYMMETRY IdSymmetry
INVARIANTS
  KeyGivenOnce
  CountersReconcile
  RatesOneProcess
  CaptureComplete
