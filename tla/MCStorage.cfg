SPECIFICATION StorageSpec
CONSTANTS
  c1 = c1
  c2 = c2
  j1 = j1
  Jobs = {j1}
  PollAttempts = 2
  MaxVersion = 3
  MaxUnits = 3
  Clients = {c1, c2}
  Ttl = 1
  MaxUploads = 2
  MaxTries = 2
  MaxClock = 2
  MaxRestarts = 1
SYMMETRY ClientSymmetry
INVARIANTS PrimaryEnabled ConfirmedIsStored RotationSeparatesUploads
PROPERTIES KeyUsableForTtl KeyUnusableAfterTtl
CHECK_DEADLOCK FALSE
