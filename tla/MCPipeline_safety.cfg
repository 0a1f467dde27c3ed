SPECIFICATION Spec
CONSTANTS
  None = None
  w1 = w1
  c1 = c1
  c2 = c2
  Wheels = {w1}
  Contents = {c1, c2}
  Entries <- HashedEntries
  Bridge = {c1, c2}
  Imports <- OneImport
  Selectors = {"PROJECT", "VERSION", "UNQUARANTINE"}
  MaxAttempts = 1
  ConvertLimit = 2
  FedMax = 2
  Corruption = TRUE
  MaxRevs = 3
  MaxAdmin = 1
  MaxCrashes = 1
SYMMETRY Symmetry
CHECK_DEADLOCK FALSE
INVARIANTS TypeOK FsckHolds BlobResolves
PROPERTIES TombstoneRests
