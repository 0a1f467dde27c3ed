SPECIFICATION FairSpec
CONSTANTS
  None = None
  w1 = w1
  c1 = c1
  c2 = c2
  Wheels = {w1, w2}
  Contents = {c1, c2}
  Entries <- FirstBody
  Bridge = {}
  Imports <- OtherBodyImported
  Selectors = {"READY", "SKIPPED"}
  MaxAttempts = 1
  ConvertLimit = 2
  FedMax = 2
  Corruption = FALSE
  MaxRevs = 1
  MaxAdmin = 1
  MaxCrashes = 1
CHECK_DEADLOCK FALSE
INVARIANTS ReadyIsCurrent CalmFsck
PROPERTIES EveryWheelSettles
