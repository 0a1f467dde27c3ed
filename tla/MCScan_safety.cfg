SPECIFICATION FairSpec
CONSTANTS
  N = 3
  Chunk = 2
  Kinds = {"fsck", "window", "project", "state", "queue", "version", "quarantined"}
  Below = TRUE
  MaxWrites = 3
CHECK_DEADLOCK FALSE
INVARIANTS ScanCounts PagesExact
PROPERTIES ScanEnds
