SPECIFICATION FairSpec
CONSTANTS
  Obj <- MCObj
  Kind <- MCKind
  Static <- MCStatic
  WordOf <- MCWordOf
  WORDS = 3
  Heaps <- MCHeaps
  Limits <- MCLimits
  SCAN_CHUNK = 2
  SPILL_BATCH = 2
  QUEUE = 1
INVARIANTS
  TypeOK
  NothingLost
  NothingRetained
PROPERTY
  CollectionEnds
