SPECIFICATION MCSpec
CONSTANTS
  x = x
  y = y
  s1 = s1
  s2 = s2
  nobody = nobody
  Medias <- TwoMedias
  SessionOf <- SameSession
  Keyless <- None
  BatchSize = 1
  Tries = 2
  EmptyBatches = 2
  NoSession = nobody
  Forcing = FALSE
  MaxEvents = 2
  MaxRequests = 0
  MaxAnswers = 1
  MaxFaults = 0
  MaxCrashes = 0
INVARIANTS
  StoredHasFile
  OneBatchPerMedia
  TriesBounded
PROPERTIES
  MCHistoryMediaTried
CHECK_DEADLOCK FALSE
