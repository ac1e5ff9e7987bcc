SPECIFICATION MCSpec
CONSTANTS
  a = a
  b = b
  x = x
  y = y
  N = 3
  ChatOf <- TwoChats
  Media <- SecondIsMedia
  Live <- None
  Agenda <- FirstChat
  Callers <- OneCaller
  Firsts <- QuotedOnes
  Seconds <- Followers
  BatchSize = 1
  Workers = 2
  Faults <- SomeFaults
  MaxRuns = 3
  MaxResets = 0
  MaxCrashes = 1
INVARIANTS
  PostedOnce
  RefIsOwn
  ImportedAfterThree
  ContentRight
PROPERTIES
  MCSyncEnds
CHECK_DEADLOCK FALSE
