SPECIFICATION MCSpec
CONSTANTS
  a = a
  b = b
  other = other
  x = x
  y = y
  g = g
  Nobody = Nobody
  Jids <- ThreeChats
  Groups <- OneGroup
  NumberOf <- Same
  LongForm <- LongNumber
  MergeBr = TRUE
  AutoReopen = TRUE
  Known <- TwoNumbers
  Callers <- TwoCallers
  Faults = TRUE
  MaxCalls = 3
  MaxDeletes = 0
  MaxResolves = 0
  MaxExpiries = 1
  Requests <- ThreeRequests
  RoutesOf <- AnyBesideEnding
  MaxChanges = 2
  Clients <- OneClient
  Rate = 1
  Burst = 3
  TTL = 2
  MaxTicks = 6
  Names = {"online"}
  Values = {"all", "none"}
  Blank = ""
  Updates <- TwoCallers
  Links <- TwoCallers
  MaxFailures = 1
  MaxPhone = 1
  MaxCrashes = 1
INVARIANTS
  LocksWork
  UsesOwnContact
  AnswersTrue
  GroupListFresh
  PrivacyAgrees
  WithinRate
PROPERTIES
  MCCallsEnd
CHECK_DEADLOCK FALSE
