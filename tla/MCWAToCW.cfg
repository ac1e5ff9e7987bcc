SPECIFICATION MCSpec
CONSTANTS
  in1 = in1
  out1 = out1
  e1 = e1
  e2 = e2
  Consumer = Consumer
  NoCopy = NoCopy
  Msgs <- InAndOut
  FromMe <- OnlyOut
  Media <- OnlyOut
  Events <- TwoEvents
  Msg <- OneToOne
  Synthetic <- None
  Online = {TRUE}
  InboxReady = FALSE
  ApiFaults = TRUE
  RowFaults = TRUE
  ConfigFaults = FALSE
  Slow = TRUE
  ConvDeletes = 1
  Revoked <- None
  MaxRetries = 2
  Batch = 1
  StartOutcomes <- StartsAlways
  BrokerFaults = FALSE
  MaxRestarts = 0
INVARIANTS
  KeyHasCall
  QueuedIsBridgedOrDead
  RefIsOwn
  MCCopiesAndRevocations
PROPERTIES
  MCQueuedEventuallySettles
CHECK_DEADLOCK FALSE
