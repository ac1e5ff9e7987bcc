SPECIFICATION MCSpec
CONSTANTS
  text = text
  album = album
  p1 = p1
  chat = chat
  h1 = h1
  h2 = h2
  Consumer = Consumer
  NoCopy = NoCopy
  CwMsgs <- TwoMsgs
  HasText <- TwoMsgs
  Attachments <- AllAtts
  Chats <- OneChat
  ChatOf <- ChatOfAll
  Hooks <- TwoHooks
  Cw <- TextThenAlbum
  PhoneMsgs <- OnePhone
  Online = {TRUE, FALSE}
  SessionFlaps = 1
  SendFaults = TRUE
  Slow = FALSE
  MaxRetries = 3
  Batch = 2
  StartOutcomes <- StartsAlways
  BrokerFaults = FALSE
  MaxRestarts = 0
  name = name
  other = other
  own = own
  Sessions = {own}
  Names = {name, other}
  Owner <- OwnNames
  Inboxes = {i1, i2, i3}
  Existing = {i1}
  Nothing = Nothing
  Setters = {a}
  Bridges = {b}
  Commands = {k}
  MaxSets = 2
  MaxPosts = 1
  MaxDeletes = 1
  MaxLosses = 1
  MaxFailures = 1
INVARIANTS
  SentOnceInOrder
  NoEcho
  OutcomesTrue
  MCFaultyOutcomes
  AnswersComeBack
CHECK_DEADLOCK FALSE
