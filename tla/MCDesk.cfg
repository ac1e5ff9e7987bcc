SPECIFICATION MCSpec
CONSTANTS
  c1 = c1
  c2 = c2
  a = a
  b = b
  q = q
  r = r
  m1 = m1
  m2 = m2
  m3 = m3
  direct = direct
  Nobody = Nobody
  Ids = {t1, t2}
  People = {p}
  Users = {u}
  Queues <- OneQueue
  Clients <- TwoClients
  Admins <- None
  Msgs <- ThreeMsgs
  Incoming <- TwoIncoming
  Chats <- OneChat
  Groups <- NoGroups
  ChatOf <- InDirect
  Stamp <- OneByOne
  Handlers <- TwoClients
  Senders <- OneSender
  Nothing = Nothing
  PageSize = 1
  Failures = 1
  MaxEvents = 2
  MaxReads = 1
INVARIANTS
  RowsAgree
  ReadWasSent
PROPERTIES
  DeletedStaysDeleted
  
  MCTakenIsReceived
CHECK_DEADLOCK FALSE
