SPECIFICATION FairSpec
CONSTANTS
  t1 = t1
  t2 = t2
  c1 = c1
  c2 = c2
  Task = {t1}
  Clients = {c1, c2}
  Bridges = {b1}
  Origin = Origin
  MaxVisits = 1
  Chat = {h1}
  ChatOf <- OneChat
  MaxUpdates = 2
  MaxRepeats = 2
  Settings <- Owing
PROPERTIES ClosedIsResumed EverythingIsHandled
CHECK_DEADLOCK FALSE
