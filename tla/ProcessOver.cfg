SPECIFICATION FairSpec
CONSTANTS
  None = None
  Idx = {i1}
  Replicas = {r1}
  Callers = {c1}
  Stoppers = {p1}
  Launches = {"now", "at"}
  Deletable = {i1}
  ComesDue = "any"
  IndexHeader = TRUE
  LossyEvents = FALSE
  LostReplies = TRUE
  MaxExec = 2
  MaxRestarts = 0
INVARIANTS TypeOK
PROPERTIES OverIsOver EveryRunCloses
CHECK_DEADLOCK FALSE
