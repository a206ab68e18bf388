SPECIFICATION FairSpec
CONSTANTS
  None = None
  Idx = {i1, i2}
  Replicas = {r1}
  Callers = {c1}
  Stoppers = {}
  Launches = {"now", "at", "continue"}
  Deletable = {}
  ComesDue = "parked"
  IndexHeader = FALSE
  LossyEvents = TRUE
  LostReplies = FALSE
  MaxExec = 2
  MaxRestarts = 1
INVARIANTS AtMostOneDispatch FinishFindsItsRow ResumeSeesOutcome DirectIsKept
PROPERTIES EveryDueRowResolves ImplementsLedger
CHECK_DEADLOCK FALSE
