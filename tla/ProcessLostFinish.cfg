SPECIFICATION Spec
CONSTANTS
  None = None
  Idx = {i1, i2}
  Replicas = {r1}
  Callers = {c1}
  Stoppers = {}
  Launches = {"at"}
  Deletable = {}
  ComesDue = "booked"
  IndexHeader = FALSE
  LossyEvents = FALSE
  LostReplies = FALSE
  MaxExec = 2
  MaxRestarts = 0
SYMMETRY RowSymmetry
INVARIANTS ClosedIsFinal
CHECK_DEADLOCK FALSE
