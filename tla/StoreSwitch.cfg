SPECIFICATION FairSpec
CONSTANTS
  Db = {d1, d2}
  Env = d1
  None = None
  Torn = Torn
  Panel = {c1, c2}
  Schedulers = {runs}
  Ops = {o1}
  RowIds = {r1}
INVARIANTS ConfigIsLive SavedHasRun  FreshTimers
PROPERTIES RequestsEnd
CHECK_DEADLOCK FALSE
