SPECIFICATION Spec
CONSTANTS
  Db = {d1, d2}
  Env = d1
  None = None
  Torn = Torn
  Panel = {c1}
  Schedulers = {}
  Ops = {o1}
  RowIds = {r1}
INVARIANTS RowsStayHome
CHECK_DEADLOCK FALSE
