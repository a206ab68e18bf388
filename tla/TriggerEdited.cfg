SPECIFICATION Spec
CONSTANTS
  Trigger = {t1}
  Flow = {f1}
  Clients = {c1}
  Specs <- TwoSpecs
  EditsSpec = TRUE
  StoreFails = FALSE
  Fallback = 2
  MaxTime = 4
  MaxSaves = 2
  MaxRestarts = 0
INVARIANTS ArmedBySpec
CHECK_DEADLOCK FALSE
