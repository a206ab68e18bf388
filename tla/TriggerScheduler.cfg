SPECIFICATION FairSpec
CONSTANTS
  Trigger = {t1, t2}
  Flow = {f1, f2}
  Clients = {c1}
  Specs <- TwoSpecs
  EditsSpec = FALSE
  StoreFails = TRUE
  Fallback = 2
  MaxTime = 4
  MaxSaves = 2
  MaxRestarts = 1
INVARIANTS ArmedBySpec NotOverslept LateAtMostOnce 
PROPERTIES OnSchedule CatchesUp
CHECK_DEADLOCK FALSE
