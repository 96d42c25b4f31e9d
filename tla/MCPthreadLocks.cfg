CONSTANTS
  a = a
  b = b
  c = c
  d = d
  Threads <- Four
  Producers = {c, d}
  Broadcasters = {d}
  MaxLeaves = 1
  NoAddr = NoAddr
  NoThread = NoThread
  Type = "RECURSIVE"
  Robust = TRUE
  MaxDepth = 2
SPECIFICATION MCSpec
INVARIANTS Exclusion SleepersCovered OneHeir NoSleepBesideItem BarrierHolds
PROPERTIES LocksProgress
CHECK_DEADLOCK FALSE
