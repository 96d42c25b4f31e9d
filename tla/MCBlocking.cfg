CONSTANTS
  t1 = t1
  t2 = t2
  t3 = t3
  NoTask = NoTask
  NoReader = NoReader
  None = None
  Any = Any
  Tasks <- Three
  MaxDepth = 2
  MaxFailures = 1
SPECIFICATION MCSpec
INVARIANTS OpExclusion SleeperKnown RequestsSafe
PROPERTIES WaitersServed
CHECK_DEADLOCK FALSE
