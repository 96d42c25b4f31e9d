CONSTANTS
  init = init
  a = a
  b = b
  c0 = c0
  c1 = c1
  Any = Any
  None = None
  Procs <- Family
  Booted = {a}
  Scanners <- OneScan
  Batch = 1
  Dispositions = {"dfl", "ign"}
  OptionSets <- Plain
  Stoppable = {}
  Signalled = {}
  Programs = {"reports"}
SPECIFICATION MCSpec
INVARIANTS SomethingToWaitFor
CHECK_DEADLOCK FALSE
