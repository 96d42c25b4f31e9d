CONSTANTS
  init = init
  a = a
  b = b
  c0 = c0
  c1 = c1
  Any = Any
  None = None
  Procs <- Family
  Booted = {a}
  Scanners <- TwoScans
  Batch = 1
  Dispositions = {"dfl", "handler"}
  OptionSets <- Plain
  Stoppable = {}
  Signalled = {}
  Programs = {"reports", "jobs", "ignoring", "cow", "shm"}
SPECIFICATION MCSpec
INVARIANTS ProgramTypeOK TreeConsistent ReportsCollectedOnce NothingMissed PagesAccounted MemoryIsolated
CHECK_DEADLOCK FALSE
