CONSTANTS
  f1 = f1
  f2 = f2
  NoFile = NoFile
  NoReader = NoReader
  listener = listener
  u1 = u1
  u2 = u2
  a1 = a1
  a2 = a2
  r1 = r1
  w1 = w1
  w2 = w2
  other = other
  buffer = buffer
  Readers <- OneReader
  Writers <- ManyWriters
  Procs <- ManyProcs
  NonBlocking = {w2}
  Signalled = {w1}
  Keys <- TwoKeys
  PIPE_BUF_SIZE = 1
  MaxCount = 2
  Byte = {0}
SPECIFICATION MCSpec
SYMMETRY Symmetry
INVARIANTS FilesTypeOK PipeSleepers BufferLive OpensMeet SocketSleepers RightsKept ReadsBack SyncedSurvives WritesOrdered SleeperRegistered
CHECK_DEADLOCK FALSE
