CONSTANTS
  r1 = r1
  w1 = w1
  w2 = w2
  other = other
  buffer = buffer
  Readers <- OneReader
  Writers <- OneWriter
  Procs <- OnePair
  NonBlocking = {}
  Signalled = {r1, w1}
  Keys <- TwoKeys
  PIPE_BUF_SIZE = 2
  MaxCount = 2
  Byte = {0, 1}
SPECIFICATION PairSpec
PROPERTIES QueueSpec CallsEnd
CHECK_DEADLOCK FALSE
