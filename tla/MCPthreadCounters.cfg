CONSTANTS
  w1 = w1
  w2 = w2
  p1 = p1
  p2 = p2
  r1 = r1
  r2 = r2
  r3 = r3
  r4 = r4
  NoThread = NoThread
  Threads <- TwoAndTwo
  Posters <- TwoPosters
  Cancelled = {w1}
  NoAddr = NoAddr
  SEM_VALUE_MAX = 1
  Initial = 0
  MaxPosts = 2
  MaxWaits = 2
SPECIFICATION MCSpec
SYMMETRY Symmetry
INVARIANTS TokensConserved RwExclusion JoinsSafe
CHECK_DEADLOCK FALSE
