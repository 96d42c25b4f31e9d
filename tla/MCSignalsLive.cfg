SPECIFICATION LiveSpec
CONSTANTS
  c1 = c1
  c2 = c2
  Senders <- TwoSenders
  Used = {"INT", "KILL", "STOP"}
  Actions <- CatchOrDefault
  Masks <- IntMask
  Includes = {"sigprocmask", "sigaction", "sigsuspend", "execve", "longjmp"}
  Racing = FALSE
  MaxSends = 2
INVARIANT MaskRestored
PROPERTIES SignalsAct
CHECK_DEADLOCK FALSE
