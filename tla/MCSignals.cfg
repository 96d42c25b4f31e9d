SPECIFICATION Spec
SYMMETRY Symmetry
CONSTANTS
  c1 = c1
  c2 = c2
  Senders <- TwoSenders
  Used = {"INT", "STOP", "CONT"}
  Actions <- CatchOrIgnore
  Masks <- OneMask
  Includes = {"sigprocmask", "sigaction", "suspend in handler", "pause", "execve", "longjmp", "frame fails"}
  Racing = TRUE
  MaxSends = 1
INVARIANTS OneFrame
CHECK_DEADLOCK FALSE
