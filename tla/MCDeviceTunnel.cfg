SPECIFICATION FairSpec
CONSTANTS
  Worker = {send, recv}
  Modes = {FALSE, TRUE}
  MaxTunnels = 4
  Stops = TRUE
  Free = Free
  None = None
INVARIANTS
  LiveIsCurrent
PROPERTIES
  Recovers
CHECK_DEADLOCK FALSE
