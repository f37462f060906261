CONSTANTS
  Conns = {c1}
  MaxDepth = 2
  MaxSent = 2
  IdleTimeout = 3
  HardTimeout = 5
  TicksPerSec = 2
  Horizon = 7
  MaxSessions = 2
SPECIFICATION FairSpec
INVARIANTS PersistedOnce 
PROPERTIES NoTurnPastDeadline 
CHECK_DEADLOCK FALSE
