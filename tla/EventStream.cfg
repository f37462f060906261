CONSTANTS
  Conns = {c1}
  MaxEvents = 4
  MaxChat = 2
SPECIFICATION FairSpec
INVARIANTS InOrder
PROPERTIES StreamEnds Released
CHECK_DEADLOCK FALSE
