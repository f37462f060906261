CONSTANTS
  Approvals = {a1, a2, a3}
  AutoAllowed = {a3}
  Conns = {c1}
  ParallelHooks = FALSE
SPECIFICATION FairSpec
  
PROPERTY ImplementsApproval
CHECK_DEADLOCK FALSE
