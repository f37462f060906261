CONSTANTS
  Approvals = {a1, a2}
  AutoAllowed = {}
  Conns = {c1, c2}
  ParallelHooks = TRUE
SPECIFICATION Spec
INVARIANTS NoLostWakeup WakeHasDecision AllowNeedsApproval
CHECK_DEADLOCK FALSE
