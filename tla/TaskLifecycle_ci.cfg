CONSTANTS
  Pipes = {p1, p2}
  Webhooks = {w1, w2}
  Retriers = {}
  p1 = p1
  p2 = p2
  w1 = w1
  w2 = w2
  MaxAttempts = 2
  MaxRestarts = 1
  CommitFirst = TRUE
  None = None
SYMMETRY Symmetry
SPECIFICATION Spec
INVARIANTS OneSession 
CHECK_DEADLOCK FALSE
