CONSTANTS
  Pipes = {p1, p2}
  Webhooks = {w1}
  Retriers = {}
  p1 = p1
  p2 = p2
  w1 = w1
  MaxAttempts = 1
  MaxRestarts = 0
  CommitFirst = TRUE
  None = None
SPECIFICATION Spec
PROPERTY WebhookRespectsTerminal
CHECK_DEADLOCK FALSE
