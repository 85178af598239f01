SPECIFICATION Spec
CONSTANTS
  Requests = {r1, r2}
  Workers = {w1}
  QueueSize = 1
  MaxWait = 3
  Backoff <- ShortBackoff
  Blocking = TRUE
  None = None
PROPERTIES DeliversOnce EveryAcceptedRequestSettles
