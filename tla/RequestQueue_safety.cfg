SPECIFICATION SafetySpec
CONSTANTS
  Requests = {r1, r2, r3}
  Workers = {w1, w2}
  QueueSize = 2
  MaxWait = 3
  Backoff <- MiddleBackoff
  Blocking = TRUE
  None = None
SYMMETRY Symmetry
INVARIANTS ServedInArrivalOrder Accounting ReplyMatchesRecord
PROPERTY OutcomeIsFinal
