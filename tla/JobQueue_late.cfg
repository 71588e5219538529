SPECIFICATION Spec
CONSTANTS
  w1 = w1
  w2 = w2
  w3 = w3
  t1 = t1
  NJobs = 1
  Workers = {w1, w2, w3}
  Targets = {t1}
  TargetOf <- SingleJob
  Kind <- OnePhoto
  Priority <- One
  MaxAttempts = 3
  RetryDelay = 1
  RunTimeout = 2
  HandlerBound = 3
  BatchLimit = 1
  RecoveryLimit = 1
  MaxPending = 9
  RetryFrom = {"failed", "dead_letter"}
  MaxRequeues = 0
PROPERTY EventuallySettled
