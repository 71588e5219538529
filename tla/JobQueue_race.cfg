SPECIFICATION Spec
CONSTANTS
  w1 = w1
  w2 = w2
  w3 = w3
  t1 = t1
  NJobs = 1
  Workers = {w1, w2}
  Targets = {t1}
  TargetOf <- SingleJob
  Kind <- OneProgressReport
  Priority <- One
  MaxAttempts = 2
  RetryDelay = 1
  RunTimeout = 2
  HandlerBound = 1
  BatchLimit = 1
  RecoveryLimit = 1
  MaxPending = 9
  RetryFrom = {"failed", "dead_letter"}
  MaxRequeues = 1
SYMMETRY WorkerSymmetry
PROPERTY RetryLeavesRunningAlone
