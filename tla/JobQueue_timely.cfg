SPECIFICATION Spec
CONSTANTS
  w1 = w1
  w2 = w2
  w3 = w3
  t1 = t1
  NJobs = 2
  Workers = {w1, w2}
  Targets = {t1}
  TargetOf <- Shared
  Kind <- OneVideo
  Priority <- Rising
  MaxAttempts = 2
  RetryDelay = 1
  RunTimeout = 2
  HandlerBound = 1
  BatchLimit = 2
  RecoveryLimit = 2
  MaxPending = 9
  RetryFrom = {"dead_letter"}
  MaxRequeues = 1
INVARIANTS SingleExecutor SettledAgreement WaitingTargetHasJob
PROPERTIES KeepsContract TargetResolved
