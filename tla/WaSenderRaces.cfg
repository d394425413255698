\* Two Celery workers beside an inline sender that also retries by hand.
SPECIFICATION SenderSpec
CONSTANTS
  Logs = {1}
  CeleryWorkers = {w1, w2}
  InlineSenders = {i1}
  LockOutlivesSend = TRUE
  Backoffs = 1
  DispatchLimit = 1
  MaxQueue = 2
  MaxRetries = 1
  MaxFaults = 1
  MaxCalls = 3
SYMMETRY Symmetry
INVARIANTS
  WorkersExclude
  RetryBudget
  DuplicatesExplained
PROPERTIES
  RequeuedByHandOnly
