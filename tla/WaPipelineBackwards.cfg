\* A worker, the poll and two webhook handlers on one log.
SPECIFICATION Spec
CONSTANTS
  Logs = {1}
  CeleryWorkers = {w1}
  InlineSenders = {}
  LockOutlivesSend = TRUE
  Backoffs = 1
  DispatchLimit = 1
  MaxQueue = 1
  MaxRetries = 0
  MaxFaults = 0
  MaxCalls = 4
  Handlers = {h1, h2}
SYMMETRY Symmetry
PROPERTIES
  NeverBackwards
