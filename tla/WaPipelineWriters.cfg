\* Two senders in request threads or the fallback loop, which take no key, with the
\* poll and one webhook handler.
SPECIFICATION Spec
CONSTANTS
  Logs = {1}
  CeleryWorkers = {}
  InlineSenders = {i1, i2}
  LockOutlivesSend = FALSE
  Backoffs = 1
  DispatchLimit = 1
  MaxQueue = 1
  MaxRetries = 0
  MaxFaults = 1
  MaxCalls = 2
  Handlers = {h1}
SYMMETRY Symmetry
INVARIANTS
  AcceptanceRecorded
  NoFalseDelivery
PROPERTIES
  BackwardsOnlyFromStaleCopy
