\* A request that cancels while the worker sends.
SPECIFICATION Spec
CONSTANTS
  Messages = {1, 2}
  Requests = {r1}
  Limit = 2
  MAX_RETRIES = 2
  MaxRequests = 3
  MaxFaults = 0
PROPERTIES
  UndoneIsNotSent
