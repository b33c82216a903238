SPECIFICATION MCSpec
CONSTANTS
  Clients = {a, b}
  TopicFilters = {f}
  Cleans = {TRUE, FALSE}
  MaxConnections = 2
  MaxRequests = 1
  MaxUpdates = 1
  MaxStarts = 1
  Failures = FALSE
INVARIANTS
  OnceInTurn
  StateTopicsExact
CHECK_DEADLOCK FALSE
