SPECIFICATION MCSpec
CONSTANTS
  Clients = {a}
  TopicFilters = {f}
  Cleans = {TRUE, FALSE}
  MaxConnections = 3
  MaxRequests = 0
  MaxUpdates = 1
  MaxStarts = 1
  Failures = TRUE
INVARIANTS
  MCConfirmedPassed
  ForgottenAtMostFreed
  NoZombie
  SendsSucceed
  WillOnce
  OnlyAllowedConnected
CHECK_DEADLOCK FALSE
