SPECIFICATION MCSpec
CONSTANTS
  Filters = {f, g}
  RuleFilters = {f}
  RpcFilters = {g}
  Rejected = {}
  Rules = {1, 2}
  MaxUpdates = 2
  MaxBreaks = 2
  MaxCommands = 2
  Capacity = 2
  MaxGiven = 4
  MaxMessages = 4
  MaxConfigs = 1
  BatchSize = 2
  MAX_IN_FLIGHT = 2
  MaxOffset = 6
INVARIANTS
  MCSubscribed
  MCRpcExact
  AllOnTheirWay
  NeverStuck
  StoreExact
PROPERTIES
  MCSettles
CHECK_DEADLOCK FALSE
