SPECIFICATION MCSpec
CONSTANTS
  Messages = {1, 2}
  Endpoints = {"cloud", "module"}
  CloudEndpoints = {"cloud"}
  Priorities = {0}
  Route <- MCRoute
  ClientOf <- MCClientOf
  Expiring = {}
  BatchSize = 2
  CheckEntireQueue = FALSE
  MaxCrashes = 1
  MaxFaults = 0
  Tasks = {"t", "u"}
  Properties = {"p", "q"}
  MaxDesired = 2
  MaxReports = 0
  MaxOutages = 1
  MaxConnections = 2
  MaxRestarts = 0
INVARIANTS
  Kept
  OrderKept
  PriorityFirst
  DesiredTold
  ReportsKept
CHECK_DEADLOCK FALSE
