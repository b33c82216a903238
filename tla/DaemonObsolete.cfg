SPECIFICATION Spec
CONSTANTS
  Configs <- MCConfigs
  Certs = {1, 2}
  Devices = {1, 2}
  Names = {m}
  MaxEdits = 1
  MaxFailures = 1
  MaxStops = 1
INVARIANT ObsoleteRemoved
CHECK_DEADLOCK FALSE
