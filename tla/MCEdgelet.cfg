SPECIFICATION MCSpec
CONSTANTS
  Configs <- MCConfigs
  Certs = {1, 2}
  Devices = {1, 2}
  Names = {m}
  MaxEdits = 1
  MaxFailures = 2
  MaxStops = 1
INVARIANTS
  ServingSound
  ReprovisionHeeded
  OwnContainer
  BeliefTrue
PROPERTIES
  MCProgress
  Converges
CHECK_DEADLOCK FALSE
