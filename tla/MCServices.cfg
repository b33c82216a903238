SPECIFICATION MCSpec
CONSTANTS
  MaxLen = 1
  MaxSize = 0
  WhenFull = "DropNew"
  MaxId = 2
  MaxInflight = 1
  Topics = {1, 2}
  Grants = {}
  Matches = {}
  Publications = {}
  Inbound <- MCInbound
  InboundIds = {}
  MaxPublished = 0
  MaxInserted = 20
  MaxLosses = 1
  MaxRestarts = 1
  Resets = TRUE
  MaxFreed = 1
  External = {"tcp"}
  Sidecars = {"controller", "handler"}
  ChannelSize = 2
  Faults = {"accept", "panic", "definition", "store"}
  MaxChanges = 1
  MaxInbox = 1
  Configured = TRUE
  MaxFailures = 2
  MaxUpdates = 2
PROPERTIES
  SnapshotsAdvance
  EndsTogether
  ImplementsSidecar
  BridgeRuns
  EventuallyConfirmed
  HubSettles
  ConnectionsEnd
CHECK_DEADLOCK FALSE
