SPECIFICATION ISpec
CONSTANTS
  MaxLen = 1
  MaxSize = 0
  WhenFull = "DropNew"
  MaxId = 1
  MaxInflight = 1
  Topics = {1}
  Grants = {}
  Matches = {}
  Publications = {}
  Inbound <- MCInbound
  InboundIds = {}
  MaxPublished = 0
  MaxInserted = 20
  MaxLosses = 1
  MaxRestarts = 0
  Resets = FALSE
  MaxFreed = 0
INVARIANTS
  PassedOnce
CHECK_DEADLOCK FALSE
