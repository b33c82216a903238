SPECIFICATION MCSpec
CONSTANTS
  MaxLen = 1
  MaxSize = 0
  WhenFull = "DropOld"
  MaxId = 3
  MaxInflight = 2
  Topics = {1, 2, 3}
  Grants <- MCGrants
  Matches <- MCMatches
  Publications <- MCPublications
  Inbound <- MCInbound
  InboundIds = {1}
  MaxPublished = 3
  MaxInserted = 1
  MaxLosses = 2
  Takeovers = FALSE
  PreviousCount = 2
  SeqNumbers = 3
  MaxClock = 3
  MaxStores = 4
  ClockSteady = TRUE
INVARIANTS
  RedeliveryComplete
  QueueExact
  NothingForgotten
  AcceptedInOrder
  MCNothingStranded
  LinkValid
  Durable
PROPERTIES
  EventuallyDelivered
CHECK_DEADLOCK FALSE
