SPECIFICATION MSpec
CONSTANTS
  External = {"tcp"}
  Sidecars = {"controller", "handler"}
  ChannelSize = 2
  Faults = {"definition"}
  MaxChanges = 2
  MaxInbox = 2
INVARIANTS
  ShutdownPersists
CHECK_DEADLOCK FALSE
