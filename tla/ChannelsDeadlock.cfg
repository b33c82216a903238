SPECIFICATION FairPSpec
CONSTANTS
  Capacity = 2
  MaxGiven = 6
  MaxMessages = 5
  MaxConfigs = 1
PROPERTY CarriedOut
CHECK_DEADLOCK FALSE
