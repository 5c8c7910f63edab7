SPECIFICATION FairSpec
CONSTANTS
  Networks = {TRUE}
  Readers = {1, 2, 3}
  MaxCalls = 0
  MaxFaults = 2
  None = None
CHECK_DEADLOCK FALSE
PROPERTY NetworkPushRestored
