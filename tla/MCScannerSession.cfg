SPECIFICATION FairSpec
CONSTANTS
  Networks = {TRUE, FALSE}
  Readers = {1, 2, 3}
  MaxCalls = 1
  MaxFaults = 2
  None = None
CHECK_DEADLOCK FALSE
PROPERTIES CallsReturn PushRestored NothingRunsOn
