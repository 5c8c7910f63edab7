SPECIFICATION Spec
CONSTANTS
  NameCount = 2
  MaxBuilds = 3
  Recordings = {w1}
  MaxFaults = 2
  None = None
CHECK_DEADLOCK FALSE
INVARIANTS SinksOwned CommittedServed RecordsTruthful
PROPERTY NoStopUnderSubmission
