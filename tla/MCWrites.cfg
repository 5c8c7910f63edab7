SPECIFICATION MCSpec
CONSTANTS
  Files = {f1, f2}
  MaxHands = 2
  MaxChanges = 2
  MaxEdits = 2
  MaxStrangers = 2
  MaxRecords = 2
  Identities = {"x", "y"}
  Sessions = {"p", "q"}
  MaxSelected = 2
  MaxUpsets = 1
CHECK_DEADLOCK FALSE
INVARIANTS BothTyped CatalogResolves TerminalTrue TreeTrue StorageSound
PROPERTIES TerminalIsFinal ContractKept DocumentSafe ErrorsTellTheTruth StepsOfUsbWrite ChoicesKept
