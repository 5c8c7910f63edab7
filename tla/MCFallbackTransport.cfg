SPECIFICATION FairSpec
CONSTANTS
  Candidates = 2
  Inst = {1, 2}
  MaxAttempts = 1
  PsiInterval = TRUE
  Recovery = TRUE
CHECK_DEADLOCK FALSE
INVARIANTS TransportsOwned
PROPERTIES PromotionSparesCommands CallsReturn FailedWriteReplaces
