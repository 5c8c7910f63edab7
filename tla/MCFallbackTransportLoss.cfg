SPECIFICATION Spec
CONSTANTS
  Candidates = 2
  Inst = {1, 2, 3}
  MaxAttempts = 1
  PsiInterval = TRUE
  Recovery = TRUE
CHECK_DEADLOCK FALSE
INVARIANT LossNoticed
