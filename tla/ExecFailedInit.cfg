SPECIFICATION Spec
CONSTANTS
  n1 = n1
  n2 = n2
  Names = {n1, n2}
  EXEC_WILDCARD = 3
  MaxThreads = 2
  MaxInstr = 1
  MaxLockCalls = 1
  MaxPerThread = 1
  ClientSignals = {"WakeUp"}
  UINT_RANGE = 16
  InitMayFail = TRUE
  MayDoom = FALSE
  NoThread = NoThread
CHECK_DEADLOCK FALSE
SYMMETRY NameSymmetry
INVARIANT ExecutorsLeadToThreads
