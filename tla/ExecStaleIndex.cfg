SPECIFICATION Spec
CONSTANTS
  n1 = n1
  n2 = n2
  Names = {n1, n2}
  EXEC_WILDCARD = 4
  MaxThreads = 1
  MaxInstr = 2
  MaxLockCalls = 1
  MaxPerThread = 2
  ClientSignals = {"WakeUp"}
  UINT_RANGE = 16
  InitMayFail = FALSE
  MayDoom = FALSE
  NoThread = NoThread
CHECK_DEADLOCK FALSE
SYMMETRY NameSymmetry
INVARIANT IndexesLeadToExecutors
