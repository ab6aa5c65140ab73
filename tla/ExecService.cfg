SPECIFICATION FairSpec
CONSTANTS
  n1 = n1
  n2 = n2
  Names = {n1, n2}
  EXEC_WILDCARD = 3
  MaxThreads = 2
  MaxInstr = 1
  MaxLockCalls = 2
  MaxPerThread = 1
  ClientSignals = {"WakeUp"}
  UINT_RANGE = 16
  InitMayFail = FALSE
  MayDoom = FALSE
  NoThread = NoThread
CHECK_DEADLOCK FALSE
INVARIANTS
  ExecutorsLeadToThreads
  ExecutorsAccountedFor
  NoAddLost
PROPERTIES
  ImplementsService
  ShutdownCompletes
  SignalWakes
