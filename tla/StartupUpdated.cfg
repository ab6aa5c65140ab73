SPECIFICATION Spec
CONSTANTS
  Names = {1, 2}
  NoTask = NoTask
  MaxTasks = 2
  MaxQueue = 2
  MaxSetDeps = 1
  UINT_RANGE = 16
  StopWhenComplete = TRUE
  ReadyReactions = {"run"}
  FailReactions = {"update"}
  Acyclic = TRUE
  OnlyDefined = TRUE
  OnlyBeforeStart = FALSE
  MayRedefine = FALSE
  FailAnyTime = FALSE
  MayTerminate = FALSE
CHECK_DEADLOCK FALSE
INVARIANT NoCrash
