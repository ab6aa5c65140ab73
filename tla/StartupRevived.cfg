SPECIFICATION Spec
CONSTANTS
  Names = {1, 2}
  NoTask = NoTask
  MaxTasks = 2
  MaxQueue = 2
  MaxSetDeps = 1
  UINT_RANGE = 16
  StopWhenComplete = TRUE
  ReadyReactions = {"run"}
  FailReactions = {"fail", "none"}
  Acyclic = FALSE
  OnlyDefined = TRUE
  OnlyBeforeStart = FALSE
  MayRedefine = FALSE
  FailAnyTime = TRUE
  MayTerminate = FALSE
CHECK_DEADLOCK FALSE
INVARIANT EndsOnlyWhenResolved
