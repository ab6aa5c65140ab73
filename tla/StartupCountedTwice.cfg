SPECIFICATION Spec
CONSTANTS
  Names = {1, 2, 3, 4}
  NoTask = NoTask
  MaxTasks = 4
  MaxQueue = 1
  MaxSetDeps = 1
  UINT_RANGE = 16
  StopWhenComplete = TRUE
  ReadyReactions = {"finish"}
  FailReactions = {"fail"}
  Acyclic = TRUE
  OnlyDefined = TRUE
  OnlyBeforeStart = FALSE
  MayRedefine = FALSE
  FailAnyTime = FALSE
  MayTerminate = FALSE
CHECK_DEADLOCK FALSE
INVARIANT EndsOnlyWhenResolved
