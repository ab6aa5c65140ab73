SPECIFICATION Spec
CONSTANTS
  Names = {1, 2}
  NoTask = NoTask
  MaxTasks = 2
  MaxQueue = 2
  MaxSetDeps = 2
  UINT_RANGE = 16
  StopWhenComplete = TRUE
  ReadyReactions = {"run", "finish", "later"}
  FailReactions = {"fail", "none", "update"}
  Acyclic = FALSE
  OnlyDefined = FALSE
  OnlyBeforeStart = FALSE
  MayRedefine = FALSE
  FailAnyTime = FALSE
  MayTerminate = TRUE
CHECK_DEADLOCK FALSE
INVARIANTS
  TypeOK
  GraphSymmetric
  NothingMissed
