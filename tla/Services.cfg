SPECIFICATION ServicesFairSpec
CONSTANTS
  Names = {1, 2, 3}
  NoTask = NoTask
  MaxTasks = 3
  MaxQueue = 6
  MaxSetDeps = 1
  UINT_RANGE = 16
  StopWhenComplete = TRUE
  ReadyReactions = {"run"}
  FailReactions = {"fail", "none"}
  Acyclic = TRUE
  OnlyDefined = TRUE
  OnlyBeforeStart = TRUE
  MayRedefine = FALSE
  FailAnyTime = FALSE
  MayTerminate = FALSE
  AutoComplete = {1}
CHECK_DEADLOCK FALSE
INVARIANTS
  FlagsMatchTask
  ReceiverAfterDependencies
  WaitingCount
  EndsOnlyWhenResolved
  ListenerNotReentered
PROPERTIES
  EventuallyEnds
