SPECIFICATION LibrariesSpec
CONSTANTS
  Contexts = {c1}
  Threads = {t1, t2}
  MaxTasks = 3
  MaxEdits = 3
  MaxContinues = 1
  ValueBit = 100
  Separator = "/"
  Strings <- MCStrings
  Tokens = {1, 2, 3}
  MaxObjects = 4
  CMThreads = {t1, t2}
  NoCMThread = NoCMThread
  ServiceNames <- MCServiceNames
  MaxMethods = 1
  MaxServices = 2
  MaxCMClients = 1
  MaxDepth = 3
  MaxDatums = 3
  MaxEntries = 3
  Keys = {"a", "b"}
  Signeds = {1, 3, 7}
  Unsigneds = {1, 7}
  FloatMax = 4
  IntMax = 3
  WideRange = 16
CHECK_DEADLOCK FALSE
INVARIANTS
  ChildrenExist
