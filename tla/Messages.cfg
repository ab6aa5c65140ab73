SPECIFICATION MessagesSpec
CONSTANTS
  Senders = {s1, s2}
  MaxSends = 2
  MaxReceivers = 2
  BaseSizes = {0, 1}
  TimerNames = {n1}
  Intervals = {2}
  MaxCalls = 3
  MaxLate = 0
  Clients = {c1, c2}
  MaxRequests = 1
  Firings = 2
CHECK_DEADLOCK FALSE
INVARIANTS
  MessagesTypeOK
  DeliveredInOrder
  ReceiversOfClients
  OneEntryPerTimer
  LookupsAgree
  SidesAgree
PROPERTIES
  PostedIsHandled
  BeatsCarryOn
  NeverTakenBack
  GivenUpIsDropped
