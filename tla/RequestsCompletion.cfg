SPECIFICATION RequestsSpec
CONSTANTS
  Clients = {c1}
  MaxRequests = 1
  Firings = 2
CHECK_DEADLOCK FALSE
INVARIANT CompletionsReported
