SPECIFICATION ConvertSpec
CONSTANTS
  Signeds = {1, 3, 7}
  Unsigneds = {1, 7}
  FloatMax = 4
  IntMax = 3
  WideRange = 16
CHECK_DEADLOCK FALSE
INVARIANT NearestRead
