SPECIFICATION Spec
CONSTANTS
  Calls = {c1}
  Notes = {}
  Requests = {}
  NoValue = NoValue
  SinkCap = 1
  MaxNoise = 0
  Faults = {}
INVARIANTS
  ResolvesAfterFutures
CHECK_DEADLOCK FALSE
