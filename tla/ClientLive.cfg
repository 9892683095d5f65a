SPECIFICATION FairSpec
CONSTANTS
  Calls = {c1, c2}
  Notes = {}
  Requests = {}
  NoValue = NoValue
  SinkCap = 1
  MaxNoise = 1
  Faults = {"duplicate", "abandon", "tx_error"}
PROPERTIES
  ImplementsFairSession
  CallsResolve
  ClientEnds
CHECK_DEADLOCK FALSE
