SPECIFICATION CodeFairSpec
CONSTANTS
  h1 = h1
  p1 = p1
  p2 = p2
  d1 = d1
  Handles = {h1}
  Requests = {p1, p2}
  Owner <- TheOwners
  NoHandle = NoHandle
  HasTimeout = TRUE
  Faults = {}
PROPERTIES
  TimeoutCoversRequest
CHECK_DEADLOCK FALSE
