SPECIFICATION Spec
CONSTANTS
  Subs = {s1, s2}
  Ids = {x}
  NoId = NoId
  MaxMessages = 0
  BufferSize = 1
  Faults = {}
INVARIANTS
  SecondSubscriberAccepted
CHECK_DEADLOCK FALSE
