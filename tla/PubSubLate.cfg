SPECIFICATION Spec
CONSTANTS
  Subs = {s1}
  Ids = {x}
  NoId = NoId
  MaxMessages = 1
  BufferSize = 1
  Faults = {}
INVARIANTS
  LateNotificationsHarmless
CHECK_DEADLOCK FALSE
