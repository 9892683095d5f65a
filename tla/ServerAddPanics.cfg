SPECIFICATION Spec
CONSTANTS
  a1 = a1
  a2 = a2
  d1 = d1
  batch = batch
  single = single
  c1 = c1
  c2 = c2
  c3 = c3
  c4 = c4
  m1 = m1
  Adds = {a1, a2}
  Removes = {d1}
  Requests = {single}
  Calls = {c1, c2, c3, c4}
  Content <- TheContent
  Name <- TheNames
  Kind <- TheKinds
  NoHandler = NoHandler
  SinkCap = 1
  Faults = {"handler_error", "eager_error"}
INVARIANTS
  AddNeverPanics
CHECK_DEADLOCK FALSE
