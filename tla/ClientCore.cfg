SPECIFICATION Spec
CONSTANTS
  Calls = {c1, c2}
  Notes = {n1}
  Requests = {}
  NoValue = NoValue
  SinkCap = 1
  MaxNoise = 1
  Faults = {"duplicate"}
SYMMETRY CallSymmetry
INVARIANTS
  TypeOK
  OwnAnswer
  IdsAgree
  NoCallForgotten
  OnceAndInOrder
  WaitingIsSent
  CleanEndDelivers
CHECK_DEADLOCK FALSE
