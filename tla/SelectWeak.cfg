SPECIFICATION Spec
CONSTANTS
  Items = {i1, i2}
  MaxQueue = 2
INVARIANTS
  BoundedBypass
PROPERTIES
  StrongEndFinishes
  WeakServed
CHECK_DEADLOCK FALSE
