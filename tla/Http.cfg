SPECIFICATION FairSpec
CONSTANTS
  h1 = h1
  p1 = p1
  p2 = p2
  d1 = d1
  Handles = {h1}
  Requests = {p1, p2, d1}
  Owner <- TheOwners
  NoHandle = NoHandle
  HasTimeout = TRUE
  Faults = {"http_error", "bad_body", "core_stops", "creator_fails",
            "client_dropped"}
INVARIANTS
  TypeOK
  NothingLostOrOvertaken
  OneRequestEach
  PendingIsHeld
  FailsByItsOwn
  NoLostWakeup
PROPERTIES
  CallsAnswered
  CoreReleased
CHECK_DEADLOCK FALSE
