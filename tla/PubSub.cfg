SPECIFICATION FairSpec
CONSTANTS
  Subs = {s1, s2}
  Ids = {x, y}
  NoId = NoId
  MaxMessages = 3
  BufferSize = 0
  Faults = {"sub_error", "abandon", "spawn_fails", "client_stops"}
INVARIANTS
  TypeOK
  InOrderWithoutGaps
  UnsubscribedBeforeItGoes
PROPERTIES
  ImplementsStreams
  Unsubscribes
  StreamsEnd
  ClientReleased
CHECK_DEADLOCK FALSE
