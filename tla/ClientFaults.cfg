SPECIFICATION Spec
CONSTANTS
  Calls = {c1}
  Notes = {}
  Requests = {r1}
  NoValue = NoValue
  SinkCap = 1
  MaxNoise = 1
  Faults = {"tx_error", "rx_eof", "rx_error", "unknown_id", "invalid",
            "abandon", "bad_params", "client_dropped",
            "handler_error", "handler_ends", "handler_rejects"}
INVARIANTS
  WaitingIsSent
  OnlyLeftoverIsLost
  ResultJustified
  NoLostWakeup
CHECK_DEADLOCK FALSE
