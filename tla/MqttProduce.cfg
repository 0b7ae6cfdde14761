CONSTANTS
  Payloads <- EveryPayload
  Names = {"a", "b"}
  Keys = {"x", "y"}
  ReliableAck = TRUE
  Timeout = 2
  MaxElapsed = 3
SPECIFICATION Spec
INVARIANTS AckedIsPublished CurrentIsNewest WaitsShareOneTimeout
CHECK_DEADLOCK FALSE
