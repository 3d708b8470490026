CONSTANTS
  TrqErrors <- Errors
  Calls <- QueueCalls
  QueueDepth = 2
  CounterMod = 2
SPECIFICATION RateGroupSpec
PROPERTIES
  DisableHappens
  TelemetryCatchesUp
