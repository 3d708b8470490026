CONSTANTS
  TrqErrors <- Errors
  Inputs <- QueueInputs
  PipeDepth = 2
  CounterMod = 2
  SeqMod = 2
SPECIFICATION Spec
PROPERTIES
  DisableTakesEffect
  HousekeepingAnswered
  ExitHonoured
  ServesCommands
