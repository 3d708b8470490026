CONSTANTS
  TrqErrors <- Errors
  Inputs <- QueueInputs
  PipeDepth = 1
  CounterMod = 2
  SeqMod = 2
SPECIFICATION Spec
INVARIANTS
  ExitCleansUpInterface
