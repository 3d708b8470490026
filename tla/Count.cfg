CONSTANTS
  TrqErrors <- Errors
  Inputs <- CountInputs
  PipeDepth = 1
  CounterMod = 3
  SeqMod = 2
SPECIFICATION Spec
INVARIANTS
  CountersBalance
PROPERTIES
  EveryPacketCounted
  ServesCommands
