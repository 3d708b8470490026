CONSTANTS
  TrqErrors <- Errors
  Inputs <- DriveInputs
  PipeDepth = 1
  CounterMod = 2
  SeqMod = 2
SPECIFICATION Spec
PROPERTIES
  DisableSetsToZero
