CONSTANTS
  NumMtbs = 2
  Commands <- TwoTorquers
  BufferSize = 3
SPECIFICATION Spec
INVARIANTS
  TypeOK
  LastWord
  StopBoundsTorque
PROPERTIES
  CatchesUp
