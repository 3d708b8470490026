CONSTANTS
  NumMtbs = 2
  Commands <- TwoTorquers
  BufferSize = 3
SPECIFICATION Spec
PROPERTIES
  DisabledDoesNotTorque
