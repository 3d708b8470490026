CONSTANTS
  Depth = 2
  CountMod = 3
  AirDepth = 1
SPECIFICATION Spec
INVARIANTS
  NoopConfirmsIncrement
