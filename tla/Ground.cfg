CONSTANTS
  Depth = 2
  CountMod = 4
  AirDepth = 1
SPECIFICATION Spec
INVARIANTS
  TypeOK
  PassedIsExecuted
  ExecutedOnce
  ExecutedAtMostSent
  StateWasSeen
  VerdictsAreRight
PROPERTIES
  CallEnds
