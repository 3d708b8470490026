CONSTANTS
  TrqErrors <- Errors
  CounterMod = 2
  Lines <- Session
SPECIFICATION Spec
INVARIANTS
  TypeOK
  HkIsTrue
PROPERTIES
  SilentAtEnd
  ActsAsBank
