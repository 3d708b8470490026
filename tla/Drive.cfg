CONSTANTS
  TrqErrors <- Errors
  Inputs <- DriveInputs
  PipeDepth = 1
  CounterMod = 2
  SeqMod = 2
SPECIFICATION Spec
INVARIANTS
  TypeOK
  EnabledTelemetryIsTrue
  DisabledReportsIdle
  DisabledIsUndriven
  EnabledNeedsInterfaces
  DormantIsDisabled
PROPERTIES
  OnlyConfigDrives
  OutcomeCounted
  ActsAsBank
