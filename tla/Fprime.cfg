CONSTANTS
  TrqErrors <- Errors
  Calls <- AllCalls
  QueueDepth = 1
  CounterMod = 2
SPECIFICATION Spec
INVARIANTS
  TypeOK
  KnownLevelsAreTrue
  DisabledDrivesByPortOnly
  CommandChannelsCurrent
  DeviceCountersBalance
PROPERTIES
  OnlyAskedDrives
  ActsAsBank
