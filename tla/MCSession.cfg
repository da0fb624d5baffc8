SPECIFICATION Spec
CONSTANTS
  Commands <- AllCommands
  MaxJmp = 20
INVARIANTS
  SessionTypeOK
  FlagsKeepTheirPromise
  OnlyKnownAssertionsFail
  CommittedLayersExist
  JumpBuffersBalance
  OwnMachineHasLayer
PROPERTIES
  ResetIsFresh
  PhasesSpec
CHECK_DEADLOCK FALSE
