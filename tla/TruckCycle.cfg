SPECIFICATION Spec
CONSTANTS
  JointOrder <- OneCrane
  Gear = {2}
  StartDelay = 3
  StopDelay = 1
  BrakeTime = 1
  ReverseTime = 2
  MaxGap = 1
  MaxMoves = 3
  MaxCrashes = 1
  MaxFails = 1
CHECK_DEADLOCK FALSE
INVARIANTS
  TypeOK
  StoppedIsOff
  ReportedStart
PROPERTIES
  WarnedBeforeDrive
  NoShiftUnderPower
  AbortedIsNeutral
