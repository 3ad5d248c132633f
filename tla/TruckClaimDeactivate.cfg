SPECIFICATION Spec
CONSTANTS
  JointOrder <- OneCrane
  Gear = {2}
  StartDelay = 3
  StopDelay = 2
  BrakeTime = 1
  ReverseTime = 2
  MaxGap = 2
  MaxMoves = 5
  MaxCrashes = 0
  MaxFails = 0
CHECK_DEADLOCK FALSE
PROPERTIES
  DeactivatedIsOff
