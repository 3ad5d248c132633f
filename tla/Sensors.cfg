SPECIFICATION Spec
CONSTANTS
  AccRange = {4, 16}
  GyroRange = {250, 2000}
  AccMax = 16
  GyroMax = 2000
  AccInit = 4
  AccReset = 4
  GyroReset = 250
  MaxMpuCalls = 4
  LsmRange = {2, 16}
  LsmMax = 16
  MaxLsmCalls = 4
  MaxLsmFails = 1
  MaxBaroCalls = 4
  MaxBaroFails = 1
CHECK_DEADLOCK FALSE
INVARIANTS
  MpuTypeOK
  DividersMatch
  SampleMatchesDivider
  BytesAreTheirs
  LsmTypeOK
  ScalesMatch
  KeptInBodyFrame
  BaroTypeOK
  UpdateIsWhole
