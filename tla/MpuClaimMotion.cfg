SPECIFICATION MpuSpec
CONSTANTS
  AccRange = {4, 16}
  GyroRange = {250, 2000}
  AccMax = 16
  GyroMax = 2000
  AccInit = 4
  AccReset = 4
  GyroReset = 250
  MaxMpuCalls = 4
CHECK_DEADLOCK FALSE
INVARIANT MotionIsMeasured
