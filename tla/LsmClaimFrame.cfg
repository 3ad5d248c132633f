SPECIFICATION LsmSpec
CONSTANTS
  LsmRange = {2, 16}
  LsmMax = 16
  MaxLsmCalls = 4
  MaxLsmFails = 0
CHECK_DEADLOCK FALSE
INVARIANT ReturnedInBodyFrame
