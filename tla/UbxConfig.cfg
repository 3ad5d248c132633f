SPECIFICATION Spec
CONSTANTS
  Models <- MCModels
  Timeouts <- MCTimeouts
  Sats <- MCSats
  stationary = stationary
  airborne = airborne
  t1 = t1
  t2 = t2
  few = few
  None = None
  Refusable = {"dgpsTimeOut"}
  Mask1 = {"usePPP", "sats"}
  MaxCalls = 3
  MaxFaults = 1
INVARIANT TypeOK
PROPERTIES FallsSilent Converges
CHECK_DEADLOCK FALSE
