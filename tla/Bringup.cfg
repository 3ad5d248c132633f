SPECIFICATION Spec
CONSTANTS
  Setups <- AllSetups
  MaxFails = 1
CHECK_DEADLOCK FALSE
INVARIANTS
  TypeOK
  OnePublisher
  OnlyGuiIsMissing
PROPERTIES
  EveryNodeIsFed
  NavigationDrives
