SPECIFICATION FairSpec
CONSTANTS
  Channel = {0, 1}
  Group = {0}
  GroupOf <- OneGroup
  ControlPins = {0}
  ZeroedChannels = {0}
  AdvTimer = TRUE
  Freq = {50, 400}
  InitFreq = 50
  GpioCaller = {g}
  ZeroSkip = 1
  ArmTicks = 1
  GpioPins = {1}
  Ignorable = {0}
  MaxOps = 4
  MaxForces = 2
  MaxFails = 1
PROPERTIES
  Settles
  WindowEnds
