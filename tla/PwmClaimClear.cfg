SPECIFICATION Spec
CONSTANTS
  Channel = {0, 1}
  Group = {0}
  GroupOf <- OneGroup
  ControlPins = {0}
  ZeroedChannels = {0}
  AdvTimer = TRUE
  Freq = {50, 400}
  InitFreq = 50
  GpioCaller = {}
  ZeroSkip = 2
  ArmTicks = 1
  GpioPins = {}
  Ignorable = {}
  MaxOps = 5
  MaxForces = 0
  MaxFails = 0
PROPERTIES
  ClearedBeforeUpdate
