SPECIFICATION Spec
CONSTANTS
  APs = {1, 2, 3}
  Levels <- MCLevels
  LowRssi <- MCLow
  RoamThresh = 3
  MaxProbes = 2
  MaxTimers = 2
  MaxEvents = 2
PROPERTY SwitchIsTested
