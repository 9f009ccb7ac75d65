SPECIFICATION Spec
CONSTANTS
  Scale = 120
  Never = 9999
  RetxThresh = 3
  HighGain = 289
  BwWindow = 4
  RttWindow = 20
  ProbeRttDuration = 8
  ExtraAckedWindow = 5
  EpochMax = 3
  MinPipeCwnd = 4
  InitialCwnd = 5
  Wrap = 1024
  Data = 62
  Service = 2
  Rtt = 8
  Lucks = {0, 3}
  Fragile = {4, 16, 32, 62}
  MaxLosses = 1
INVARIANTS DeliveredOnce ModeFitsPipe
PROPERTIES RoundTakesRtt WindowComesBack
CHECK_DEADLOCK FALSE
