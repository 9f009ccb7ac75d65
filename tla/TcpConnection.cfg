SPECIFICATION FairSpec
CONSTANTS
  RetxThresh = 2
  SynRetries = 2
  DataRetries = 1
  DelAckMax = 2
  InitialCwnd = 2
  Data = 3
  Windows <- MCWindows
  SinkFirst = FALSE
  Faults <- AllFaults
  MaxFaults = 2
INVARIANTS AssertionsHold AckedIsReceived
PROPERTIES IsByteStream Released Delivered
CHECK_DEADLOCK FALSE
