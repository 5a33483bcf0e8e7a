SPECIFICATION BridgeSpec
CONSTANTS
  Tracks = 2
  SectorsPerTrack = 1
  SectorBytes = 2
  LinkTimeout = 1
  WireBytes <- NoBytes
  SettleLimit = 3
  WaitLimit = 4
  OfferedCalls <- WriteCalls
  MaxCalls = 1
  InitialImage <- BlankImage
  MountOutcomes = {0}
  MountLimit = 9
  CallLimit = 2
  Faults <- NoFaults
  MaxFaults = 0
PROPERTIES
  AckedMeansTaken
CHECK_DEADLOCK FALSE
