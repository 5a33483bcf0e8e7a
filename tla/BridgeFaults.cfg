SPECIFICATION BridgeSpec
CONSTANTS
  Tracks = 2
  SectorsPerTrack = 1
  SectorBytes = 2
  LinkTimeout = 1
  WireBytes <- Byte
  SettleLimit = 3
  WaitLimit = 4
  OfferedCalls <- FaultCalls
  MaxCalls = 3
  InitialImage <- BlankImage
  MountOutcomes = {0}
  MountLimit = 2
  CallLimit = 2
  Faults = {"avrReset", "hostReset", "storageError", "stall", "missedEdge"}
  MaxFaults = 1
INVARIANTS
  ResynchronisesByRetry
PROPERTIES
  ImplementsFirmware
  ImplementsVolume
  FaultedStorageNeverSucceeds
CHECK_DEADLOCK FALSE
