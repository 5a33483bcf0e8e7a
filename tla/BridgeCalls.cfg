SPECIFICATION FairBridgeSpec
CONSTANTS
  Tracks = 2
  SectorsPerTrack = 2
  SectorBytes = 2
  LinkTimeout = 1
  WireBytes <- NoBytes
  SettleLimit = 3
  WaitLimit = 4
  OfferedCalls <- PlainCalls
  MaxCalls = 2
  InitialImage <- BlankImage
  MountOutcomes = {0, 1}
  MountLimit = 2
  CallLimit = 2
  Faults = {"avrReset", "hostReset", "storageError", "stall", "missedEdge"}
  MaxFaults = 1
INVARIANTS
  CallsAreExact
PROPERTIES
  AckedMeansTaken
  NoRecoveryInTransfer
  CallReturns
  LinkGoesIdle
CHECK_DEADLOCK FALSE
