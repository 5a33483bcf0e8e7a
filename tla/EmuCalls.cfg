SPECIFICATION EmuBridgeSpec
CONSTANTS
  Tracks = 2
  SectorsPerTrack = 2
  SectorBytes = 2
  WireBytes <- NoBytes
  SettleLimit = 3
  WaitLimit = 4
  OfferedCalls <- EmuCalls
  MaxCalls = 4
  MaxFailures = 1
  InitialImage <- BlankImage
INVARIANTS
  EmuCallsAreExact
PROPERTIES
  EmuNeverTimesOut
  ImplementsVolume
  FileChangesOnlyByWrite
CHECK_DEADLOCK FALSE
