SPECIFICATION RequestsSpec
CONSTANTS
  Tracks = 1
  SectorsPerTrack = 1
  SectorBytes = 1
  LinkTimeout = 0
  WireBytes = {0, 1, 2, 3, 7, 8, 9, 16, 17, 18, 90, 165}
  Repertoire <- AllRequests
  MaxRequests = 2
  InitialImage <- BlankImage
  MountOutcomes = {0}
INVARIANTS
  TypeOK
  HeldByte
PROPERTIES
  CommitIsVerified
  StoresOnlyWholeFrames
CHECK_DEADLOCK FALSE
