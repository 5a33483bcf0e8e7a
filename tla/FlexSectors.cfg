SPECIFICATION FairFmsSpec
CONSTANTS
  Tracks = 1
  SectorsPerTrack = 3
  SectorBytes = 2
  InitialImage <- BlankVolume
  SramTracks = 2
  SramSectors = 2
  Sram0 = 1
  Sram1 = 2
  SdDrive = 0
  OtherDrives = {3}
  InitialSram <- BlankSram
  OfferedRequests <- DriverRequests
  Garbage <- Spoilt
  MaxTries = 2
  MaxRestores = 2
  MaxSectors = 2
  SectorRequests <- Sectors
INVARIANTS
  SelectionIsChosen
  TransfersGoToTheFcbsDrive
  SectorsAreExact
PROPERTIES
  SramChangesOnlyByWrite
  SectorReturns
CHECK_DEADLOCK FALSE
