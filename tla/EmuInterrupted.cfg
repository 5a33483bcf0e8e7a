SPECIFICATION EmuSpec
CONSTANTS
  Tracks = 1
  SectorsPerTrack = 1
  SectorBytes = 1
  InitialImage <- BlankImage
  WireBytes = {0, 90, 165}
PROPERTIES
  ReplyIsAnnounced
CHECK_DEADLOCK FALSE
