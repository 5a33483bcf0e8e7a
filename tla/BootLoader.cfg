SPECIFICATION BootSpec
CONSTANTS
  BootTracks = 12
  BootSectors = 2
  SectorData = 3
  RecordMax = 2
  Files <- SmallFiles
  Chains <- BrokenChains
INVARIANTS
  LoadsWhatWasPacked
PROPERTIES
  PackedFileBoots
  BrokenChainStops
CHECK_DEADLOCK FALSE
