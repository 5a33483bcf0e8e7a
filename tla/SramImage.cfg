SPECIFICATION MachineSpec
CONSTANTS
  RamSize = 1
  PageSize = 2
  Pages = 2
  IoSize = 4
  RomSize = 1
  Data = {0, 1}
  Binaries <- SmallBinaries
INVARIANTS
  StoresAreLocal
  ImageIsOldOrNew
PROPERTIES
  SramSurvives
