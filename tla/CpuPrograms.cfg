SPECIFICATION CpuSpec
CONSTANTS
  Cells <- ProgramCells
  Tasks <- AllTasks
INVARIANTS
  BranchesDecideRelations
  ProgramsCompute
  InterruptsRestore
PROPERTIES
  ProgramsEnd
CHECK_DEADLOCK FALSE
