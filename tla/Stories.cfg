SPECIFICATION StoriesSpec
CONSTANTS
  Names <- MCNames
  Source <- MCSource
  Expected <- MCExpected
  Refused <- MCRefused
  Stops <- MCEnds
  Keys <- MCKeys
  Faults <- MCFaults
  Numerals <- MCNumerals
  Quoted <- MCQuoted
  Primed <- MCPrimed
  Hashed <- MCHashed
  Escapes <- MCEscapes
  RamBudget = 20000
  Columns <- LineWidth
  ArenaBytes = 256
  StepLimit = 1500
  BeginPass <- MCBeginPass
  PassStep <- MCPassStep
  LoadStory <- MCLoadStory
  Waits <- MCWaits
  RunInstruction <- MCRunInstruction
INVARIANTS
  ProgramsRunAsWritten
  LinesFit
  StoryIsSound
  RefusesWhatItMust
CHECK_DEADLOCK FALSE
