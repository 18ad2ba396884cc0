SPECIFICATION BoardSpec
CONSTANTS
  ImageCount = 2
  ReadOnly = {2}
  LastTrack = 1
  LastSector = 2
  SectorLength = 2
  Revolutions = 1
  DataOf <- Data2
  Commands <- AllCommands
  Given = {1, 2}
  MaxCommands = 2
  ByteMax = 1
  Bits = 2
  MotorDelay = 3
  TimerWrites <- MCTimerWrites
  ControlA <- MCControlA
  ControlB <- MCControlB
  MaskWrites <- MCMasks
INVARIANTS ReadsWhatIsThere WritesWhatIsGiven FoundIfThere InterruptFollowsFlags
PROPERTIES OnlyTheSector CommandEnds TimersKeepPromise
CHECK_DEADLOCK FALSE
