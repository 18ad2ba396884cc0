SPECIFICATION Spec
CONSTANTS
  ByteMax = 2
  Programs <- Chips
  TimerWrites <- MCTimerWrites
  ModeWrites <- MCModeWrites
  EdgeWrites <- MCEdges
  EnableWrites <- MCEnables
  FlagWrites <- MCFlagWrites
  RegisterReads <- MCReads
  PB6Inputs <- Inputs
  PortWrites <- MCPortWrites
  Moves <- MCMoves
  AfterSteps <- Both
  DriveWrites <- MCDriveWrites
  DriveModes <- MCDriveModes
  DataWrites <- MCDataWrites
  MaxUses = 0
  Places = {9}
  ByteBits = 4
  SyncBits = 5
  UE7Count = 2
  Rotation = 96
  FirstNoise = {36}
  LaterNoise = {5}
  Ejecting = 2
  NoDisk = 1
  Inserting = 1
  HalfTracks = 3
  Home = 2
  Images <- MCImages
  First = "a"
  Content <- MCContent
  ReadOnly <- MCReadOnly
INVARIANTS LineFollowsFlags BusFollowsPort
PROPERTY TimersKeepPromise
