SPECIFICATION Spec
CONSTANTS
  SectorLength = 16
  SyncLength = 2
  HeaderGap = 1
  TailGap = 1
  EndGap = 1
  LastTrack = 3
  DirTrack = 2
  SectorsOf <- MCSectorsOf
  DirSectors = 2
  Strip = 1
  DiskID <- MCID
  InitialCards <- MCCards
  Data <- MCData
  Jitters = {3}
  Starts = {0, 77}
  MaxWrites = 2
INVARIANTS SectorsHoldWhatWasWritten FilesAreOnDisk
