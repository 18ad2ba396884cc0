SPECIFICATION Spec
CONSTANTS
  a = a
  b = b
  Files = {a, b}
  Unreadable <- AwayB
  NoFile = NoFile
  AutoMount = a
  ToRoot = FALSE
  ResetLimit = 1
  MaxWrites = 2
  HasLCD = FALSE
  Uploads = FALSE
INVARIANTS TypeOK DriveMatchesCaddy WritesReachCard
