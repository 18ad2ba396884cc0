SPECIFICATION FairSpec
CONSTANTS
  a = a
  b = b
  Files = {a, b}
  Unreadable <- None
  NoFile = NoFile
  AutoMount = NoFile
  ToRoot = TRUE
  ResetLimit = 1
  MaxWrites = 0
  HasLCD = TRUE
  Uploads = TRUE
PROPERTIES EmulationEnds SelectionShown
