SPECIFICATION Spec
CONSTANTS
  Devices <- CardAndUsb
  Folders <- Paths
  Home = 22
  FirstFiles <- Files0
  Unreadable = {15}
  AutoSwap = 10
  AutoNames <- NewNames
  AutoMount = 11
  Saved = {11}
  Rows <- TheRows
  BufferSize = 3
  ToRoot = TRUE
  Keys <- AllKeys
  Typing = {1}
  Elsewhere = FALSE
  MaxChanges = 1
INVARIANTS TypeOK ScreenShowsList NumbersMatch CaddyFromList
