SPECIFICATION FairSpec
CONSTANTS
  Bits = 2
  TickLength = 10
  Reaction <- Computers
  MaxBytes = 2
  PresentWait = 20
 
PROPERTIES  TransferEnds
