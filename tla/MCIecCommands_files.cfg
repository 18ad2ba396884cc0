SPECIFICATION Spec
CONSTANTS
  a = a
  b = b
  im = im
  Names = {a}
  Images = {}
  NoName = NoName
  NoFile = NoFile
  NoRequest = NoRequest
  Bytes = {1}
  DataChannels = {0}
  Requests <- FileRequests
  BufSize = 2
  Blank <- NoBytes
  Block <- ListingBlock
  InitialFiles <- ThreeBytes
  OpenOutcomes = {TRUE, FALSE}
  MaxFile = 3
  MaxSent = 1
  ClockDelays = {FALSE}
  Resets = FALSE
  StrictHost = TRUE
INVARIANTS TypeOK NothingLost  
PROPERTIES KeepsPromise
