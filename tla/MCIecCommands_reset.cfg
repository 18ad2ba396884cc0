SPECIFICATION FairSpec
CONSTANTS
  a = a
  b = b
  im = im
  Names = {b, im}
  Images = {im}
  NoName = NoName
  NoFile = NoFile
  NoRequest = NoRequest
  Bytes = {1}
  DataChannels = {0}
  Requests <- ResetRequests
  BufSize = 2
  Blank <- NoBytes
  Block <- ListingBlock
  InitialFiles <- EmptyFolder
  OpenOutcomes = {TRUE, FALSE}
  MaxFile = 2
  MaxSent = 0
  ClockDelays = {TRUE, FALSE}
  Resets = TRUE
  StrictHost = FALSE
PROPERTIES ClosingKeepsBytes AttentionAnswered
