SPECIFICATION Spec
CONSTANTS
  a = a
  b = b
  im = im
  Names = {a, b}
  Images = {}
  NoName = NoName
  NoFile = NoFile
  NoRequest = NoRequest
  Bytes = {1}
  DataChannels = {0, 1}
  Requests <- CommandRequests
  BufSize = 1
  Blank <- NoBytes
  Block <- ListingBlock
  InitialFiles <- OneByte
  OpenOutcomes = {TRUE}
  MaxFile = 2
  MaxSent = 0
  ClockDelays = {FALSE}
  Resets = FALSE
  StrictHost = TRUE
PROPERTIES OnlyScratchDestroys
