SPECIFICATION FairSpec
CONSTANTS
  N = 2
  Total = 2
  BlockSize = 1
  BufSize = 2
  MaxResets = 2
  Events = {"net", "disk", "total", "toomany", "pause", "resume"}
  MaxEvents = 2
  MaxQueue = 2
PROPERTIES
  ImplementsTransfer
  DownloadEnds
  FatalErrorIsReported
  PauseWaitsForEndedOnly
