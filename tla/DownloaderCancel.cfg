SPECIFICATION Spec
CONSTANTS
  N = 2
  Total = 4
  BlockSize = 2
  BufSize = 2
  MaxResets = 2
  Events = {"cancel"}
  MaxEvents = 1
  MaxQueue = 2
INVARIANTS
  SuccessMeansDownloaded
