SPECIFICATION Spec
CONSTANTS
  N = 2
  Total = 3
  BlockSize = 1
  BufSize = 1
  MaxResets = 2
  Events = {}
  MaxEvents = 0
  MaxQueue = 2
INVARIANTS
  CompletedMeansDone
