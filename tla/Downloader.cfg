SPECIFICATION Spec
CONSTANTS
  N = 2
  Total = 3
  BlockSize = 1
  BufSize = 1
  MaxResets = 1
  Events = {"net", "restart", "cancel"}
  MaxEvents = 2
  MaxQueue = 2
INVARIANTS
  TypeOK
  NoByteLost
  ResumeIsSafe
  RangesDisjoint
  NoWorkerForgotten
PROPERTIES
  RangeIsStable
