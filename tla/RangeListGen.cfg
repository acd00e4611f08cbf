SPECIFICATION Spec
CONSTANTS
  MaxTotal = 7
  MaxParallel = 4
  BlockSizes <- MCBlockSizes
  DefaultBlockSize = 3
INVARIANTS
  TypeOK
  IssuedIsPrefix
  IssuedDisjoint
  IssuedNonEmpty
  CountIsExact
