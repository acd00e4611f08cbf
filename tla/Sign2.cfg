SPECIFICATION Spec
CONSTANTS
  Keys <- MCKeys
  Texts <- MCTexts
  MaxUnit = 511
  BitXor <- MCXor
INVARIANTS
  TypeOK
  Shuffled
  EncodesCipher
  MatchesStandard
\* A computation: it stops when the signature is complete.
CHECK_DEADLOCK FALSE
