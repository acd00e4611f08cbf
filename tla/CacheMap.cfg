CONSTANTS
  Callers = {a, b, c}
  MaxChanges = 2
SPECIFICATION Spec
SYMMETRY CallersAlike
INVARIANTS TypeOK StaleOnlyByOverlap
