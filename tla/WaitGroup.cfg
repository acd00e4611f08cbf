CONSTANTS
  Tasks = {t1, t2, t3, t4}
  Parallel = 3
SPECIFICATION FairSpec
INVARIANTS TypeOK TokensAreHeld
PROPERTIES ImplementsTaskGroup CallsReturn
