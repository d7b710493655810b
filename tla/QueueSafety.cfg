\* No run outlives its lock; instances die, restart at once, and transactions fail.
SPECIFICATION Spec
CONSTANTS
  Gens = {g1, g2}
  Instances = {i1, i2}
  None = None
  PipelineEvents = 1
  StaleAfter = 1
  MaxRun = 1
  RestartAfter = 0
  MaxCrashes = 1
  MaxErrors = 1
SYMMETRY Symmetry
INVARIANTS TypeOK SingleRunner LogIsNumbered JobVerdict CommitsInOrder AttemptsAccounted
PROPERTIES ImplementsDispatch
CHECK_DEADLOCK FALSE
