\* Runs outlive their locks, so two instances may run one generation at once; the
\* platform restarts a dead instance only after its locks went stale.
SPECIFICATION FairSpec
CONSTANTS
  Gens = {g1}
  Instances = {i1, i2}
  None = None
  PipelineEvents = 1
  StaleAfter = 1
  MaxRun = 2
  RestartAfter = 2
  MaxCrashes = 1
  MaxErrors = 0
INVARIANTS OneResultPerClaim VerdictIsEarned
PROPERTIES EveryJobDecided
CHECK_DEADLOCK FALSE
