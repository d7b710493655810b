\* The platform restarts a dead instance at once.
SPECIFICATION FairSpec
CONSTANTS
  Gens = {g1}
  Instances = {i1}
  None = None
  PipelineEvents = 1
  StaleAfter = 1
  MaxRun = 1
  RestartAfter = 0
  MaxCrashes = 1
  MaxErrors = 0
PROPERTIES EveryJobDecided
CHECK_DEADLOCK FALSE
