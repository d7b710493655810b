\* One generation; the instance that serves the stream also runs the job, and dies.
SPECIFICATION FairStreamSpec
CONSTANTS
  Gens = {g1}
  Instances = {i1}
  None = None
  PipelineEvents = 1
  StaleAfter = 1
  MaxRun = 1
  RestartAfter = 2
  MaxCrashes = 1
  MaxErrors = 0
  TicketTTL = 2
  MaxDrops = 2
INVARIANTS StreamTypeOK ShownOnceInOrder
PROPERTIES ViewerIsTold
CHECK_DEADLOCK FALSE
