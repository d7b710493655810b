SPECIFICATION Spec
CONSTANTS
  Clients   = {a, b}
  Calls     = 2
  MaxWaits  = 2
  Cap       = 3
  Pause     = 1
  Timeout   = 2
  Window    = 3
  PerWindow = 1
INVARIANTS TypeOK RefusedOnlyInACrowd CallBounded
PROPERTIES CallEnds
CHECK_DEADLOCK FALSE
