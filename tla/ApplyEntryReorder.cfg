SPECIFICATION Spec
CONSTANTS
  Documents <- JakeDocuments
  NewTexts  <- MCTexts
  Claims    = {"tech"}
  MaxEdits  = 2
INVARIANTS ReorderCompiles
CHECK_DEADLOCK FALSE
