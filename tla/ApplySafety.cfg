SPECIFICATION Spec
CONSTANTS
  Documents <- MCDocuments
  NewTexts  <- MCTexts
  Claims    = {"tech"}
  MaxEdits  = 2
INVARIANTS SpansNested OrdersComplete EveryLexemeAccounted FlatRendering StructureKept ResultAccounted
CHECK_DEADLOCK FALSE
PROPERTIES ImplementsIntent
