\* The default settings.
SPECIFICATION FairSpec
CONSTANTS
  Bullets = {b1, b2}
  Texts = {t1}
  Original = Original
  Dropped = Dropped
  MaxPages = 2
  MaxGapFillRounds = 2
  MaxCompileAttempts = 3
  MaxTrimRounds = 3
  RecursionLimit = 60
  RouterWritesKept = FALSE
INVARIANTS TypeOK NoRecursionError AttemptsBounded PdfIsOfDelivered RoundsAreSpent
PROPERTIES Termination
CHECK_DEADLOCK FALSE
