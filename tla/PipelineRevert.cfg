\* A router whose assignments to the state are lost.
SPECIFICATION Spec
CONSTANTS
  Bullets = {b1}
  Texts = {t1}
  Original = Original
  Dropped = Dropped
  MaxPages = 2
  MaxGapFillRounds = 2
  MaxCompileAttempts = 3
  MaxTrimRounds = 3
  RecursionLimit = 60
  RouterWritesKept = FALSE
INVARIANTS RevertedIsOriginal
CHECK_DEADLOCK FALSE
