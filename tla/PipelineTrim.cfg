\* One bullet that was rewritten, or moved, before the trim.
SPECIFICATION FairSpec
CONSTANTS
  Bullets = {b1}
  Texts = {t1}
  Original = Original
  Dropped = Dropped
  MaxPages = 2
  MaxGapFillRounds = 2
  MaxCompileAttempts = 3
  MaxTrimRounds = 3
  RecursionLimit = 60
  RouterWritesKept = FALSE
PROPERTIES TrimShortensTailored
CHECK_DEADLOCK FALSE
