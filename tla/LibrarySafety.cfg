SPECIFICATION Spec
CONSTANTS
  Users       = {u1, u2}
  Resumes     = {r1}
  Generations = {g1, g2}
  Requests    = {q1, q2}
  Names       = {blank, acme}
  Blank       = blank
  Skills      = {kafka}
  MaxRuns     = 2
  MaxRoadmaps = 1
INVARIANTS TypeOK VersionsIncrease PdfIsOfSource 
SYMMETRY Symmetry
CHECK_DEADLOCK FALSE
