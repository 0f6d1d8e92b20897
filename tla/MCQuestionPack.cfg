SPECIFICATION Spec
CONSTANTS
  Users = {u1, u2, u3}
  Calls = {c1, c2}
  Curated = {q1, q2, q3}
  Generated = {g1, g2, g3}
  Counts <- MCCounts
  TotalQuestions = 3
  MaxBatch = 2
  AllowedRepeats = 1
  MayErr = TRUE
INVARIANTS TypeOK RepeatsBounded RebuiltPackIsFresh
SYMMETRY Symm
CHECK_DEADLOCK FALSE
