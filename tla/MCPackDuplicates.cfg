SPECIFICATION Spec
CONSTANTS
  Users = {u1, u2}
  Calls = {c1}
  Curated = {q1, q2, q3}
  Generated = {g1, g2}
  Counts <- MCCounts
  TotalQuestions = 3
  MaxBatch = 2
  AllowedRepeats = 1
  MayErr = FALSE
INVARIANTS NoDuplicatesInPack
CHECK_DEADLOCK FALSE
