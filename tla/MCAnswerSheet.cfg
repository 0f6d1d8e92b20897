SPECIFICATION Spec
CONSTANTS
  BaseScore = 100
  MaxTimeBonus = 50
  StreakBonusPercent = 20
  MaxStreakBonus = 50
  PerQuestionTimeout = 2
  MaxAnswers = 4
  MaxTime = 3
  MaxDelay = 1
INVARIANTS TypeOK LoopMatchesRuns FinalTracksEarned
PROPERTIES WaitingOnlyCosts
CHECK_DEADLOCK FALSE
