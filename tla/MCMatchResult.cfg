SPECIFICATION FairSpec
CONSTANTS
  BaseScore = 100
  MaxTimeBonus = 50
  StreakBonusPercent = 5
  MaxStreakBonus = 50
  Players = {p1, p2}
  Guests = {}
  QuestionCount = 1
  TokenOf <- MCTokenOf
  BadToken <- MCBadToken
  Mode = "random_1v1"
  RowFound = TRUE
  PerQuestionTimeout = 1
  MaxTime = 1
  Verdicts = {TRUE, FALSE}
  Calls = {c1, c2, c3}
  MayExpire = FALSE
  MayCrash = TRUE
  MayErr = FALSE
  NoCall = NoCall
  NoState = NoState
  NoReq = NoReq
  NotFinal = NotFinal
INVARIANTS CompletedMeansFinal ResultsMatchStates
PROPERTIES LockAlwaysFreed
CHECK_DEADLOCK FALSE
