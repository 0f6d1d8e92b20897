SPECIFICATION Spec
CONSTANTS
  BaseScore = 100
  MaxTimeBonus = 50
  StreakBonusPercent = 5
  MaxStreakBonus = 50
  Players = {p1, p2}
  Guests = {}
  QuestionCount = 1
  TokenOf <- MCTokenOf
  BadToken <- MCBadToken
  Mode = "random_1v1"
  RowFound = FALSE
  PerQuestionTimeout = 1
  MaxTime = 1
  Verdicts = {TRUE, FALSE}
  Calls = {c1, c2}
  MayExpire = FALSE
  MayCrash = FALSE
  MayErr = FALSE
  NoCall = NoCall
  NoState = NoState
  NoReq = NoReq
  NotFinal = NotFinal
INVARIANT PayloadHasFinalScores
CHECK_DEADLOCK FALSE
