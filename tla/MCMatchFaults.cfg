SPECIFICATION Spec
CONSTANTS
  BaseScore = 100
  MaxTimeBonus = 50
  StreakBonusPercent = 5
  MaxStreakBonus = 50
  Players = {p1, p2}
  Guests = {}
  QuestionCount = 2
  TokenOf <- MCTokenOf
  BadToken <- MCBadToken
  Mode = "random_1v1"
  RowFound = FALSE
  PerQuestionTimeout = 1
  MaxTime = 0
  Verdicts = {TRUE}
  Calls = {c1, c2, c3}
  MayExpire = TRUE
  MayCrash = TRUE
  MayErr = TRUE
  NoCall = NoCall
  NoState = NoState
  NoReq = NoReq
  NotFinal = NotFinal
INVARIANTS TypeOK AnsweredOnce LockNotStolen AckedAnswersKept FinalIsComplete
PROPERTIES FinalAnswersFrozen
SYMMETRY Symm
CHECK_DEADLOCK FALSE
