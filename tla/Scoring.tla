------------------------------- MODULE Scoring -------------------------------
(***************************************************************************)
(* The scoring engine (internal/match/scoring/engine.go).                  *)
(*                                                                         *)
(* Time is counted in ticks.  int(...) of the code's float64 products      *)
(* agrees with integer division for every streak under the default 5%, and *)
(* under the 20% of the small runs.                                        *)
(* An answer is [QuestionOrder, IsCorrect, SubmittedAt]; the text of the   *)
(* answer, its token and the ScoreEarned copy play no part in a score.     *)
(***************************************************************************)
EXTENDS Integers, Sequences, FiniteSetsExt

CONSTANTS BaseScore,           \* points of a correct answer (100)
          MaxTimeBonus,        \* bonus of an instant answer (50)
          StreakBonusPercent,  \* percent of BaseScore per streak step (5)
          MaxStreakBonus       \* cap of the streak percentage (50)

ASSUME ScoringAssumption ==
  {BaseScore, MaxTimeBonus, StreakBonusPercent, MaxStreakBonus} \subseteq Nat

-----------------------------------------------------------------------------

\* timeRatio is clamped to 0..1, and no bonus is paid without a timeout.
TimeBonus(timeRemaining, perQuestionTimeout) ==
  IF perQuestionTimeout > 0
    THEN (MaxTimeBonus * Max({0, Min({timeRemaining, perQuestionTimeout})}))
           \div perQuestionTimeout
    ELSE 0

StreakPercent(streak) == Min({streak * StreakBonusPercent, MaxStreakBonus})

CalculateScore(isCorrect, timeRemaining, perQuestionTimeout, currentStreak) ==
  IF isCorrect
    THEN BaseScore + TimeBonus(timeRemaining, perQuestionTimeout)
                   + (BaseScore * StreakPercent(currentStreak)) \div 100
    ELSE 0

\* Mutant: the time used in place of the time left.
TimeUsed(perQuestionTimeout, submittedAt, now) == Min({perQuestionTimeout, now - submittedAt})

\* The time left of a question answered at submittedAt, seen at time now.
TimeRemaining(perQuestionTimeout, submittedAt, now) ==
  Max({0, perQuestionTimeout - (now - submittedAt)})

\* SubmitAnswer's streak: walk back from the last answer to the first wrong one.
CurrentStreak(answers) ==
  LET back[i \in 0..Len(answers)] ==
        IF i > 0 /\ answers[i].IsCorrect THEN 1 + back[i - 1] ELSE 0
  IN  back[Len(answers)]

\* Mutant: a wrong answer does not reset the running streak.
NextStreakNoReset(streak, isCorrect) == IF isCorrect THEN streak + 1 ELSE streak

\* The running streak after one more answer.
NextStreak(streak, isCorrect) == IF isCorrect THEN streak + 1 ELSE 0

\* Mutant: the inner loop of ComputeFinalScore runs past wrong answers.
StreakAtAnswerUnbroken(answers, i) ==
  Cardinality({j \in 1..i : answers[j].IsCorrect})

\* The streak ComputeFinalScore gives to answer i: the run before it, and one
\* more when it is correct itself.
StreakAtAnswer(answers, i) ==
  NextStreak(CurrentStreak(SubSeq(answers, 1, i - 1)), answers[i].IsCorrect)

\* The loop of ComputeFinalScore after i answers.
FinalLoop(answers, perQuestionTimeout, now) ==
  LET loop[i \in 0..Len(answers)] ==
        IF i = 0
          THEN [correctCount |-> 0, currentStreak |-> 0, maxStreak |-> 0, totalScore |-> 0]
          ELSE LET ans == answers[i]
                   streak == NextStreak(loop[i - 1].currentStreak, ans.IsCorrect)
                   remaining == TimeRemaining(perQuestionTimeout, ans.SubmittedAt, now)
               IN [correctCount  |-> loop[i - 1].correctCount + (IF ans.IsCorrect THEN 1 ELSE 0),
                   currentStreak |-> streak,
                   maxStreak     |-> Max({loop[i - 1].maxStreak, streak}),
                   totalScore    |-> loop[i - 1].totalScore
                                       + CalculateScore(ans.IsCorrect, remaining,
                                           perQuestionTimeout, StreakAtAnswer(answers, i))]
  IN  loop[Len(answers)]

\* Accuracy is correctCount over Len(answers); the fraction is kept as its
\* numerator.
ComputeFinalScore(answers, perQuestionTimeout, now) ==
  LET final == FinalLoop(answers, perQuestionTimeout, now)
  IN  [totalScore     |-> final.totalScore,
       correctCount   |-> final.correctCount,
       streakBonusPct |-> StreakPercent(final.maxStreak)]
=============================================================================
