----------------------------- MODULE AnswerSheet -----------------------------
(***************************************************************************)
(* One player's answers over time: SubmitAnswer scores each answer when it *)
(* is processed (internal/match/service.go), and ComputeFinalScore scores  *)
(* the whole sheet again at whatever moment the match is finalised.        *)
(***************************************************************************)
EXTENDS Scoring

CONSTANTS PerQuestionTimeout,  \* ticks allowed per question
          MaxAnswers,          \* bound: number of questions of the match
          MaxTime,             \* bound: ticks of the clock
          MaxDelay             \* bound: ticks between submission and scoring

ASSUME SheetAssumption ==
  /\ {MaxAnswers, MaxTime, MaxDelay} \subseteq Nat
  /\ PerQuestionTimeout \in Nat \ {0}

VARIABLES answers,   \* state.Answers of the player
          earned,    \* sum of the ScoreEarned fields
          now        \* the clock

vars == <<answers, earned, now>>

Answer == [QuestionOrder : 1..MaxAnswers, IsCorrect : BOOLEAN, SubmittedAt : 0..MaxTime]

TypeOK ==
  /\ answers \in Seq(Answer)
  /\ Len(answers) <= MaxAnswers
  /\ earned \in Nat
  /\ now \in 0..MaxTime

Init == answers = <<>> /\ earned = 0 /\ now = 0

Tick == now < MaxTime /\ now' = now + 1 /\ UNCHANGED <<answers, earned>>

\* Mutant: a wrong answer costs the delay.
PointsBelowZero(isCorrect, delay) ==
  IF isCorrect THEN CalculateScore(isCorrect, PerQuestionTimeout - delay, PerQuestionTimeout,
                                   CurrentStreak(answers))
  ELSE 0 - delay

\* ScoreEarned of the answer being submitted.
ScoreEarned(isCorrect, delay) ==
  CalculateScore(isCorrect, TimeRemaining(PerQuestionTimeout, now - delay, now),
                 PerQuestionTimeout, CurrentStreak(answers))

\* SubmitAnswer scores with the streak before this answer and the time since
\* the handler stamped submittedAt, which is the delay of its own Redis calls; an
\* answer stamped later may be scored earlier.  The timeout is the one a GetSummary
\* finds, here and in the finalisation, or 15 seconds where none does.
Submit(isCorrect, delay) ==
  /\ Len(answers) < MaxAnswers
  /\ delay <= now
  /\ answers' = Append(answers, [QuestionOrder |-> Len(answers) + 1,
                                 IsCorrect     |-> isCorrect,
                                 SubmittedAt   |-> now - delay])
  /\ earned' = earned + ScoreEarned(isCorrect, delay)
  /\ UNCHANGED now

Next == Tick \/ \E ok \in BOOLEAN, d \in 0..MaxDelay : Submit(ok, d)

Spec == Init /\ [][Next]_vars

-----------------------------------------------------------------------------

Final == ComputeFinalScore(answers, PerQuestionTimeout, now)

\* The runs of consecutive correct answers, as intervals of the sheet.
CorrectRuns ==
  {r \in {<<i, j>> : i, j \in 1..Len(answers)} :
     r[1] <= r[2] /\ \A k \in r[1]..r[2] : answers[k].IsCorrect}

(***************************************************************************)
(* The counters of ComputeFinalScore's loop mean what they are reported as:*)
(* the streak bonus belongs to the longest run of consecutive correct      *)
(* answers, and the number of correct answers is exact.                    *)
(***************************************************************************)
LoopMatchesRuns ==
  /\ Final.correctCount = Cardinality({i \in 1..Len(answers) : answers[i].IsCorrect})
  /\ Final.streakBonusPct = StreakPercent(Max({0} \cup {r[2] - r[1] + 1 : r \in CorrectRuns}))

(***************************************************************************)
(* The two places that score an answer never drift apart by more than the  *)
(* code explains: the final total exceeds the points earned on submission  *)
(* by at most one streak step per correct answer (ComputeFinalScore counts *)
(* the answer itself in its streak, SubmitAnswer does not), and loses at   *)
(* most the time bonuses.                                                  *)
(***************************************************************************)
FinalTracksEarned ==
  /\ Final.totalScore <= earned + Final.correctCount * ((BaseScore * StreakBonusPercent) \div 100)
  /\ Final.totalScore >= earned - Final.correctCount * MaxTimeBonus

(***************************************************************************)
(* The score a player gets depends on when FinalizeMatch runs, since the   *)
(* engine takes the age an answer has by then for the time it took         *)
(* (engine.go:126).  That can only cost time bonuses: with no answer in    *)
(* between, a later or repeated finalisation never pays more.              *)
(***************************************************************************)
WaitingOnlyCosts == [][answers' = answers => Final'.totalScore <= Final.totalScore]_vars
=============================================================================
