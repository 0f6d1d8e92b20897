-------------------------- MODULE AnswerSheetProofs --------------------------
(***************************************************************************)
(* Proofs about module AnswerSheet, for every scoring configuration, number*)
(* of questions and delay: what the loops of the scoring engine compute,   *)
(* how far the score of a finished match is from the points paid on the    *)
(* way, and that finalising it later never pays more.                      *)
(***************************************************************************)
EXTENDS AnswerSheet, FiniteSetTheorems, WellFoundedInduction, TLAPS

-----------------------------------------------------------------------------
(* Induction *)

\* A set of naturals that is not empty has a smallest member.
LEMMA SmallestIn ==
  ASSUME NEW T \in SUBSET Nat, T # {}
  PROVE  \E x \in T : \A y \in T : x <= y
<1>1. IsWellFoundedOn(OpToRel(<, Nat), Nat)
  BY NatLessThanWellFounded
<1>2. PICK x \in T : \A y \in T : ~ (<<y, x>> \in OpToRel(<, Nat))
  BY <1>1, WFMin
<1>3. \A y \in T : ~ (y < x)
  BY <1>2 DEF OpToRel
<1> QED
  BY <1>3

\* A set that holds zero and is closed under successor holds every natural.
LEMMA Induct ==
  ASSUME NEW S, 0 \in S, \A n \in Nat : n \in S => n + 1 \in S
  PROVE  Nat \subseteq S
<1>1. SUFFICES ASSUME Nat \ S # {} PROVE FALSE
  OBVIOUS
<1>2. PICK x \in Nat \ S : \A y \in Nat \ S : x <= y
  BY <1>1, SmallestIn
<1>3. x # 0 /\ x - 1 \in Nat
  BY <1>2
<1>4. x - 1 \in S
  BY <1>2, <1>3
<1>5. (x - 1) + 1 \in S
  BY <1>3, <1>4
<1> QED
  BY <1>2, <1>5

\* A loop of n rounds that starts with c and goes from one value of A to the
\* next has a value after every round.
Loop(A, c, step, n) ==
  {f \in [0..n -> A] : f[0] = c /\ \A i \in 1..n : f[i] = step[<<f[i - 1], i>>]}

LEMMA LoopExists ==
  ASSUME NEW A, NEW c \in A, NEW n \in Nat, NEW step \in [A \X (1..n) -> A]
  PROVE  \E f : f \in Loop(A, c, step, n)
<1> DEFINE S == {k \in Nat : k <= n => \E f : f \in Loop(A, c, step, k)}
<1>1. 0 \in S
  <2>1. [i \in 0..0 |-> c] \in Loop(A, c, step, 0)
    BY DEF Loop
  <2> QED
    BY <2>1
<1>2. ASSUME NEW k \in Nat, k \in S PROVE k + 1 \in S
  <2>1. SUFFICES ASSUME k + 1 <= n PROVE \E f : f \in Loop(A, c, step, k + 1)
    BY DEF S
  <2>2. PICK f : f \in Loop(A, c, step, k)
    BY <1>2, <2>1
  <2>3. /\ f \in [0..k -> A] /\ f[0] = c
        /\ \A i \in 1..k : f[i] = step[<<f[i - 1], i>>]
    BY <2>2 DEF Loop
  <2>4. PICK v \in A : v = step[<<f[k], k + 1>>]
    <3>1. f[k] \in A /\ k + 1 \in 1..n
      BY <2>1, <2>3
    <3> QED
      BY <3>1
  <2>5. PICK g : g = [i \in 0..(k + 1) |-> IF i = k + 1 THEN v ELSE f[i]]
    OBVIOUS
  <2>6. g \in [0..(k + 1) -> A]
    BY <2>3, <2>5
  <2>7. g[k + 1] = v /\ \A i \in 0..k : g[i] = f[i]
    BY <2>5
  <2>8. \A i \in 1..(k + 1) : g[i] = step[<<g[i - 1], i>>]
    <3> SUFFICES ASSUME NEW i \in 1..(k + 1) PROVE g[i] = step[<<g[i - 1], i>>]
      OBVIOUS
    <3>1. CASE i = k + 1
      <4>1. i - 1 = k /\ k \in 0..k
        BY <3>1
      <4> QED
        BY <2>4, <2>7, <3>1, <4>1
    <3>2. CASE i # k + 1
      <4>1. i \in 1..k /\ i - 1 \in 0..k /\ i \in 0..k
        BY <3>2
      <4> QED
        BY <2>3, <2>7, <4>1
    <3> QED
      BY <3>1, <3>2
  <2>9. g[0] = c
    BY <2>3, <2>7
  <2> QED
    BY <2>6, <2>8, <2>9 DEF Loop
<1> HIDE DEF S
<1>3. Nat \subseteq S
  BY <1>1, <1>2, Induct
<1> QED
  BY <1>3 DEF S

\* A value that starts with c and takes the steps of the loop as long as it is
\* in A.  Nothing else is known of f: it is what CHOOSE picks for the recursion.
Follows(f, A, c, step, n) ==
  f[0] = c /\ \A i \in 1..n : f[i - 1] \in A => f[i] = step[<<f[i - 1], i>>]

\* It ends where the loop ends.
LEMMA LoopUnique ==
  ASSUME NEW A, NEW c, NEW n \in Nat, NEW step, NEW f, NEW g \in Loop(A, c, step, n),
         Follows(f, A, c, step, n)
  PROVE  f[n] = g[n]
<1> DEFINE S == {k \in Nat : k <= n => f[k] = g[k]}
<1>1. /\ g \in [0..n -> A] /\ g[0] = c
      /\ \A i \in 1..n : g[i] = step[<<g[i - 1], i>>]
  BY DEF Loop
<1>2. f[0] = c /\ \A i \in 1..n : f[i - 1] \in A => f[i] = step[<<f[i - 1], i>>]
  BY DEF Follows
<1>3. 0 \in S
  BY <1>1, <1>2
<1>4. ASSUME NEW k \in Nat, k \in S PROVE k + 1 \in S
  <2>1. SUFFICES ASSUME k + 1 <= n PROVE f[k + 1] = g[k + 1]
    OBVIOUS
  <2>2. f[k] = g[k] /\ g[k] \in A /\ k + 1 \in 1..n /\ (k + 1) - 1 = k
    BY <1>1, <1>4, <2>1
  <2>3. g[k + 1] = step[<<g[k], k + 1>>]
    BY <1>1, <2>2
  <2>4. f[k + 1] = step[<<f[k], k + 1>>]
    BY <1>2, <2>2
  <2> QED
    BY <2>2, <2>3, <2>4
<1> HIDE DEF S
<1>5. Nat \subseteq S
  BY <1>3, <1>4, Induct
<1> QED
  BY <1>5 DEF S

-----------------------------------------------------------------------------
(* Arithmetic *)

LEMMA ProductGrows ==
  ASSUME NEW m \in Nat, NEW a \in Nat, NEW b \in Nat, a <= b
  PROVE  m * a <= m * b /\ m * a \in Nat
  OBVIOUS

LEMMA QuotientGrows ==
  ASSUME NEW a \in Nat, NEW b \in Nat, NEW p \in Nat \ {0}, a <= b
  PROVE  a \div p <= b \div p /\ a \div p \in Nat
  OBVIOUS

LEMMA QuotientOfProduct ==
  ASSUME NEW a \in Nat, NEW p \in Nat \ {0}
  PROVE  (a * p) \div p = a
  OBVIOUS

\* Whole percentages add up without loss.
LEMMA Percentages ==
  ASSUME NEW x \in Nat, NEW y \in Nat, NEW z \in Nat, z <= x + y, y % 100 = 0
  PROVE  z \div 100 <= x \div 100 + y \div 100
  OBVIOUS

LEMMA MaxIs ==
  ASSUME NEW S \in SUBSET Int, NEW x \in S, \A y \in S : x >= y
  PROVE  Max(S) = x
<1>1. PICK m : m = CHOOSE z \in S : \A y \in S : z >= y
  OBVIOUS
<1>2. m \in S /\ \A y \in S : m >= y
  BY <1>1
<1>3. m = x
  BY <1>2
<1> QED
  BY <1>1, <1>3 DEF Max

LEMMA MinIs ==
  ASSUME NEW S \in SUBSET Int, NEW x \in S, \A y \in S : x <= y
  PROVE  Min(S) = x
<1>1. PICK m : m = CHOOSE z \in S : \A y \in S : z =< y
  OBVIOUS
<1>2. m \in S /\ \A y \in S : m =< y
  BY <1>1
<1>3. m = x
  BY <1>2
<1> QED
  BY <1>1, <1>3 DEF Min

LEMMA MaxOfTwo ==
  ASSUME NEW a \in Int, NEW b \in Int
  PROVE  Max({a, b}) = IF a >= b THEN a ELSE b
<1>1. CASE a >= b
  BY <1>1, MaxIs
<1>2. CASE ~(a >= b)
  BY <1>2, MaxIs
<1> QED
  BY <1>1, <1>2

LEMMA MinOfTwo ==
  ASSUME NEW a \in Int, NEW b \in Int
  PROVE  Min({a, b}) = IF a <= b THEN a ELSE b
<1>1. CASE a <= b
  BY <1>1, MinIs
<1>2. CASE ~(a <= b)
  BY <1>2, MinIs
<1> QED
  BY <1>1, <1>2

-----------------------------------------------------------------------------
(* The parts of a score *)

\* What StreakPercent of the base score comes to.
StreakPoints(streak) == (BaseScore * StreakPercent(streak)) \div 100

\* One streak step of points; an integer under every configuration of the code
\* and of the runs (100 points and 5% or 20%).
StreakStep == (BaseScore * StreakBonusPercent) \div 100

WholeSteps == (BaseScore * StreakBonusPercent) % 100 = 0

\* The ratio of the time left to the timeout, clamped.
LEMMA ClampedTime ==
  ASSUME NEW r \in Int, NEW p \in Nat
  PROVE  Max({0, Min({r, p})}) = IF r < 0 THEN 0 ELSE IF r > p THEN p ELSE r
<1>1. Min({r, p}) = IF r <= p THEN r ELSE p
  BY MinOfTwo
<1>2. Min({r, p}) \in Int
  BY <1>1
<1>3. Max({0, Min({r, p})}) = IF 0 >= Min({r, p}) THEN 0 ELSE Min({r, p})
  BY <1>2, MaxOfTwo
<1> QED
  BY <1>1, <1>2, <1>3

\* The time bonus is bounded, and never more for less time.
LEMMA TimeBonusOf ==
  ASSUME NEW r \in Int, NEW p \in Nat \ {0}
  PROVE  /\ TimeBonus(r, p) \in 0..MaxTimeBonus
         /\ \A q \in Int : q <= r => TimeBonus(q, p) <= TimeBonus(r, p)
<1>1. MaxTimeBonus \in Nat
  BY ScoringAssumption
<1> DEFINE C(x) == Max({0, Min({x, p})})
<1>2. \A x \in Int : C(x) \in 0..p /\ \A y \in Int : y <= x => C(y) <= C(x)
  BY ClampedTime
<1>3. \A x \in Int : TimeBonus(x, p) = (MaxTimeBonus * C(x)) \div p
  BY DEF TimeBonus
<1> HIDE DEF C
<1>4. ASSUME NEW q \in Int, q <= r PROVE TimeBonus(q, p) <= TimeBonus(r, p)
  <2>1. MaxTimeBonus * C(q) <= MaxTimeBonus * C(r) /\ MaxTimeBonus * C(q) \in Nat
    BY <1>1, <1>2, <1>4, ProductGrows
  <2>2. MaxTimeBonus * C(r) \in Nat
    BY <1>1, <1>2, ProductGrows
  <2> QED
    BY <1>3, <1>4, <2>1, <2>2, QuotientGrows
<1>5. TimeBonus(r, p) \in 0..MaxTimeBonus
  <2>1. MaxTimeBonus * C(r) <= MaxTimeBonus * p /\ MaxTimeBonus * C(r) \in Nat
    BY <1>1, <1>2, ProductGrows
  <2>2. MaxTimeBonus * p \in Nat
    BY <1>1, ProductGrows
  <2>3. (MaxTimeBonus * C(r)) \div p <= (MaxTimeBonus * p) \div p /\ (MaxTimeBonus * C(r)) \div p \in Nat
    BY <2>1, <2>2, QuotientGrows
  <2>4. (MaxTimeBonus * p) \div p = MaxTimeBonus
    BY <1>1, QuotientOfProduct
  <2> QED
    BY <1>1, <1>3, <2>3, <2>4
<1> QED
  BY <1>4, <1>5

\* A longer streak pays no less, and one answer more pays at most one step.
LEMMA StreakPercentOf ==
  ASSUME NEW s \in Nat
  PROVE  /\ StreakPercent(s) \in Nat
         /\ StreakPercent(s) <= StreakPercent(s + 1)
         /\ StreakPercent(s + 1) <= StreakPercent(s) + StreakBonusPercent
<1>1. StreakBonusPercent \in Nat /\ MaxStreakBonus \in Nat
  BY ScoringAssumption
<1>2. PICK a \in Nat : a = s * StreakBonusPercent
  BY <1>1
<1>3. (s + 1) * StreakBonusPercent = a + StreakBonusPercent
  BY <1>1, <1>2
<1>4. StreakPercent(s) = IF a <= MaxStreakBonus THEN a ELSE MaxStreakBonus
  BY <1>1, <1>2, MinOfTwo DEF StreakPercent
<1>5. StreakPercent(s + 1) = IF a + StreakBonusPercent <= MaxStreakBonus
                               THEN a + StreakBonusPercent ELSE MaxStreakBonus
  BY <1>1, <1>3, MinOfTwo DEF StreakPercent
<1> QED
  BY <1>1, <1>4, <1>5

LEMMA StreakPointsOf ==
  ASSUME NEW s \in Nat
  PROVE  /\ StreakPoints(s) \in Nat /\ StreakStep \in Nat
         /\ StreakPoints(s) <= StreakPoints(s + 1)
         /\ WholeSteps => StreakPoints(s + 1) <= StreakPoints(s) + StreakStep
<1>1. BaseScore \in Nat /\ StreakBonusPercent \in Nat
  BY ScoringAssumption
<1>2. PICK a \in Nat : a = StreakPercent(s)
  BY StreakPercentOf
<1>3. PICK b \in Nat : b = StreakPercent(s + 1)
  BY StreakPercentOf
<1>4. a <= b /\ b <= a + StreakBonusPercent
  BY <1>2, <1>3, StreakPercentOf
<1>5. BaseScore * a <= BaseScore * b /\ BaseScore * a \in Nat /\ BaseScore * b \in Nat
  BY <1>1, <1>4, ProductGrows
<1>6. StreakPoints(s) <= StreakPoints(s + 1) /\ StreakPoints(s) \in Nat
  BY <1>2, <1>3, <1>5, QuotientGrows DEF StreakPoints
<1>7. BaseScore * StreakBonusPercent \in Nat
  BY <1>1
<1>8. StreakStep \in Nat
  BY <1>7, QuotientGrows DEF StreakStep
<1>9. BaseScore * b <= BaseScore * a + BaseScore * StreakBonusPercent
  <2>1. BaseScore * b <= BaseScore * (a + StreakBonusPercent)
    BY <1>1, <1>4, ProductGrows
  <2>2. BaseScore * (a + StreakBonusPercent) = BaseScore * a + BaseScore * StreakBonusPercent
    BY <1>1
  <2> QED
    BY <2>1, <2>2
<1>10. WholeSteps => StreakPoints(s + 1) <= StreakPoints(s) + StreakStep
  BY <1>2, <1>3, <1>5, <1>7, <1>9, Percentages DEF StreakPoints, StreakStep, WholeSteps
<1> QED
  BY <1>6, <1>8, <1>10

\* What is left of the time only shrinks while the clock runs.
LEMMA TimeRemainingOf ==
  ASSUME NEW p \in Nat, NEW at \in Int, NEW t \in Int
  PROVE  /\ TimeRemaining(p, at, t) \in Nat
         /\ \A u \in Int : t <= u => TimeRemaining(p, at, u) <= TimeRemaining(p, at, t)
<1>1. \A u \in Int : TimeRemaining(p, at, u) = IF 0 >= p - (u - at) THEN 0 ELSE p - (u - at)
  BY MaxOfTwo DEF TimeRemaining
<1> QED
  BY <1>1

LEMMA ScoreOf ==
  ASSUME NEW c \in BOOLEAN, NEW r \in Int, NEW p \in Nat \ {0}, NEW s \in Nat
  PROVE  /\ CalculateScore(c, r, p, s) \in Nat
         /\ c => CalculateScore(c, r, p, s) = BaseScore + TimeBonus(r, p) + StreakPoints(s)
         /\ ~c => CalculateScore(c, r, p, s) = 0
<1>1. BaseScore \in Nat /\ TimeBonus(r, p) \in Nat /\ StreakPoints(s) \in Nat
  <2>1. TimeBonus(r, p) \in 0..MaxTimeBonus
    BY TimeBonusOf
  <2> QED
    BY <2>1, ScoringAssumption, StreakPointsOf
<1>2. c => CalculateScore(c, r, p, s) = BaseScore + TimeBonus(r, p) + StreakPoints(s)
  BY DEF CalculateScore, StreakPoints
<1>3. ~c => CalculateScore(c, r, p, s) = 0
  BY DEF CalculateScore
<1> QED
  BY <1>1, <1>2, <1>3

-----------------------------------------------------------------------------
(* The loops over a sheet, one answer at a time *)

\* A sheet with one more answer.
LEMMA AppendOf ==
  ASSUME NEW s \in Seq(Answer), NEW a \in Answer
  PROVE  /\ Append(s, a) \in Seq(Answer) /\ Len(Append(s, a)) = Len(s) + 1 /\ Len(s) \in Nat
         /\ Append(s, a)[Len(s) + 1] = a
         /\ \A i \in 1..Len(s) : s[i] \in Answer /\ Append(s, a)[i] = s[i]
  OBVIOUS

\* The counters a walk back over the first answers of a sheet gives.
StreakRounds(s) ==
  {f \in [0..Len(s) -> Nat] :
     /\ f[0] = 0 /\ f[Len(s)] = CurrentStreak(s)
     /\ \A i \in 1..Len(s) : f[i] = NextStreak(f[i - 1], s[i].IsCorrect)}

LEMMA CurrentStreakIsLoop ==
  ASSUME NEW s \in Seq(Answer)
  PROVE  \E f : f \in StreakRounds(s)
<1>1. PICK n \in Nat : n = Len(s)
  OBVIOUS
<1>2. PICK step : step = [x \in Nat \X (1..n) |-> NextStreak(x[1], s[x[2]].IsCorrect)]
  OBVIOUS
<1>3. step \in [Nat \X (1..n) -> Nat]
  BY <1>2 DEF NextStreak
<1>4. \A x \in Nat, i \in 1..n : step[<<x, i>>] = NextStreak(x, s[i].IsCorrect)
  BY <1>2
<1>5. PICK f : f \in Loop(Nat, 0, step, n)
  BY <1>3, LoopExists
<1>6. /\ f \in [0..n -> Nat] /\ f[0] = 0
      /\ \A i \in 1..n : f[i] = step[<<f[i - 1], i>>]
  BY <1>5 DEF Loop
<1>7. \A i \in 1..n : f[i - 1] \in Nat
  BY <1>6
<1>8. \A i \in 1..n : f[i] = NextStreak(f[i - 1], s[i].IsCorrect)
  BY <1>4, <1>6, <1>7
<1> DEFINE Rounds(h) == [i \in 0..Len(s) |-> IF i > 0 /\ s[i].IsCorrect THEN 1 + h[i - 1] ELSE 0]
<1>9. f = Rounds(f)
  <2>1. \A i \in 0..n : f[i] = Rounds(f)[i]
    <3> SUFFICES ASSUME NEW i \in 0..n PROVE f[i] = Rounds(f)[i]
      OBVIOUS
    <3>1. CASE i = 0
      BY <1>1, <1>6, <3>1
    <3>2. CASE i # 0
      <4>1. i \in 1..n
        BY <3>2
      <4> QED
        BY <1>1, <1>7, <1>8, <4>1 DEF NextStreak
    <3> QED
      BY <3>1, <3>2
  <2> QED
    BY <1>1, <1>6, <2>1
<1>10. PICK h : h = CHOOSE g : g = Rounds(g)
  OBVIOUS
<1>11. h = Rounds(h)
  BY <1>9, <1>10
<1>12. CurrentStreak(s) = h[Len(s)]
  BY <1>10 DEF CurrentStreak
<1>13. \A i \in 0..n : h[i] = Rounds(h)[i]
  BY <1>11
<1>14. h[0] = 0
  BY <1>1, <1>13
<1>15. \A i \in 1..n : h[i - 1] \in Nat => h[i] = step[<<h[i - 1], i>>]
  <2> SUFFICES ASSUME NEW i \in 1..n, h[i - 1] \in Nat
               PROVE  h[i] = NextStreak(h[i - 1], s[i].IsCorrect)
    BY <1>4
  <2>1. h[i] = Rounds(h)[i] /\ i \in 0..Len(s) /\ i > 0
    BY <1>1, <1>13
  <2> QED
    BY <2>1 DEF NextStreak
<1> HIDE DEF Rounds
<1>16. h[n] = f[n]
  <2>1. Follows(h, Nat, 0, step, n)
    BY <1>14, <1>15 DEF Follows
  <2> QED
    BY <1>5, <2>1, LoopUnique
<1> QED
  BY <1>1, <1>6, <1>8, <1>12, <1>16 DEF StreakRounds

\* The streak SubmitAnswer walks back is the one ComputeFinalScore carries along.
LEMMA StreakOfAppend ==
  ASSUME NEW s \in Seq(Answer), NEW a \in Answer
  PROVE  /\ CurrentStreak(s) \in Nat
         /\ CurrentStreak(Append(s, a)) = NextStreak(CurrentStreak(s), a.IsCorrect)
<1>1. PICK n \in Nat : n = Len(s)
  OBVIOUS
<1>2. PICK f : f \in StreakRounds(s)
  BY CurrentStreakIsLoop
<1>3. PICK z \in Seq(Answer) : z = Append(s, a)
  BY AppendOf
<1>4. PICK g : g \in StreakRounds(z)
  BY CurrentStreakIsLoop
<1>5. Len(z) = n + 1 /\ z[n + 1] = a /\ \A i \in 1..n : z[i] = s[i]
  BY <1>1, <1>3, AppendOf
<1>6. /\ f \in [0..n -> Nat] /\ f[0] = 0 /\ f[n] = CurrentStreak(s)
      /\ \A i \in 1..n : f[i] = NextStreak(f[i - 1], s[i].IsCorrect)
  BY <1>1, <1>2 DEF StreakRounds
<1>7. /\ g[0] = 0 /\ g[n + 1] = CurrentStreak(z)
      /\ \A i \in 1..(n + 1) : g[i] = NextStreak(g[i - 1], z[i].IsCorrect)
  BY <1>4, <1>5 DEF StreakRounds
<1>8. PICK step : step = [x \in Nat \X (1..n) |-> NextStreak(x[1], s[x[2]].IsCorrect)]
  OBVIOUS
<1>9. \A x \in Nat, i \in 1..n : step[<<x, i>>] = NextStreak(x, s[i].IsCorrect)
  BY <1>8
<1>10. f \in Loop(Nat, 0, step, n)
  <2>1. \A i \in 1..n : f[i] = step[<<f[i - 1], i>>]
    BY <1>6, <1>9
  <2> QED
    BY <1>6, <2>1 DEF Loop
<1>11. \A i \in 1..n : g[i - 1] \in Nat => g[i] = step[<<g[i - 1], i>>]
  BY <1>5, <1>7, <1>9
<1>12. g[n] = f[n]
  <2>1. g[0] = 0
    BY <1>7
  <2>2. Follows(g, Nat, 0, step, n)
    BY <1>11, <2>1 DEF Follows
  <2> QED
    BY <1>10, <2>2, LoopUnique
<1>13. g[n + 1] = NextStreak(g[n], a.IsCorrect)
  <2>1. n + 1 \in 1..(n + 1) /\ (n + 1) - 1 = n
    OBVIOUS
  <2> QED
    BY <1>5, <1>7, <2>1
<1>14. f[n] \in Nat
  BY <1>6
<1> QED
  BY <1>3, <1>6, <1>7, <1>12, <1>13, <1>14

LEMMA StreakOfNothing == CurrentStreak(<<>>) = 0
<1>1. <<>> \in Seq(Answer) /\ Len(<<>>) = 0
  OBVIOUS
<1>2. PICK f : f \in StreakRounds(<<>>)
  BY <1>1, CurrentStreakIsLoop
<1> QED
  BY <1>1, <1>2 DEF StreakRounds

\* The answers before answer i, and the streak answer i is scored with.
LEMMA PrefixOf ==
  ASSUME NEW s \in Seq(Answer), NEW i \in 1..Len(s)
  PROVE  SubSeq(s, 1, i - 1) \in Seq(Answer) /\ StreakAtAnswer(s, i) \in Nat
<1>1. SubSeq(s, 1, i - 1) \in Seq(Answer)
  OBVIOUS
<1>2. CurrentStreak(SubSeq(s, 1, i - 1)) \in Nat
  <2>1. PICK z \in Seq(Answer) : z = SubSeq(s, 1, i - 1)
    BY <1>1
  <2>2. PICK f : f \in StreakRounds(z)
    BY CurrentStreakIsLoop
  <2>3. f \in [0..Len(z) -> Nat] /\ f[Len(z)] = CurrentStreak(z) /\ Len(z) \in 0..Len(z)
    BY <2>2 DEF StreakRounds
  <2> QED
    BY <2>1, <2>3
<1> QED
  BY <1>1, <1>2 DEF StreakAtAnswer, NextStreak

\* One more answer changes the streak of none before it, and is scored with the
\* streak of the whole sheet.
LEMMA PrefixOfAppend ==
  ASSUME NEW s \in Seq(Answer), NEW a \in Answer
  PROVE  /\ \A i \in 1..Len(s) : StreakAtAnswer(Append(s, a), i) = StreakAtAnswer(s, i)
         /\ StreakAtAnswer(Append(s, a), Len(s) + 1) = NextStreak(CurrentStreak(s), a.IsCorrect)
<1>1. PICK z \in Seq(Answer) : z = Append(s, a)
  BY AppendOf
<1>2. Len(z) = Len(s) + 1 /\ z[Len(s) + 1] = a /\ \A i \in 1..Len(s) : z[i] = s[i]
  BY <1>1, AppendOf
<1>3. ASSUME NEW i \in 1..Len(s) PROVE StreakAtAnswer(z, i) = StreakAtAnswer(s, i)
  <2>1. SubSeq(z, 1, i - 1) = SubSeq(s, 1, i - 1)
    BY <1>2
  <2> QED
    BY <1>2, <2>1 DEF StreakAtAnswer
<1>4. SubSeq(z, 1, Len(s)) = s
  BY <1>2
<1>5. StreakAtAnswer(z, Len(s) + 1) = NextStreak(CurrentStreak(s), a.IsCorrect)
  <2>1. (Len(s) + 1) - 1 = Len(s)
    OBVIOUS
  <2> QED
    BY <1>2, <1>4, <2>1 DEF StreakAtAnswer
<1> QED
  BY <1>1, <1>3, <1>5

\* What ComputeFinalScore counts, at the start and after one more answer.
Counters == [correctCount : Nat, currentStreak : Nat, maxStreak : Nat, totalScore : Nat]

Zero == [correctCount |-> 0, currentStreak |-> 0, maxStreak |-> 0, totalScore |-> 0]

ScoreAt(ans, streak, t) ==
  CalculateScore(ans.IsCorrect, TimeRemaining(PerQuestionTimeout, ans.SubmittedAt, t),
                 PerQuestionTimeout, streak)

Round(acc, ans, streak, t) ==
  [correctCount  |-> acc.correctCount + (IF ans.IsCorrect THEN 1 ELSE 0),
   currentStreak |-> NextStreak(acc.currentStreak, ans.IsCorrect),
   maxStreak     |-> Max({acc.maxStreak, NextStreak(acc.currentStreak, ans.IsCorrect)}),
   totalScore    |-> acc.totalScore + ScoreAt(ans, streak, t)]

LEMMA ScoreAtOf ==
  ASSUME NEW ans \in Answer, NEW streak \in Nat, NEW t \in Nat
  PROVE  ScoreAt(ans, streak, t) \in Nat
<1>1. /\ ans.IsCorrect \in BOOLEAN /\ ans.SubmittedAt \in Int
      /\ PerQuestionTimeout \in Nat \ {0} /\ PerQuestionTimeout \in Nat
  BY SheetAssumption DEF Answer
<1>2. TimeRemaining(PerQuestionTimeout, ans.SubmittedAt, t) \in Int
  BY <1>1, TimeRemainingOf
<1> QED
  BY <1>1, <1>2, ScoreOf DEF ScoreAt

LEMMA RoundOf ==
  ASSUME NEW acc \in Counters, NEW ans \in Answer, NEW streak \in Nat, NEW t \in Nat
  PROVE  Round(acc, ans, streak, t) \in Counters
<1>1. ScoreAt(ans, streak, t) \in Nat
  BY ScoreAtOf
<1>2. PICK r : r = NextStreak(acc.currentStreak, ans.IsCorrect)
  OBVIOUS
<1>3. /\ acc.correctCount \in Nat /\ acc.currentStreak \in Nat
      /\ acc.maxStreak \in Nat /\ acc.totalScore \in Nat
  BY DEF Counters
<1>4. r \in Nat
  BY <1>2, <1>3 DEF NextStreak
<1>5. Max({acc.maxStreak, r}) \in Nat
  BY <1>3, <1>4, MaxOfTwo
<1> QED
  BY <1>1, <1>2, <1>3, <1>4, <1>5 DEF Round, Counters

FinalAt(s, t) == FinalLoop(s, PerQuestionTimeout, t)

\* The counters the loop of ComputeFinalScore goes through.
FinalRounds(s, t) ==
  {f \in [0..Len(s) -> Counters] :
     /\ f[0] = Zero /\ f[Len(s)] = FinalAt(s, t)
     /\ \A i \in 1..Len(s) : f[i] = Round(f[i - 1], s[i], StreakAtAnswer(s, i), t)}

LEMMA FinalLoopIsLoop ==
  ASSUME NEW s \in Seq(Answer), NEW t \in Nat
  PROVE  \E f : f \in FinalRounds(s, t)
<1>1. PICK n \in Nat : n = Len(s)
  OBVIOUS
<1>2. PICK step : step = [x \in Counters \X (1..n) |-> Round(x[1], s[x[2]], StreakAtAnswer(s, x[2]), t)]
  OBVIOUS
<1>3. step \in [Counters \X (1..n) -> Counters]
  <2>1. ASSUME NEW x \in Counters \X (1..n)
        PROVE  Round(x[1], s[x[2]], StreakAtAnswer(s, x[2]), t) \in Counters
    <3>1. x[1] \in Counters /\ x[2] \in 1..Len(s) /\ s[x[2]] \in Answer
      BY <1>1
    <3> QED
      BY <3>1, PrefixOf, RoundOf
  <2> QED
    BY <1>2, <2>1
<1>4. \A x \in Counters, i \in 1..n :
         step[<<x, i>>] = Round(x, s[i], StreakAtAnswer(s, i), t)
  BY <1>2
<1>5. PICK f : f \in Loop(Counters, Zero, step, n)
  <2>1. Zero \in Counters
    BY DEF Zero, Counters
  <2> QED
    BY <1>3, <2>1, LoopExists
<1>6. /\ f \in [0..n -> Counters] /\ f[0] = Zero
      /\ \A i \in 1..n : f[i] = step[<<f[i - 1], i>>]
  BY <1>5 DEF Loop
<1>7. \A i \in 1..n : f[i - 1] \in Counters
  BY <1>6
<1>8. \A i \in 1..n : f[i] = Round(f[i - 1], s[i], StreakAtAnswer(s, i), t)
  BY <1>4, <1>6, <1>7
<1> DEFINE Rounds(h) ==
      [i \in 0..Len(s) |->
         IF i = 0
           THEN [correctCount |-> 0, currentStreak |-> 0, maxStreak |-> 0, totalScore |-> 0]
           ELSE LET ans == s[i]
                    streak == NextStreak(h[i - 1].currentStreak, ans.IsCorrect)
                    remaining == TimeRemaining(PerQuestionTimeout, ans.SubmittedAt, t)
                IN [correctCount  |-> h[i - 1].correctCount + (IF ans.IsCorrect THEN 1 ELSE 0),
                    currentStreak |-> streak,
                    maxStreak     |-> Max({h[i - 1].maxStreak, streak}),
                    totalScore    |-> h[i - 1].totalScore
                                        + CalculateScore(ans.IsCorrect, remaining,
                                            PerQuestionTimeout, StreakAtAnswer(s, i))]]
<1>9. \A h : /\ Rounds(h)[0] = Zero
             /\ \A i \in 1..n : Rounds(h)[i] = Round(h[i - 1], s[i], StreakAtAnswer(s, i), t)
  <2>1. 0 \in 0..Len(s) /\ \A i \in 1..n : i \in 0..Len(s) /\ i # 0
    BY <1>1
  <2> QED
    BY <2>1, Zenon DEF Zero, Round, ScoreAt
<1>10. f = Rounds(f)
  <2>1. \A i \in 0..n : f[i] = Rounds(f)[i]
    <3> SUFFICES ASSUME NEW i \in 0..n PROVE f[i] = Rounds(f)[i]
      OBVIOUS
    <3>1. CASE i = 0
      BY <1>6, <1>9, <3>1
    <3>2. CASE i # 0
      <4>1. i \in 1..n
        BY <3>2
      <4> QED
        BY <1>8, <1>9, <4>1
    <3> QED
      BY <3>1, <3>2
  <2> QED
    BY <1>1, <1>6, <2>1
<1>11. PICK h : h = CHOOSE g : g = Rounds(g)
  OBVIOUS
<1>12. h = Rounds(h)
  BY <1>10, <1>11
<1>13. FinalAt(s, t) = h[Len(s)]
  BY <1>11 DEF FinalAt, FinalLoop
<1> HIDE DEF Rounds
<1>14. h[0] = Zero
  BY <1>9, <1>12
<1>15. \A i \in 1..n : h[i - 1] \in Counters => h[i] = step[<<h[i - 1], i>>]
  BY <1>4, <1>9, <1>12
<1>16. h[n] = f[n]
  <2>1. Follows(h, Counters, Zero, step, n)
    BY <1>14, <1>15 DEF Follows
  <2> QED
    BY <1>5, <2>1, LoopUnique
<1> QED
  BY <1>1, <1>6, <1>8, <1>13, <1>16 DEF FinalRounds

\* One more answer is one more round.
LEMMA FinalOfAppend ==
  ASSUME NEW s \in Seq(Answer), NEW a \in Answer, NEW t \in Nat
  PROVE  /\ FinalAt(s, t) \in Counters
         /\ FinalAt(Append(s, a), t)
              = Round(FinalAt(s, t), a, NextStreak(CurrentStreak(s), a.IsCorrect), t)
<1>1. PICK n \in Nat : n = Len(s)
  OBVIOUS
<1>2. PICK f : f \in FinalRounds(s, t)
  BY FinalLoopIsLoop
<1>3. PICK z \in Seq(Answer) : z = Append(s, a)
  BY AppendOf
<1>4. PICK g : g \in FinalRounds(z, t)
  BY FinalLoopIsLoop
<1>5. Len(z) = n + 1 /\ z[n + 1] = a /\ \A i \in 1..n : z[i] = s[i]
  BY <1>1, <1>3, AppendOf
<1>6. /\ f \in [0..n -> Counters] /\ f[0] = Zero /\ f[n] = FinalAt(s, t)
      /\ \A i \in 1..n : f[i] = Round(f[i - 1], s[i], StreakAtAnswer(s, i), t)
  BY <1>1, <1>2 DEF FinalRounds
<1>7. /\ g[0] = Zero /\ g[n + 1] = FinalAt(z, t)
      /\ \A i \in 1..(n + 1) : g[i] = Round(g[i - 1], z[i], StreakAtAnswer(z, i), t)
  BY <1>4, <1>5 DEF FinalRounds
<1>8. PICK step : step = [x \in Counters \X (1..n) |-> Round(x[1], s[x[2]], StreakAtAnswer(s, x[2]), t)]
  OBVIOUS
<1>9. \A x \in Counters, i \in 1..n :
         step[<<x, i>>] = Round(x, s[i], StreakAtAnswer(s, i), t)
  BY <1>8
<1>10. f \in Loop(Counters, Zero, step, n)
  <2>1. \A i \in 1..n : f[i - 1] \in Counters
    BY <1>6
  <2>2. \A i \in 1..n : f[i] = step[<<f[i - 1], i>>]
    BY <1>6, <1>9, <2>1
  <2> QED
    BY <1>6, <2>2 DEF Loop
<1>11. \A i \in 1..n : StreakAtAnswer(z, i) = StreakAtAnswer(s, i)
  BY <1>1, <1>3, PrefixOfAppend
<1>12. \A i \in 1..n : g[i - 1] \in Counters => g[i] = step[<<g[i - 1], i>>]
  <2> SUFFICES ASSUME NEW i \in 1..n, g[i - 1] \in Counters
               PROVE  g[i] = Round(g[i - 1], s[i], StreakAtAnswer(s, i), t)
    BY <1>9
  <2>1. i \in 1..(n + 1)
    OBVIOUS
  <2> QED
    BY <1>5, <1>7, <1>11, <2>1
<1>13. g[0] = Zero
  BY <1>7
<1>14. g[n] = f[n]
  <2>1. Follows(g, Counters, Zero, step, n)
    BY <1>12, <1>13 DEF Follows
  <2> QED
    BY <1>10, <2>1, LoopUnique
<1>15. g[n + 1] = Round(g[n], a, NextStreak(CurrentStreak(s), a.IsCorrect), t)
  <2>1. n + 1 \in 1..(n + 1) /\ (n + 1) - 1 = n
    OBVIOUS
  <2>2. StreakAtAnswer(z, n + 1) = NextStreak(CurrentStreak(s), a.IsCorrect)
    BY <1>1, <1>3, PrefixOfAppend
  <2> QED
    BY <1>5, <1>7, <2>1, <2>2
<1>16. f[n] \in Counters
  BY <1>6
<1> QED
  BY <1>3, <1>6, <1>7, <1>14, <1>15, <1>16

LEMMA FinalOfNothing ==
  ASSUME NEW t \in Nat
  PROVE  FinalAt(<<>>, t) = Zero
<1>1. <<>> \in Seq(Answer) /\ Len(<<>>) = 0
  OBVIOUS
<1>2. PICK f : f \in FinalRounds(<<>>, t)
  BY <1>1, FinalLoopIsLoop
<1> QED
  BY <1>1, <1>2 DEF FinalRounds

-----------------------------------------------------------------------------
(* What the loops compute, for every sheet *)

\* The streak is the run a sheet ends with.
LastRun(s) ==
  LET c == CurrentStreak(s)
  IN  /\ c \in 0..Len(s)
      /\ \A i \in 1..Len(s) : i > Len(s) - c => s[i].IsCorrect
      /\ c < Len(s) => ~s[Len(s) - c].IsCorrect

\* The runs of a sheet and their lengths, as LoopMatchesRuns takes them.
Intervals(s) == {<<i, j>> : i, j \in 1..Len(s)}

RunsOf(s) == {r \in Intervals(s) : r[1] <= r[2] /\ \A k \in r[1]..r[2] : s[k].IsCorrect}

RunLengths(s) == {0} \cup {r[2] - r[1] + 1 : r \in RunsOf(s)}

\* What the loop has counted, whenever it runs.
CountsMatch(s) ==
  \A t \in Nat :
    /\ FinalAt(s, t).correctCount = Cardinality({i \in 1..Len(s) : s[i].IsCorrect})
    /\ FinalAt(s, t).currentStreak = CurrentStreak(s)
    /\ FinalAt(s, t).maxStreak \in RunLengths(s)
    /\ \A l \in RunLengths(s) : l <= FinalAt(s, t).maxStreak

\* The later it runs, the less it pays.
LaterPaysLess(s) ==
  \A t, u \in Nat : t <= u => FinalAt(s, u).totalScore <= FinalAt(s, t).totalScore

Sound(s) == LastRun(s) /\ CountsMatch(s) /\ LaterPaysLess(s)

LEMMA LastRunOfAppend ==
  ASSUME NEW s \in Seq(Answer), NEW a \in Answer, LastRun(s)
  PROVE  LastRun(Append(s, a))
<1>1. PICK n \in Nat : n = Len(s)
  OBVIOUS
<1>2. PICK c \in 0..n : c = CurrentStreak(s)
  BY <1>1 DEF LastRun
<1>3. PICK z \in Seq(Answer) : z = Append(s, a)
  BY AppendOf
<1>4. Len(z) = n + 1 /\ z[n + 1] = a /\ \A i \in 1..n : z[i] = s[i]
  BY <1>1, <1>3, AppendOf
<1>5. CurrentStreak(z) = NextStreak(c, a.IsCorrect)
  BY <1>2, <1>3, StreakOfAppend
<1>6. /\ \A i \in 1..n : i > n - c => s[i].IsCorrect
      /\ c < n => ~s[n - c].IsCorrect
  BY <1>1, <1>2 DEF LastRun
<1>7. CASE a.IsCorrect
  <2>1. CurrentStreak(z) = c + 1
    BY <1>5, <1>7 DEF NextStreak
  <2>2. ASSUME NEW i \in 1..(n + 1), i > (n + 1) - (c + 1) PROVE z[i].IsCorrect
    <3>1. CASE i = n + 1
      BY <1>4, <1>7, <3>1
    <3>2. CASE i # n + 1
      <4>1. i \in 1..n /\ i > n - c
        BY <2>2, <3>2
      <4> QED
        BY <1>4, <1>6, <4>1
    <3> QED
      BY <3>1, <3>2
  <2>3. ASSUME c + 1 < n + 1 PROVE ~z[(n + 1) - (c + 1)].IsCorrect
    <3>1. (n + 1) - (c + 1) = n - c /\ n - c \in 1..n /\ c < n
      BY <2>3
    <3> QED
      BY <1>4, <1>6, <3>1
  <2>4. c + 1 \in 0..(n + 1)
    OBVIOUS
  <2> QED
    BY <1>3, <1>4, <2>1, <2>2, <2>3, <2>4 DEF LastRun
<1>8. CASE ~a.IsCorrect
  <2>1. CurrentStreak(z) = 0
    BY <1>5, <1>8 DEF NextStreak
  <2>2. 0 \in 0..(n + 1) /\ (n + 1) - 0 = n + 1 /\ \A i \in 1..(n + 1) : ~(i > (n + 1) - 0)
    OBVIOUS
  <2> QED
    BY <1>3, <1>4, <1>8, <2>1, <2>2 DEF LastRun
<1> QED
  BY <1>7, <1>8

LEMMA RunLengthsOf ==
  ASSUME NEW s \in Seq(Answer), NEW l
  PROVE  l \in RunLengths(s) <=>
           \/ l = 0
           \/ \E i, j \in 1..Len(s) : i <= j /\ l = j - i + 1 /\ \A k \in i..j : s[k].IsCorrect
<1>1. l \in RunLengths(s) <=> l = 0 \/ \E r \in RunsOf(s) : l = r[2] - r[1] + 1
  BY DEF RunLengths
<1>2. \A r : r \in RunsOf(s) <=>
               /\ r \in Intervals(s)
               /\ r[1] <= r[2] /\ \A k \in r[1]..r[2] : s[k].IsCorrect
  BY DEF RunsOf
<1>3. \A r \in Intervals(s) : \E i, j \in 1..Len(s) : r = <<i, j>>
  BY DEF Intervals
<1>4. ASSUME l \in RunLengths(s), l # 0
      PROVE  \E i, j \in 1..Len(s) : i <= j /\ l = j - i + 1 /\ \A k \in i..j : s[k].IsCorrect
  <2>1. PICK r \in RunsOf(s) : l = r[2] - r[1] + 1
    BY <1>1, <1>4
  <2>2. PICK i, j \in 1..Len(s) : r = <<i, j>>
    BY <1>2, <1>3, <2>1
  <2>3. r[1] = i /\ r[2] = j
    BY <2>2
  <2>4. i <= j /\ l = j - i + 1 /\ \A k \in i..j : s[k].IsCorrect
    BY <1>2, <2>1, <2>3
  <2> QED
    BY <2>4
<1>5. ASSUME NEW i \in 1..Len(s), NEW j \in 1..Len(s),
             i <= j, l = j - i + 1, \A k \in i..j : s[k].IsCorrect
      PROVE  l \in RunLengths(s)
  <2>1. PICK r : r = <<i, j>>
    OBVIOUS
  <2>2. r \in Intervals(s)
    BY <2>1 DEF Intervals
  <2>3. r[1] = i /\ r[2] = j
    BY <2>1
  <2>4. r \in RunsOf(s) /\ l = r[2] - r[1] + 1
    BY <1>2, <1>5, <2>2, <2>3
  <2> QED
    BY <1>1, <2>4
<1> QED
  BY <1>1, <1>4, <1>5

\* The longest run of a sheet with one more answer is the longest one before or
\* the one the sheet now ends with.
LEMMA RunLengthsOfAppend ==
  ASSUME NEW s \in Seq(Answer), NEW a \in Answer, LastRun(s),
         NEW m \in RunLengths(s), m \in Nat, \A l \in RunLengths(s) : l <= m,
         NEW x \in Nat, x = NextStreak(CurrentStreak(s), a.IsCorrect)
  PROVE  /\ Max({m, x}) \in RunLengths(Append(s, a))
         /\ \A l \in RunLengths(Append(s, a)) : l <= Max({m, x})
<1>1. PICK n \in Nat : n = Len(s)
  OBVIOUS
<1>2. PICK c \in 0..n : c = CurrentStreak(s)
  BY <1>1 DEF LastRun
<1>3. PICK z \in Seq(Answer) : z = Append(s, a)
  BY AppendOf
<1>4. Len(z) = n + 1 /\ z[n + 1] = a /\ \A i \in 1..n : z[i] = s[i]
  BY <1>1, <1>3, AppendOf
<1>5. /\ \A i \in 1..n : i > n - c => s[i].IsCorrect
      /\ c < n => ~s[n - c].IsCorrect
  BY <1>1, <1>2 DEF LastRun
<1>6. Max({m, x}) = IF m >= x THEN m ELSE x
  BY MaxOfTwo
<1>7. m \in RunLengths(z)
  <2>1. CASE m = 0
    BY <2>1, RunLengthsOf
  <2>2. CASE m # 0
    <3>1. PICK i, j \in 1..n : i <= j /\ m = j - i + 1 /\ \A k \in i..j : s[k].IsCorrect
      BY <1>1, <2>2, RunLengthsOf
    <3>2. i \in 1..(n + 1) /\ j \in 1..(n + 1) /\ \A k \in i..j : k \in 1..n
      BY <3>1
    <3>3. \A k \in i..j : z[k].IsCorrect
      BY <1>4, <3>1, <3>2
    <3> QED
      BY <1>4, <3>1, <3>2, <3>3, RunLengthsOf
  <2> QED
    BY <2>1, <2>2
<1>8. x \in RunLengths(z)
  <2>1. CASE a.IsCorrect
    <3>1. x = c + 1
      BY <1>2, <2>1 DEF NextStreak
    <3>2. n + 1 - c \in 1..(n + 1) /\ n + 1 \in 1..(n + 1) /\ n + 1 - c <= n + 1
          /\ x = (n + 1) - (n + 1 - c) + 1
      BY <3>1
    <3>3. ASSUME NEW k \in (n + 1 - c)..(n + 1) PROVE z[k].IsCorrect
      <4>1. CASE k = n + 1
        BY <1>4, <2>1, <4>1
      <4>2. CASE k # n + 1
        <5>1. k \in 1..n /\ k > n - c
          BY <4>2
        <5> QED
          BY <1>4, <1>5, <5>1
      <4> QED
        BY <4>1, <4>2
    <3> QED
      BY <1>4, <3>2, <3>3, RunLengthsOf
  <2>2. CASE ~a.IsCorrect
    BY <2>2, RunLengthsOf DEF NextStreak
  <2> QED
    BY <2>1, <2>2
<1>9. ASSUME NEW l \in RunLengths(z) PROVE l <= Max({m, x})
  <2>1. CASE l = 0
    BY <1>6, <2>1
  <2>2. CASE l # 0
    <3>1. PICK i, j \in 1..(n + 1) : i <= j /\ l = j - i + 1 /\ \A k \in i..j : z[k].IsCorrect
      BY <1>4, <2>2, RunLengthsOf
    <3>2. CASE j <= n
      <4>1. i \in 1..n /\ j \in 1..n /\ \A k \in i..j : k \in 1..n
        BY <3>1, <3>2
      <4>2. \A k \in i..j : s[k].IsCorrect
        BY <1>4, <3>1, <4>1
      <4>3. l \in RunLengths(s)
        BY <1>1, <3>1, <4>1, <4>2, RunLengthsOf
      <4>4. l <= m /\ l \in Int
        BY <3>1, <4>3
      <4> QED
        BY <1>6, <4>4
    <3>3. CASE ~(j <= n)
      <4>1. j = n + 1 /\ n + 1 \in i..j
        BY <3>1, <3>3
      <4>2. a.IsCorrect
        BY <1>4, <3>1, <4>1
      <4>3. x = c + 1
        BY <1>2, <4>2 DEF NextStreak
      <4>4. i > n - c
        <5>1. SUFFICES ASSUME i <= n - c PROVE FALSE
          OBVIOUS
        <5>2. c < n /\ n - c \in i..j /\ n - c \in 1..n
          BY <4>1, <5>1
        <5>3. z[n - c].IsCorrect
          BY <3>1, <5>2
        <5> QED
          BY <1>4, <1>5, <5>2, <5>3
      <4>5. l <= x /\ l \in Int
        BY <3>1, <4>1, <4>3, <4>4
      <4> QED
        BY <1>6, <4>5
    <3> QED
      BY <3>2, <3>3
  <2> QED
    BY <2>1, <2>2
<1> QED
  BY <1>3, <1>6, <1>7, <1>8, <1>9

LEMMA CorrectOfAppend ==
  ASSUME NEW s \in Seq(Answer), NEW a \in Answer
  PROVE  Cardinality({i \in 1..Len(Append(s, a)) : Append(s, a)[i].IsCorrect})
           = Cardinality({i \in 1..Len(s) : s[i].IsCorrect}) + (IF a.IsCorrect THEN 1 ELSE 0)
<1>1. PICK n \in Nat : n = Len(s)
  OBVIOUS
<1>2. PICK z \in Seq(Answer) : z = Append(s, a)
  BY AppendOf
<1>3. Len(z) = n + 1 /\ z[n + 1] = a /\ \A i \in 1..n : z[i] = s[i]
  BY <1>1, <1>2, AppendOf
<1>4. PICK C : C = {i \in 1..n : s[i].IsCorrect}
  OBVIOUS
<1>5. IsFiniteSet(C) /\ n + 1 \notin C
  <2>1. IsFiniteSet(1..n)
    BY FS_Interval
  <2>2. C \subseteq 1..n /\ n + 1 \notin 1..n
    BY <1>4
  <2> QED
    BY <2>1, <2>2, FS_Subset
<1>6. Cardinality(C) \in Nat
  BY <1>5, FS_CardinalityType
<1>7. CASE a.IsCorrect
  <2>1. {i \in 1..(n + 1) : z[i].IsCorrect} = C \cup {n + 1}
    BY <1>3, <1>4, <1>7
  <2>2. Cardinality(C \cup {n + 1}) = Cardinality(C) + 1
    BY <1>5, FS_AddElement
  <2> QED
    BY <1>1, <1>2, <1>3, <1>4, <1>7, <2>1, <2>2
<1>8. CASE ~a.IsCorrect
  <2>1. {i \in 1..(n + 1) : z[i].IsCorrect} = C
    BY <1>3, <1>4, <1>8
  <2>2. Cardinality(C) = Cardinality(C) + (IF a.IsCorrect THEN 1 ELSE 0)
    BY <1>6, <1>8
  <2> QED
    BY <1>1, <1>2, <1>3, <1>4, <2>1, <2>2
<1> QED
  BY <1>7, <1>8

LEMMA CountsOfAppend ==
  ASSUME NEW s \in Seq(Answer), NEW a \in Answer, LastRun(s), CountsMatch(s)
  PROVE  CountsMatch(Append(s, a))
<1> DEFINE z == Append(s, a)
<1>1. SUFFICES ASSUME NEW t \in Nat
               PROVE  /\ FinalAt(z, t).correctCount = Cardinality({i \in 1..Len(z) : z[i].IsCorrect})
                      /\ FinalAt(z, t).currentStreak = CurrentStreak(z)
                      /\ FinalAt(z, t).maxStreak \in RunLengths(z)
                      /\ \A l \in RunLengths(z) : l <= FinalAt(z, t).maxStreak
  BY DEF CountsMatch
<1>2. PICK acc \in Counters : acc = FinalAt(s, t)
  BY FinalOfAppend
<1>3. PICK streak : streak = NextStreak(CurrentStreak(s), a.IsCorrect)
  OBVIOUS
<1>4. FinalAt(z, t) = Round(acc, a, streak, t)
  BY <1>2, <1>3, FinalOfAppend
<1>5. /\ acc.correctCount = Cardinality({i \in 1..Len(s) : s[i].IsCorrect})
      /\ acc.currentStreak = CurrentStreak(s)
      /\ acc.maxStreak \in RunLengths(s)
      /\ \A l \in RunLengths(s) : l <= acc.maxStreak
  BY <1>2 DEF CountsMatch
<1>6. acc.maxStreak \in Nat
  BY DEF Counters
<1>7. streak \in Nat
  BY <1>3, StreakOfAppend DEF NextStreak
<1>8. /\ FinalAt(z, t).correctCount = acc.correctCount + (IF a.IsCorrect THEN 1 ELSE 0)
      /\ FinalAt(z, t).currentStreak = streak
      /\ FinalAt(z, t).maxStreak = Max({acc.maxStreak, streak})
  BY <1>3, <1>4, <1>5 DEF Round
<1>9. FinalAt(z, t).correctCount = Cardinality({i \in 1..Len(z) : z[i].IsCorrect})
  BY <1>5, <1>8, CorrectOfAppend
<1>10. FinalAt(z, t).currentStreak = CurrentStreak(z)
  BY <1>3, <1>8, StreakOfAppend
<1>11. /\ Max({acc.maxStreak, streak}) \in RunLengths(z)
       /\ \A l \in RunLengths(z) : l <= Max({acc.maxStreak, streak})
  BY <1>3, <1>5, <1>6, <1>7, RunLengthsOfAppend
<1> QED
  BY <1>8, <1>9, <1>10, <1>11

\* A wrong answer is paid nothing, whenever it is scored.
LEMMA WrongScoresNothing ==
  ASSUME NEW a \in Answer, NEW s \in Nat, NEW t \in Nat, ~a.IsCorrect
  PROVE  ScoreAt(a, s, t) = 0
  BY DEF ScoreAt, CalculateScore

\* A score for the same streak is never more at a later time.
LEMMA ScoreShrinks ==
  ASSUME NEW a \in Answer, NEW streak \in Nat, NEW t \in Nat, NEW u \in Nat, t <= u
  PROVE  ScoreAt(a, streak, u) <= ScoreAt(a, streak, t)
<1>1. /\ a.IsCorrect \in BOOLEAN /\ a.SubmittedAt \in Int
      /\ PerQuestionTimeout \in Nat \ {0} /\ PerQuestionTimeout \in Nat
  BY SheetAssumption DEF Answer
<1>2. PICK r \in Int : r = TimeRemaining(PerQuestionTimeout, a.SubmittedAt, t)
  BY <1>1, TimeRemainingOf
<1>3. PICK q \in Int : q = TimeRemaining(PerQuestionTimeout, a.SubmittedAt, u)
  BY <1>1, TimeRemainingOf
<1>4. q <= r
  BY <1>1, <1>2, <1>3, TimeRemainingOf
<1>5. /\ TimeBonus(q, PerQuestionTimeout) <= TimeBonus(r, PerQuestionTimeout)
      /\ TimeBonus(q, PerQuestionTimeout) \in Int /\ TimeBonus(r, PerQuestionTimeout) \in Int
  BY <1>1, <1>4, TimeBonusOf
<1>6. BaseScore \in Nat /\ StreakPoints(streak) \in Nat
  BY ScoringAssumption, StreakPointsOf
<1>7. CASE a.IsCorrect
  <2>1. ScoreAt(a, streak, t) = BaseScore + TimeBonus(r, PerQuestionTimeout) + StreakPoints(streak)
    BY <1>1, <1>2, <1>7, ScoreOf DEF ScoreAt
  <2>2. ScoreAt(a, streak, u) = BaseScore + TimeBonus(q, PerQuestionTimeout) + StreakPoints(streak)
    BY <1>1, <1>3, <1>7, ScoreOf DEF ScoreAt
  <2> QED
    BY <1>5, <1>6, <2>1, <2>2
<1>8. CASE ~a.IsCorrect
  <2>1. ScoreAt(a, streak, t) = 0
    BY <1>8, WrongScoresNothing
  <2>2. ScoreAt(a, streak, u) = 0
    BY <1>8, WrongScoresNothing
  <2> QED
    BY <2>1, <2>2
<1> QED
  BY <1>7, <1>8

LEMMA LaterPaysLessOfAppend ==
  ASSUME NEW s \in Seq(Answer), NEW a \in Answer, LaterPaysLess(s)
  PROVE  LaterPaysLess(Append(s, a))
<1>1. SUFFICES ASSUME NEW t \in Nat, NEW u \in Nat, t <= u
               PROVE  FinalAt(Append(s, a), u).totalScore <= FinalAt(Append(s, a), t).totalScore
  BY DEF LaterPaysLess
<1>2. PICK streak \in Nat : streak = NextStreak(CurrentStreak(s), a.IsCorrect)
  BY StreakOfAppend DEF NextStreak
<1>3. ASSUME NEW v \in Nat
      PROVE  /\ FinalAt(s, v).totalScore \in Nat
             /\ FinalAt(Append(s, a), v).totalScore
                  = FinalAt(s, v).totalScore + ScoreAt(a, streak, v)
  <2>1. FinalAt(s, v) \in Counters /\ FinalAt(Append(s, a), v) = Round(FinalAt(s, v), a, streak, v)
    BY <1>2, FinalOfAppend
  <2> QED
    BY <2>1 DEF Round, Counters
<1>4. FinalAt(s, u).totalScore <= FinalAt(s, t).totalScore
  BY <1>1 DEF LaterPaysLess
<1>5. /\ ScoreAt(a, streak, u) <= ScoreAt(a, streak, t)
      /\ ScoreAt(a, streak, u) \in Nat /\ ScoreAt(a, streak, t) \in Nat
  BY <1>1, ScoreShrinks, ScoreAtOf
<1> QED
  BY <1>3, <1>4, <1>5

LEMMA NothingIsSound == Sound(<<>>)
<1>1. <<>> \in Seq(Answer) /\ Len(<<>>) = 0 /\ 1..0 = {}
  OBVIOUS
<1>2. LastRun(<<>>)
  BY <1>1, StreakOfNothing DEF LastRun
<1>3. {i \in 1..Len(<<>>) : <<>>[i].IsCorrect} = {}
  BY <1>1
<1>4. \A l : l \in RunLengths(<<>>) <=> l = 0
  BY <1>1, RunLengthsOf
<1>5. CountsMatch(<<>>)
  BY <1>3, <1>4, StreakOfNothing, FinalOfNothing, FS_EmptySet DEF CountsMatch, Zero
<1>6. LaterPaysLess(<<>>)
  BY FinalOfNothing DEF LaterPaysLess, Zero
<1> QED
  BY <1>2, <1>5, <1>6 DEF Sound

\* Every sheet is sound, by induction on its length.
LEMMA SheetsAreSound ==
  ASSUME NEW s \in Seq(Answer)
  PROVE  Sound(s)
<1> DEFINE S == {n \in Nat : \A z \in Seq(Answer) : Len(z) = n => Sound(z)}
<1>1. 0 \in S
  <2>1. \A z \in Seq(Answer) : Len(z) = 0 => z = <<>>
    OBVIOUS
  <2> QED
    BY <2>1, NothingIsSound
<1>2. ASSUME NEW n \in Nat, n \in S PROVE n + 1 \in S
  <2>1. SUFFICES ASSUME NEW z \in Seq(Answer), Len(z) = n + 1 PROVE Sound(z)
    OBVIOUS
  <2>2. PICK y \in Seq(Answer) : y = SubSeq(z, 1, n)
    <3>1. n + 1 \in 1..Len(z) /\ (n + 1) - 1 = n
      BY <2>1
    <3> QED
      BY <3>1, PrefixOf
  <2>3. PICK a \in Answer : a = z[n + 1]
    BY <2>1
  <2>4. Len(y) = n /\ z = Append(y, a)
    BY <2>1, <2>2, <2>3
  <2>5. Sound(y)
    BY <1>2, <2>4
  <2> QED
    BY <2>4, <2>5, LastRunOfAppend, CountsOfAppend, LaterPaysLessOfAppend DEF Sound
<1> HIDE DEF S
<1>3. Nat \subseteq S
  BY <1>1, <1>2, Induct
<1>4. Len(s) \in S
  BY <1>3
<1> QED
  BY <1>4 DEF S

-----------------------------------------------------------------------------
(* The points paid on the way *)

\* FinalTracksEarned, for a match that is finalised now or later.
TotalTracksEarned ==
  \A t \in Nat :
    /\ WholeSteps /\ now <= t
         => FinalAt(answers, t).totalScore
              <= earned + FinalAt(answers, t).correctCount * StreakStep
    /\ FinalAt(answers, t).totalScore
         >= earned - FinalAt(answers, t).correctCount * MaxTimeBonus

SheetInv == TypeOK /\ TotalTracksEarned

\* What an answer is paid at time t, when it counts itself in its streak, next to
\* what it was paid when it came in at time at.
LEMMA ScoresCompared ==
  ASSUME NEW a \in Answer, NEW s \in Nat, NEW at \in Nat, NEW t \in Nat, a.IsCorrect
  PROVE  /\ WholeSteps /\ at <= t => ScoreAt(a, s + 1, t) <= ScoreAt(a, s, at) + StreakStep
         /\ ScoreAt(a, s + 1, t) >= ScoreAt(a, s, at) - MaxTimeBonus
<1>1. /\ a.IsCorrect \in BOOLEAN /\ a.SubmittedAt \in Int
      /\ PerQuestionTimeout \in Nat \ {0} /\ PerQuestionTimeout \in Nat
      /\ MaxTimeBonus \in Nat /\ BaseScore \in Nat
  BY SheetAssumption, ScoringAssumption DEF Answer
<1>2. PICK r \in Int : r = TimeRemaining(PerQuestionTimeout, a.SubmittedAt, at)
  <2>1. PICK p \in Nat : p = PerQuestionTimeout
    BY <1>1
  <2>2. PICK x \in Int : x = a.SubmittedAt
    BY <1>1
  <2>3. at \in Int
    OBVIOUS
  <2>4. TimeRemaining(p, x, at) \in Nat
    BY <2>3, TimeRemainingOf
  <2> QED
    BY <2>1, <2>2, <2>4
<1>3. PICK q \in Int : q = TimeRemaining(PerQuestionTimeout, a.SubmittedAt, t)
  <2>1. PICK p \in Nat : p = PerQuestionTimeout
    BY <1>1
  <2>2. PICK x \in Int : x = a.SubmittedAt
    BY <1>1
  <2>3. t \in Int
    OBVIOUS
  <2>4. TimeRemaining(p, x, t) \in Nat
    BY <2>3, TimeRemainingOf
  <2> QED
    BY <2>1, <2>2, <2>4
<1>4. PICK b \in 0..MaxTimeBonus : b = TimeBonus(r, PerQuestionTimeout)
  BY <1>1, TimeBonusOf
<1>5. PICK d \in 0..MaxTimeBonus : d = TimeBonus(q, PerQuestionTimeout)
  BY <1>1, TimeBonusOf
<1>6. at <= t => d <= b
  <2>1. SUFFICES ASSUME at <= t PROVE d <= b
    OBVIOUS
  <2>2. q <= r
    BY <1>1, <1>2, <1>3, <2>1, TimeRemainingOf
  <2> QED
    BY <1>1, <1>4, <1>5, <2>2, TimeBonusOf
<1>7. PICK x \in Nat : x = StreakPoints(s)
  BY StreakPointsOf
<1>8. s + 1 \in Nat
  OBVIOUS
<1>9. PICK y \in Nat : y = StreakPoints(s + 1)
  BY <1>8, StreakPointsOf
<1>10. x <= y /\ StreakStep \in Nat
  BY <1>7, <1>9, StreakPointsOf
<1>11. WholeSteps => y <= x + StreakStep
  BY <1>7, <1>9, StreakPointsOf
<1>12. ScoreAt(a, s, at) = BaseScore + b + x
  BY <1>1, <1>2, <1>4, <1>7, ScoreOf DEF ScoreAt
<1>13. ScoreAt(a, s + 1, t) = BaseScore + d + y
  <2>1. CalculateScore(a.IsCorrect, q, PerQuestionTimeout, s + 1)
          = BaseScore + TimeBonus(q, PerQuestionTimeout) + StreakPoints(s + 1)
    BY DEF CalculateScore, StreakPoints
  <2> QED
    BY <1>3, <1>5, <1>9, <2>1 DEF ScoreAt
<1>14. ScoreAt(a, s + 1, t) >= ScoreAt(a, s, at) - MaxTimeBonus
  BY <1>1, <1>10, <1>12, <1>13
<1>15. WholeSteps /\ at <= t => ScoreAt(a, s + 1, t) <= ScoreAt(a, s, at) + StreakStep
  <2>1. SUFFICES ASSUME WholeSteps, at <= t
                 PROVE  ScoreAt(a, s + 1, t) <= ScoreAt(a, s, at) + StreakStep
    OBVIOUS
  <2>2. d <= b /\ y <= x + StreakStep
    BY <1>6, <1>11, <2>1
  <2> QED
    BY <1>1, <1>10, <1>12, <1>13, <2>2
<1> QED
  BY <1>14, <1>15

\* The answer that Submit appends, and what it is paid.
LEMMA SubmitStep ==
  ASSUME TypeOK, NEW ok \in BOOLEAN, NEW d \in 0..MaxDelay, Submit(ok, d)
  PROVE  \E a \in Answer : /\ answers' = Append(answers, a)
                           /\ earned' = earned + ScoreAt(a, CurrentStreak(answers), now)
<1>1. PICK a : a = [QuestionOrder |-> Len(answers) + 1, IsCorrect |-> ok, SubmittedAt |-> now - d]
  OBVIOUS
<1>2. a.IsCorrect = ok /\ a.SubmittedAt = now - d
  BY <1>1
<1>3. a \in Answer
  <2>1. /\ Len(answers) \in Nat /\ now \in 0..MaxTime
        /\ MaxTime \in Nat /\ MaxAnswers \in Nat /\ MaxDelay \in Nat
    BY SheetAssumption DEF TypeOK
  <2>2. Len(answers) < MaxAnswers /\ d <= now
    BY DEF Submit
  <2>3. Len(answers) + 1 \in 1..MaxAnswers /\ now - d \in 0..MaxTime
    BY <2>1, <2>2
  <2> QED
    BY <1>1, <2>3 DEF Answer
<1>4. answers' = Append(answers, a)
  BY <1>1 DEF Submit
<1>5. earned' = earned + ScoreAt(a, CurrentStreak(answers), now)
  BY <1>2 DEF Submit, ScoreEarned, ScoreAt
<1> QED
  BY <1>3, <1>4, <1>5

LEMMA InitSheet == Init => SheetInv
<1> SUFFICES ASSUME Init PROVE SheetInv
  OBVIOUS
<1>1. answers = <<>> /\ earned = 0 /\ now = 0
  BY DEF Init
<1>2. <<>> \in Seq(Answer) /\ Len(<<>>) = 0
  OBVIOUS
<1>3. TypeOK
  BY <1>1, <1>2, SheetAssumption DEF TypeOK
<1>4. /\ \A t \in Nat : FinalAt(answers, t).totalScore = 0 /\ FinalAt(answers, t).correctCount = 0
      /\ 0 <= 0 + 0 * StreakStep /\ 0 >= 0 - 0 * MaxTimeBonus
  <2>1. StreakStep \in Nat /\ MaxTimeBonus \in Nat
    BY StreakPointsOf, ScoringAssumption
  <2> QED
    BY <1>1, <2>1, FinalOfNothing DEF Zero
<1> QED
  BY <1>1, <1>3, <1>4 DEF SheetInv, TotalTracksEarned

LEMMA SubmitKeeps ==
  ASSUME SheetInv, NEW ok \in BOOLEAN, NEW d \in 0..MaxDelay, Submit(ok, d)
  PROVE  SheetInv'
<1>1. PICK a \in Answer : /\ answers' = Append(answers, a)
                          /\ earned' = earned + ScoreAt(a, CurrentStreak(answers), now)
  BY SubmitStep DEF SheetInv
<1>2. now' = now /\ Len(answers) < MaxAnswers
  BY DEF Submit
<1>3. /\ answers \in Seq(Answer) /\ earned \in Nat /\ now \in 0..MaxTime
      /\ now \in Nat /\ MaxTime \in Nat /\ MaxAnswers \in Nat
  BY SheetAssumption DEF SheetInv, TypeOK
<1>4. PICK s \in Nat : s = CurrentStreak(answers)
  BY <1>1, <1>3, StreakOfAppend
<1>5. PICK p \in Nat : p = ScoreAt(a, s, now)
  BY <1>3, ScoreAtOf
<1>6. earned' = earned + p
  BY <1>1, <1>4, <1>5
<1>7. TypeOK'
  <2>1. Len(answers') = Len(answers) + 1 /\ answers' \in Seq(Answer) /\ Len(answers) \in Nat
    BY <1>1, <1>3, AppendOf
  <2>2. earned' \in Nat
    BY <1>3, <1>6
  <2>3. Len(answers') <= MaxAnswers
    BY <1>2, <1>3, <2>1
  <2> QED
    BY <1>2, <1>3, <2>1, <2>2, <2>3 DEF TypeOK
<1>8. ASSUME NEW t \in Nat
      PROVE  /\ WholeSteps /\ now <= t
                  => FinalAt(answers', t).totalScore
                       <= earned' + FinalAt(answers', t).correctCount * StreakStep
             /\ FinalAt(answers', t).totalScore
                  >= earned' - FinalAt(answers', t).correctCount * MaxTimeBonus
  <2>1. PICK acc \in Counters : acc = FinalAt(answers, t)
    BY <1>3, <1>1, FinalOfAppend
  <2>2. PICK streak \in Nat : streak = NextStreak(s, a.IsCorrect)
    BY DEF NextStreak
  <2>3. PICK w \in Nat : w = ScoreAt(a, streak, t)
    BY ScoreAtOf
  <2>4. FinalAt(answers', t) = Round(acc, a, streak, t)
    BY <1>1, <1>3, <1>4, <2>1, <2>2, FinalOfAppend
  <2>5. /\ FinalAt(answers', t).totalScore = acc.totalScore + w
        /\ FinalAt(answers', t).correctCount = acc.correctCount + (IF a.IsCorrect THEN 1 ELSE 0)
    BY <2>3, <2>4 DEF Round
  <2>6. PICK total \in Nat : total = acc.totalScore
    BY DEF Counters
  <2>7. PICK count \in Nat : count = acc.correctCount
    BY DEF Counters
  <2>8. PICK step \in Nat : step = StreakStep
    BY <1>4, StreakPointsOf
  <2>9. PICK bonus \in Nat : bonus = MaxTimeBonus
    BY ScoringAssumption
  <2>10. /\ WholeSteps /\ now <= t => total <= earned + count * step
         /\ total >= earned - count * bonus
    BY <2>1, <2>6, <2>7, <2>8, <2>9 DEF SheetInv, TotalTracksEarned
  <2>11. CASE a.IsCorrect
    <3>1. streak = s + 1
      BY <2>2, <2>11 DEF NextStreak
    <3>2. /\ WholeSteps /\ now <= t => w <= p + step
          /\ w >= p - bonus
      BY <1>3, <1>5, <2>3, <2>8, <2>9, <2>11, <3>1, ScoresCompared
    <3>3. /\ (count + 1) * step = count * step + step /\ (count + 1) * bonus = count * bonus + bonus
          /\ count * step \in Nat /\ count * bonus \in Nat
      OBVIOUS
    <3>4. /\ FinalAt(answers', t).totalScore = total + w
          /\ FinalAt(answers', t).correctCount = count + 1
      BY <2>5, <2>6, <2>7, <2>11
    <3>5. WholeSteps /\ now <= t => total + w <= (earned + p) + (count + 1) * step
      <4>1. SUFFICES ASSUME WholeSteps, now <= t PROVE total + w <= (earned + p) + (count + 1) * step
        OBVIOUS
      <4>2. total <= earned + count * step /\ w <= p + step
        BY <2>10, <3>2, <4>1
      <4> QED
        BY <1>3, <3>3, <4>2
    <3>6. total + w >= (earned + p) - (count + 1) * bonus
      BY <1>3, <2>10, <3>2, <3>3
    <3> QED
      BY <1>6, <2>8, <2>9, <3>4, <3>5, <3>6
  <2>12. CASE ~a.IsCorrect
    <3>1. w = 0 /\ p = 0
      <4>1. w = 0
        BY <2>3, <2>12, WrongScoresNothing
      <4>2. p = 0
        BY <1>3, <1>5, <2>12, WrongScoresNothing
      <4> QED
        BY <4>1, <4>2
    <3>2. /\ FinalAt(answers', t).totalScore = total
          /\ FinalAt(answers', t).correctCount = count
          /\ earned' = earned
      <4>1. FinalAt(answers', t).totalScore = total /\ earned' = earned
        BY <1>3, <1>6, <2>5, <2>6, <3>1
      <4>2. FinalAt(answers', t).correctCount = count + 0
        BY <2>5, <2>7, <2>12
      <4> QED
        BY <4>1, <4>2
    <3> QED
      BY <2>8, <2>9, <2>10, <3>2
  <2> QED
    BY <2>11, <2>12
<1>9. TotalTracksEarned'
  BY <1>2, <1>8 DEF TotalTracksEarned, FinalAt, WholeSteps, StreakStep
<1> QED
  BY <1>7, <1>9 DEF SheetInv

LEMMA TickKeeps == SheetInv /\ Tick => SheetInv'
<1> SUFFICES ASSUME SheetInv, Tick PROVE SheetInv'
  OBVIOUS
<1>1. answers' = answers /\ earned' = earned /\ now' = now + 1 /\ now < MaxTime
  BY DEF Tick
<1>2. now \in 0..MaxTime /\ MaxTime \in Nat
  BY SheetAssumption DEF SheetInv, TypeOK
<1>3. TypeOK'
  BY <1>1, <1>2 DEF SheetInv, TypeOK
<1>4. \A t \in Nat : now' <= t => now <= t
  BY <1>1, <1>2
<1>5. TotalTracksEarned'
  <2>1. SUFFICES ASSUME NEW t \in Nat
                 PROVE  /\ WholeSteps /\ now' <= t
                             => FinalAt(answers, t).totalScore
                                  <= earned + FinalAt(answers, t).correctCount * StreakStep
                        /\ FinalAt(answers, t).totalScore
                             >= earned - FinalAt(answers, t).correctCount * MaxTimeBonus
    BY <1>1 DEF TotalTracksEarned, FinalAt, WholeSteps, StreakStep
  <2> QED
    BY <1>4 DEF SheetInv, TotalTracksEarned
<1> QED
  BY <1>3, <1>5 DEF SheetInv

LEMMA SheetSafe == Spec => []SheetInv
<1>1. SheetInv /\ UNCHANGED vars => SheetInv'
  BY DEF SheetInv, vars, TypeOK, TotalTracksEarned, FinalAt, WholeSteps, StreakStep
<1>2. SheetInv /\ [Next]_vars => SheetInv'
  BY <1>1, SubmitKeeps, TickKeeps DEF Next
<1> QED
  BY <1>2, InitSheet, PTL DEF Spec

-----------------------------------------------------------------------------
(* Theorems *)

\* The sheet and the points are well typed under every configuration; the points
\* never go below zero.
THEOREM SheetTypeCorrect == Spec => []TypeOK
<1>1. SheetInv => TypeOK
  BY DEF SheetInv
<1> QED
  BY <1>1, SheetSafe, PTL

\* What the match is finalised with is what an independent definition of runs
\* says, for sheets of every length.
THEOREM LoopCountsRuns == Spec => []LoopMatchesRuns
<1>1. TypeOK => LoopMatchesRuns
  <2> SUFFICES ASSUME TypeOK PROVE LoopMatchesRuns
    OBVIOUS
  <2>1. answers \in Seq(Answer) /\ now \in Nat
    BY SheetAssumption DEF TypeOK
  <2>2. PICK m : m = FinalAt(answers, now).maxStreak
    OBVIOUS
  <2>3. /\ FinalAt(answers, now).correctCount
             = Cardinality({i \in 1..Len(answers) : answers[i].IsCorrect})
        /\ m \in RunLengths(answers)
        /\ \A l \in RunLengths(answers) : l <= m
    BY <2>1, <2>2, SheetsAreSound DEF Sound, CountsMatch
  <2>4. RunLengths(answers) \in SUBSET Int
    <3>1. \A l \in RunLengths(answers) : l \in Int
      BY <2>1, RunLengthsOf
    <3> QED
      BY <3>1
  <2>5. \A l \in RunLengths(answers) : m >= l
    BY <2>3, <2>4
  <2>6. Max(RunLengths(answers)) = m
    BY <2>3, <2>4, <2>5, MaxIs
  <2>7. CorrectRuns = RunsOf(answers)
    BY DEF CorrectRuns, RunsOf, Intervals
  <2>8. {0} \cup {r[2] - r[1] + 1 : r \in CorrectRuns} = RunLengths(answers)
    BY <2>7 DEF RunLengths
  <2>9. /\ Final.correctCount = FinalAt(answers, now).correctCount
        /\ Final.streakBonusPct = StreakPercent(m)
    BY <2>2 DEF Final, ComputeFinalScore, FinalAt
  <2> QED
    BY <2>3, <2>6, <2>8, <2>9 DEF LoopMatchesRuns
<1> QED
  BY <1>1, SheetTypeCorrect, PTL

\* The total of a match stays within the time bonuses and one streak step per
\* correct answer of the points its answers were paid, whenever it is finalised.
\* The assumption holds under the code's configuration, 100 points and 5%.
THEOREM FinalStaysNearEarned ==
  ASSUME (BaseScore * StreakBonusPercent) % 100 = 0
  PROVE  Spec => []FinalTracksEarned
<1>1. WholeSteps
  BY DEF WholeSteps
<1>2. SheetInv => FinalTracksEarned
  <2> SUFFICES ASSUME SheetInv PROVE FinalTracksEarned
    OBVIOUS
  <2>1. now \in Nat /\ now <= now
    BY SheetAssumption DEF SheetInv, TypeOK
  <2>2. /\ FinalAt(answers, now).totalScore <= earned + FinalAt(answers, now).correctCount * StreakStep
        /\ FinalAt(answers, now).totalScore >= earned - FinalAt(answers, now).correctCount * MaxTimeBonus
    BY <1>1, <2>1 DEF SheetInv, TotalTracksEarned
  <2>3. /\ Final.correctCount = FinalAt(answers, now).correctCount
        /\ Final.totalScore = FinalAt(answers, now).totalScore
    BY DEF Final, ComputeFinalScore, FinalAt
  <2> QED
    BY <2>2, <2>3 DEF FinalTracksEarned, StreakStep
<1> QED
  BY <1>2, SheetSafe, PTL

\* Finalising a match later, or again, never pays more while no answer comes in.
THEOREM WaitingNeverPays == Spec => WaitingOnlyCosts
<1>1. TypeOK /\ TypeOK' /\ [Next]_vars
        => (answers' = answers => Final'.totalScore <= Final.totalScore)
  <2> SUFFICES ASSUME TypeOK, TypeOK', [Next]_vars, answers' = answers
               PROVE  Final'.totalScore <= Final.totalScore
    OBVIOUS
  <2>1. answers \in Seq(Answer) /\ now \in Nat /\ now' \in Nat
    BY SheetAssumption DEF TypeOK
  <2>2. now <= now'
    <3>1. CASE Tick
      BY <2>1, <3>1 DEF Tick
    <3>2. ASSUME NEW ok \in BOOLEAN, NEW d \in 0..MaxDelay, Submit(ok, d) PROVE now <= now'
      BY <2>1, <3>2 DEF Submit
    <3>3. CASE UNCHANGED vars
      BY <2>1, <3>3 DEF vars
    <3> QED
      BY <3>1, <3>2, <3>3 DEF Next
  <2>3. FinalAt(answers, now').totalScore <= FinalAt(answers, now).totalScore
    BY <2>1, <2>2, SheetsAreSound DEF Sound, LaterPaysLess
  <2>4. Final.totalScore = FinalAt(answers, now).totalScore
    BY DEF Final, ComputeFinalScore, FinalAt
  <2>5. Final'.totalScore = FinalAt(answers, now').totalScore
    BY DEF Final, ComputeFinalScore, FinalAt
  <2> QED
    BY <2>3, <2>4, <2>5
<1> QED
  BY <1>1, SheetTypeCorrect, PTL DEF Spec, WaitingOnlyCosts
=============================================================================
