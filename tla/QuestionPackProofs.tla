------------------------- MODULE QuestionPackProofs -------------------------
(***************************************************************************)
(* Proofs about module QuestionPack, for every pool, generator, pack size, *)
(* number of players and number of matches created at the same time: the   *)
(* types, the bound on repeated questions, and that a rebuilt pack is      *)
(* fresh.  What the loops over questions compute is proved by induction on *)
(* the number of questions they have looked at.                            *)
(***************************************************************************)
EXTENDS QuestionPack, FiniteSetTheorems, WellFoundedInduction, TLAPS

-----------------------------------------------------------------------------
(* Induction *)

\* A set of naturals that is not empty has a smallest member.
LEMMA SmallestIn ==
  ASSUME NEW T \in SUBSET Nat, T # {}
  PROVE  \E x \in T : \A y \in T : x <= y
<1>1. IsWellFoundedOn(OpToRel(<, Nat), Nat)
  BY NatLessThanWellFounded
<1>2. PICK x \in T : \A y \in T : ~ (<<y, x>> \in OpToRel(<, Nat))
  BY <1>1, WFMin
<1>3. \A y \in T : ~ (y < x)
  BY <1>2 DEF OpToRel
<1> QED
  BY <1>3

\* A set that holds zero and is closed under successor holds every natural.
LEMMA Induct ==
  ASSUME NEW S, 0 \in S, \A n \in Nat : n \in S => n + 1 \in S
  PROVE  Nat \subseteq S
<1>1. SUFFICES ASSUME Nat \ S # {} PROVE FALSE
  OBVIOUS
<1>2. PICK x \in Nat \ S : \A y \in Nat \ S : x <= y
  BY <1>1, SmallestIn
<1>3. x # 0 /\ x - 1 \in Nat
  BY <1>2
<1>4. x - 1 \in S
  BY <1>2, <1>3
<1>5. (x - 1) + 1 \in S
  BY <1>3, <1>4
<1> QED
  BY <1>2, <1>5

\* A loop of n rounds that starts with c and goes from one value of A to the
\* next has a value after every round.
Loop(A, c, step, n) ==
  {f \in [0..n -> A] : f[0] = c /\ \A i \in 1..n : f[i] = step[<<f[i - 1], i>>]}

LEMMA LoopExists ==
  ASSUME NEW A, NEW c \in A, NEW n \in Nat, NEW step \in [A \X (1..n) -> A]
  PROVE  \E f : f \in Loop(A, c, step, n)
<1> DEFINE S == {k \in Nat : k <= n => \E f : f \in Loop(A, c, step, k)}
<1>1. 0 \in S
  <2>1. [i \in 0..0 |-> c] \in Loop(A, c, step, 0)
    BY DEF Loop
  <2> QED
    BY <2>1
<1>2. ASSUME NEW k \in Nat, k \in S PROVE k + 1 \in S
  <2>1. SUFFICES ASSUME k + 1 <= n PROVE \E f : f \in Loop(A, c, step, k + 1)
    BY DEF S
  <2>2. PICK f : f \in Loop(A, c, step, k)
    BY <1>2, <2>1
  <2>3. /\ f \in [0..k -> A] /\ f[0] = c
        /\ \A i \in 1..k : f[i] = step[<<f[i - 1], i>>]
    BY <2>2 DEF Loop
  <2>4. PICK v \in A : v = step[<<f[k], k + 1>>]
    <3>1. f[k] \in A /\ k + 1 \in 1..n
      BY <2>1, <2>3
    <3> QED
      BY <3>1
  <2>5. PICK g : g = [i \in 0..(k + 1) |-> IF i = k + 1 THEN v ELSE f[i]]
    OBVIOUS
  <2>6. g \in [0..(k + 1) -> A]
    BY <2>3, <2>5
  <2>7. g[k + 1] = v /\ \A i \in 0..k : g[i] = f[i]
    BY <2>5
  <2>8. \A i \in 1..(k + 1) : g[i] = step[<<g[i - 1], i>>]
    <3> SUFFICES ASSUME NEW i \in 1..(k + 1) PROVE g[i] = step[<<g[i - 1], i>>]
      OBVIOUS
    <3>1. CASE i = k + 1
      <4>1. i - 1 = k /\ k \in 0..k
        BY <3>1
      <4> QED
        BY <2>4, <2>7, <3>1, <4>1
    <3>2. CASE i # k + 1
      <4>1. i \in 1..k /\ i - 1 \in 0..k /\ i \in 0..k
        BY <3>2
      <4> QED
        BY <2>3, <2>7, <4>1
    <3> QED
      BY <3>1, <3>2
  <2>9. g[0] = c
    BY <2>3, <2>7
  <2> QED
    BY <2>6, <2>8, <2>9 DEF Loop
<1> HIDE DEF S
<1>3. Nat \subseteq S
  BY <1>1, <1>2, Induct
<1> QED
  BY <1>3 DEF S
\* Two loops of the same start and step agree after every round.
LEMMA LoopUnique ==
  ASSUME NEW A, NEW c, NEW n \in Nat, NEW step, NEW f, NEW g \in Loop(A, c, step, n),
         f[0] = c, \A i \in 1..n : f[i - 1] \in A => f[i] = step[<<f[i - 1], i>>]
  PROVE  f[n] = g[n]
<1> DEFINE S == {k \in Nat : k <= n => f[k] = g[k]}
<1>1. /\ g \in [0..n -> A] /\ g[0] = c
      /\ \A i \in 1..n : g[i] = step[<<g[i - 1], i>>]
  BY DEF Loop
<1>2. 0 \in S
  BY <1>1
<1>3. ASSUME NEW k \in Nat, k \in S PROVE k + 1 \in S
  <2>1. SUFFICES ASSUME k + 1 <= n PROVE f[k + 1] = g[k + 1]
    OBVIOUS
  <2>2. f[k] = g[k] /\ g[k] \in A /\ k + 1 \in 1..n /\ (k + 1) - 1 = k
    BY <1>1, <1>3, <2>1
  <2>3. g[k + 1] = step[<<g[k], k + 1>>]
    BY <1>1, <2>2
  <2>4. f[k + 1] = step[<<f[k], k + 1>>]
    BY <2>2
  <2> QED
    BY <2>2, <2>3, <2>4
<1> HIDE DEF S
<1>4. Nat \subseteq S
  BY <1>2, <1>3, Induct
<1> QED
  BY <1>4 DEF S

\* What the start has and every round keeps, the result has.
LEMMA LoopInvariant ==
  ASSUME NEW n \in Nat, NEW f, NEW T, f[0] \in T, \A i \in 1..n : f[i - 1] \in T => f[i] \in T
  PROVE  f[n] \in T
<1> DEFINE S == {k \in Nat : k <= n => f[k] \in T}
<1>1. 0 \in S
  OBVIOUS
<1>2. ASSUME NEW k \in Nat, k \in S PROVE k + 1 \in S
  <2>1. SUFFICES ASSUME k + 1 <= n PROVE f[k + 1] \in T
    OBVIOUS
  <2>2. f[k] \in T /\ k + 1 \in 1..n /\ (k + 1) - 1 = k
    BY <1>2, <2>1
  <2> QED
    BY <2>2
<1> HIDE DEF S
<1>3. Nat \subseteq S
  BY <1>1, <1>2, Induct
<1> QED
  BY <1>3 DEF S

-----------------------------------------------------------------------------
(* The loops over questions *)

\* The packs a filter goes through.
KeepRounds(A, pack, S) ==
  {f \in [0..Len(pack) -> Seq(A)] :
     /\ f[0] = <<>> /\ f[Len(pack)] = Keep(pack, S)
     /\ \A i \in 1..Len(pack) :
          f[i] = IF pack[i] \in S THEN Append(f[i - 1], pack[i]) ELSE f[i - 1]}

LEMMA KeepIsLoop ==
  ASSUME NEW A, NEW pack \in Seq(A), NEW S
  PROVE  \E f : f \in KeepRounds(A, pack, S)
<1>1. PICK n \in Nat : n = Len(pack)
  OBVIOUS
<1>2. PICK step : step = [x \in Seq(A) \X (1..n) |->
                            IF pack[x[2]] \in S THEN Append(x[1], pack[x[2]]) ELSE x[1]]
  OBVIOUS
<1>3. step \in [Seq(A) \X (1..n) -> Seq(A)]
  <2>1. \A x \in Seq(A) \X (1..n) : x[1] \in Seq(A) /\ pack[x[2]] \in A
    BY <1>1
  <2> QED
    BY <1>2, <2>1
<1>4. \A p \in Seq(A), i \in 1..n :
         step[<<p, i>>] = IF pack[i] \in S THEN Append(p, pack[i]) ELSE p
  BY <1>2
<1>5. <<>> \in Seq(A)
  OBVIOUS
<1>6. PICK f : f \in Loop(Seq(A), <<>>, step, n)
  BY <1>3, <1>5, LoopExists
<1>7. /\ f \in [0..n -> Seq(A)] /\ f[0] = <<>>
      /\ \A i \in 1..n : f[i] = step[<<f[i - 1], i>>]
  BY <1>6 DEF Loop
<1>8. \A i \in 1..n : f[i - 1] \in Seq(A)
  BY <1>7
<1>9. \A i \in 1..n : f[i] = IF pack[i] \in S THEN Append(f[i - 1], pack[i]) ELSE f[i - 1]
  BY <1>4, <1>7, <1>8
<1> DEFINE Rounds(h) ==
      [k \in 0..Len(pack) |->
         IF k = 0 THEN <<>>
         ELSE LET p == h[k - 1] IN IF pack[k] \in S THEN Append(p, pack[k]) ELSE p]
<1>10. f = Rounds(f)
  <2>1. \A k \in 0..n : f[k] = Rounds(f)[k]
    <3> SUFFICES ASSUME NEW k \in 0..n PROVE f[k] = Rounds(f)[k]
      OBVIOUS
    <3>1. CASE k = 0
      BY <1>1, <1>7, <3>1
    <3>2. CASE k # 0
      <4>1. k \in 1..n
        BY <3>2
      <4> QED
        BY <1>1, <1>9, <3>2, <4>1
    <3> QED
      BY <3>1, <3>2
  <2> QED
    BY <1>1, <1>7, <2>1
<1>11. PICK h : h = CHOOSE g : g = Rounds(g)
  OBVIOUS
<1>12. h = Rounds(h)
  BY <1>10, <1>11
<1>13. Keep(pack, S) = h[Len(pack)]
  BY <1>11 DEF Keep
<1>14. h[0] = <<>>
  <2>1. 0 \in 0..Len(pack)
    BY <1>1
  <2>2. h[0] = Rounds(h)[0]
    BY <1>12
  <2> QED
    BY <2>1, <2>2
<1>15. \A i \in 1..n : h[i] = IF pack[i] \in S THEN Append(h[i - 1], pack[i]) ELSE h[i - 1]
  <2> SUFFICES ASSUME NEW i \in 1..n
               PROVE  h[i] = IF pack[i] \in S THEN Append(h[i - 1], pack[i]) ELSE h[i - 1]
    OBVIOUS
  <2>1. i \in 0..Len(pack) /\ i # 0
    BY <1>1
  <2>2. h[i] = Rounds(h)[i]
    BY <1>12
  <2> QED
    BY <2>1, <2>2
<1> HIDE DEF Rounds
<1>16. \A i \in 1..n : h[i - 1] \in Seq(A) => h[i] = step[<<h[i - 1], i>>]
  BY <1>4, <1>15
<1>17. h[n] = f[n]
  BY <1>6, <1>14, <1>16, LoopUnique
<1> QED
  BY <1>1, <1>7, <1>9, <1>13, <1>17 DEF KeepRounds

\* The packs TakeNew goes through.
LEMMA TakeIsLoop ==
  ASSUME NEW A, NEW pack \in Seq(A), NEW batch \in Seq(A)
  PROVE  \E f \in [0..Len(batch) -> Seq(A)] :
           /\ f[0] = pack /\ f[Len(batch)] = TakeNew(pack, batch)
           /\ \A i \in 1..Len(batch) :
                f[i] = IF batch[i] \in ToSet(f[i - 1]) \/ Len(f[i - 1]) >= TotalQuestions
                         THEN f[i - 1] ELSE Append(f[i - 1], batch[i])
<1>1. PICK n \in Nat : n = Len(batch)
  OBVIOUS
<1>2. PICK step : step = [x \in Seq(A) \X (1..n) |->
                            IF batch[x[2]] \in ToSet(x[1]) \/ Len(x[1]) >= TotalQuestions
                              THEN x[1] ELSE Append(x[1], batch[x[2]])]
  OBVIOUS
<1>3. step \in [Seq(A) \X (1..n) -> Seq(A)]
  <2>1. \A x \in Seq(A) \X (1..n) : x[1] \in Seq(A) /\ batch[x[2]] \in A
    BY <1>1
  <2> QED
    BY <1>2, <2>1
<1>4. \A p \in Seq(A), i \in 1..n :
         step[<<p, i>>] = IF batch[i] \in ToSet(p) \/ Len(p) >= TotalQuestions THEN p ELSE Append(p, batch[i])
  BY <1>2
<1>5. pack \in Seq(A)
  OBVIOUS
<1>6. PICK f : f \in Loop(Seq(A), pack, step, n)
  BY <1>3, <1>5, LoopExists
<1>7. /\ f \in [0..n -> Seq(A)] /\ f[0] = pack
      /\ \A i \in 1..n : f[i] = step[<<f[i - 1], i>>]
  BY <1>6 DEF Loop
<1>8. \A i \in 1..n : f[i - 1] \in Seq(A)
  BY <1>7
<1>9. \A i \in 1..n : f[i] = IF batch[i] \in ToSet(f[i - 1]) \/ Len(f[i - 1]) >= TotalQuestions
                         THEN f[i - 1] ELSE Append(f[i - 1], batch[i])
  BY <1>4, <1>7, <1>8
<1> DEFINE Rounds(h) ==
      [k \in 0..Len(batch) |->
         IF k = 0 THEN pack
         ELSE LET p == h[k - 1]
              IN  IF batch[k] \in ToSet(p) \/ Len(p) >= TotalQuestions THEN p ELSE Append(p, batch[k])]
<1>10. f = Rounds(f)
  <2>1. \A k \in 0..n : f[k] = Rounds(f)[k]
    <3> SUFFICES ASSUME NEW k \in 0..n PROVE f[k] = Rounds(f)[k]
      OBVIOUS
    <3>1. CASE k = 0
      BY <1>1, <1>7, <3>1
    <3>2. CASE k # 0
      <4>1. k \in 1..n
        BY <3>2
      <4> QED
        BY <1>1, <1>9, <3>2, <4>1
    <3> QED
      BY <3>1, <3>2
  <2> QED
    BY <1>1, <1>7, <2>1
<1>11. PICK h : h = CHOOSE g : g = Rounds(g)
  OBVIOUS
<1>12. h = Rounds(h)
  BY <1>10, <1>11
<1>13. TakeNew(pack, batch) = h[Len(batch)]
  BY <1>11 DEF TakeNew
<1>14. h[0] = pack
  <2>1. 0 \in 0..Len(batch)
    BY <1>1
  <2>2. h[0] = Rounds(h)[0]
    BY <1>12
  <2> QED
    BY <2>1, <2>2
<1>15. \A i \in 1..n : h[i] = IF batch[i] \in ToSet(h[i - 1]) \/ Len(h[i - 1]) >= TotalQuestions
                         THEN h[i - 1] ELSE Append(h[i - 1], batch[i])
  <2> SUFFICES ASSUME NEW i \in 1..n
               PROVE  h[i] = IF batch[i] \in ToSet(h[i - 1]) \/ Len(h[i - 1]) >= TotalQuestions
                         THEN h[i - 1] ELSE Append(h[i - 1], batch[i])
    OBVIOUS
  <2>1. i \in 0..Len(batch) /\ i # 0
    BY <1>1
  <2>2. h[i] = Rounds(h)[i]
    BY <1>12
  <2> QED
    BY <2>1, <2>2
<1> HIDE DEF Rounds
<1>16. \A i \in 1..n : h[i - 1] \in Seq(A) => h[i] = step[<<h[i - 1], i>>]
  BY <1>4, <1>15
<1>17. h[n] = f[n]
  BY <1>6, <1>14, <1>16, LoopUnique
<1> QED
  BY <1>1, <1>7, <1>9, <1>13, <1>17

\* What a question appended to a pack adds to it.
LEMMA ToSetAppend ==
  ASSUME NEW A, NEW p \in Seq(A), NEW q \in A
  PROVE  ToSet(Append(p, q)) = ToSet(p) \cup {q}
<1>1. /\ Len(p) \in Nat /\ DOMAIN p = 1..Len(p) /\ DOMAIN Append(p, q) = 1..(Len(p) + 1)
      /\ \A i \in 1..Len(p) : Append(p, q)[i] = p[i]
      /\ Append(p, q)[Len(p) + 1] = q
  OBVIOUS
<1>2. 1..(Len(p) + 1) = (1..Len(p)) \cup {Len(p) + 1}
  BY <1>1
<1> QED
  BY <1>1, <1>2 DEF ToSet

\* A new question does not repeat one of the pack.
LEMMA InjectiveAppend ==
  ASSUME NEW A, NEW p \in Seq(A), NEW q \in A, q \notin ToSet(p), IsInjective(p)
  PROVE  IsInjective(Append(p, q))
<1>1. /\ Len(p) \in Nat /\ DOMAIN p = 1..Len(p) /\ DOMAIN Append(p, q) = 1..(Len(p) + 1)
      /\ \A i \in 1..Len(p) : Append(p, q)[i] = p[i]
      /\ Append(p, q)[Len(p) + 1] = q
  OBVIOUS
<1>2. 1..(Len(p) + 1) = (1..Len(p)) \cup {Len(p) + 1}
  BY <1>1
<1>3. \A i \in 1..Len(p) : p[i] # q
  BY <1>1 DEF ToSet
<1> QED
  BY <1>1, <1>2, <1>3 DEF IsInjective

\* A filter keeps what is in S, and nothing that was not in the pack.
LEMMA KeepProperties ==
  ASSUME NEW A, NEW pack \in Seq(A), NEW S
  PROVE  Keep(pack, S) \in Seq(A) /\ ToSet(Keep(pack, S)) \subseteq S \cap ToSet(pack)
<1>1. PICK f \in [0..Len(pack) -> Seq(A)] :
         /\ f[0] = <<>> /\ f[Len(pack)] = Keep(pack, S)
         /\ \A i \in 1..Len(pack) :
              f[i] = IF pack[i] \in S THEN Append(f[i - 1], pack[i]) ELSE f[i - 1]
  <2>1. PICK f : f \in KeepRounds(A, pack, S)
    BY KeepIsLoop
  <2> QED
    BY <2>1 DEF KeepRounds
<1> DEFINE T == {p \in Seq(A) : ToSet(p) \subseteq S \cap ToSet(pack)}
<1>2. Len(pack) \in Nat /\ DOMAIN pack = 1..Len(pack)
  OBVIOUS
<1>3. f[0] \in T
  BY <1>1 DEF ToSet
<1>4. \A i \in 1..Len(pack) : f[i - 1] \in T => f[i] \in T
  <2> SUFFICES ASSUME NEW i \in 1..Len(pack), f[i - 1] \in T, pack[i] \in S PROVE Append(f[i - 1], pack[i]) \in T
    BY <1>1
  <2>1. PICK p \in Seq(A) : p = f[i - 1]
    OBVIOUS
  <2>2. pack[i] \in A /\ pack[i] \in ToSet(pack)
    BY <1>2 DEF ToSet
  <2>3. ToSet(Append(p, pack[i])) = ToSet(p) \cup {pack[i]}
    BY <2>2, ToSetAppend
  <2> QED
    BY <2>1, <2>2, <2>3
<1> HIDE DEF T
<1>5. f[Len(pack)] \in T
  BY <1>2, <1>3, <1>4, LoopInvariant
<1> QED
  BY <1>1, <1>5 DEF T

\* TakeNew adds questions of the batch, each of them once.
LEMMA TakeNewProperties ==
  ASSUME NEW A, NEW pack \in Seq(A), NEW batch \in Seq(A)
  PROVE  /\ TakeNew(pack, batch) \in Seq(A)
         /\ ToSet(TakeNew(pack, batch)) \subseteq ToSet(pack) \cup ToSet(batch)
         /\ IsInjective(pack) => IsInjective(TakeNew(pack, batch))
<1>1. PICK f \in [0..Len(batch) -> Seq(A)] :
         /\ f[0] = pack /\ f[Len(batch)] = TakeNew(pack, batch)
         /\ \A i \in 1..Len(batch) :
              f[i] = IF batch[i] \in ToSet(f[i - 1]) \/ Len(f[i - 1]) >= TotalQuestions
                       THEN f[i - 1] ELSE Append(f[i - 1], batch[i])
  BY TakeIsLoop
<1> DEFINE T == {p \in Seq(A) : /\ ToSet(p) \subseteq ToSet(pack) \cup ToSet(batch)
                                /\ IsInjective(pack) => IsInjective(p)}
<1>2. Len(batch) \in Nat /\ DOMAIN batch = 1..Len(batch)
  OBVIOUS
<1>3. f[0] \in T
  BY <1>1
<1>4. \A i \in 1..Len(batch) : f[i - 1] \in T => f[i] \in T
  <2> SUFFICES ASSUME NEW i \in 1..Len(batch), f[i - 1] \in T, batch[i] \notin ToSet(f[i - 1])
               PROVE  Append(f[i - 1], batch[i]) \in T
    BY <1>1
  <2>1. PICK p \in Seq(A) : p = f[i - 1]
    OBVIOUS
  <2>2. batch[i] \in A /\ batch[i] \in ToSet(batch)
    BY <1>2 DEF ToSet
  <2>3. ToSet(Append(p, batch[i])) = ToSet(p) \cup {batch[i]}
    BY <2>2, ToSetAppend
  <2>4. IsInjective(p) => IsInjective(Append(p, batch[i]))
    BY <2>1, <2>2, InjectiveAppend
  <2> QED
    BY <2>1, <2>2, <2>3, <2>4
<1> HIDE DEF T
<1>5. f[Len(batch)] \in T
  BY <1>2, <1>3, <1>4, LoopInvariant
<1> QED
  BY <1>1, <1>5 DEF T

-----------------------------------------------------------------------------
(* Counting repeats *)

\* The number of repeats is a natural, bounded as the positions are.
LEMMA RepeatsType ==
  ASSUME NEW pack \in Seq(Ids), NEW S
  PROVE  /\ IsFiniteSet({i \in DOMAIN pack : pack[i] \in S})
         /\ Repeats(pack, S) \in Nat
<1>1. Len(pack) \in Nat /\ DOMAIN pack = 1..Len(pack)
  OBVIOUS
<1>2. IsFiniteSet(1..Len(pack))
  BY <1>1, FS_Interval
<1>3. IsFiniteSet({i \in DOMAIN pack : pack[i] \in S})
  BY <1>1, <1>2, FS_Subset
<1> QED
  BY <1>3, FS_CardinalityType DEF Repeats

\* A pack without a question of S repeats none of them.
LEMMA RepeatsNone ==
  ASSUME NEW pack, NEW S, ToSet(pack) \cap S = {}
  PROVE  Repeats(pack, S) = 0
<1>1. {i \in DOMAIN pack : pack[i] \in S} = {}
  BY DEF ToSet
<1> QED
  BY <1>1, FS_EmptySet DEF Repeats

\* A pack whose repeats of S can be traced, one by one, to repeats of T in
\* another pack has no more of them.
LEMMA RepeatsTraced ==
  ASSUME NEW p \in Seq(Ids), NEW r \in Seq(Ids), NEW S, NEW T, NEW f,
         f \in [{i \in DOMAIN p : p[i] \in S} -> {j \in DOMAIN r : r[j] \in T}], IsInjective(f)
  PROVE  Repeats(p, S) <= Repeats(r, T)
<1>1. PICK P : P = {i \in DOMAIN p : p[i] \in S}
  OBVIOUS
<1>2. PICK R : R = {j \in DOMAIN r : r[j] \in T}
  OBVIOUS
<1>3. f \in Injection(P, R)
  BY <1>1, <1>2 DEF Injection
<1>4. IsFiniteSet(R)
  BY <1>2, RepeatsType
<1>5. Cardinality(P) <= Cardinality(R)
  BY <1>3, <1>4, FS_Injection
<1> QED
  BY <1>1, <1>2, <1>5 DEF Repeats

\* Fewer questions to compare with, fewer repeats.
LEMMA RepeatsMonotonic ==
  ASSUME NEW p \in Seq(Ids), NEW S, NEW T, S \subseteq T
  PROVE  Repeats(p, S) <= Repeats(p, T)
<1> DEFINE P == {i \in DOMAIN p : p[i] \in S}
           f == [i \in P |-> i]
<1>1. f \in [P -> {j \in DOMAIN p : p[j] \in T}] /\ IsInjective(f)
  BY DEF IsInjective
<1> QED
  BY <1>1, RepeatsTraced

\* Each question of S in p is one of r, and p has it once: p repeats no more
\* than r does.
LEMMA RepeatsOnce ==
  ASSUME NEW p \in Seq(Ids), NEW r \in Seq(Ids), NEW S,
         \A i \in DOMAIN p : p[i] \in S => p[i] \in ToSet(r),
         \A i, j \in DOMAIN p : p[i] \in S /\ p[i] = p[j] => i = j
  PROVE  Repeats(p, S) <= Repeats(r, S)
<1> DEFINE P == {i \in DOMAIN p : p[i] \in S}
           R == {j \in DOMAIN r : r[j] \in S}
           f == [i \in P |-> CHOOSE j \in DOMAIN r : r[j] = p[i]]
<1>1. \A i \in P : f[i] \in R /\ r[f[i]] = p[i]
  <2> SUFFICES ASSUME NEW i \in P PROVE f[i] \in R /\ r[f[i]] = p[i]
    OBVIOUS
  <2>1. \E j \in DOMAIN r : r[j] = p[i]
    BY DEF ToSet
  <2>2. f[i] = CHOOSE j \in DOMAIN r : r[j] = p[i]
    OBVIOUS
  <2> HIDE DEF f
  <2>3. f[i] \in DOMAIN r /\ r[f[i]] = p[i]
    BY <2>1, <2>2
  <2> QED
    BY <2>3
<1>2. DOMAIN f = P
  OBVIOUS
<1>3. f = [i \in P |-> f[i]]
  OBVIOUS
<1> HIDE DEF f
<1>4. f \in [P -> R]
  BY <1>1, <1>3
<1>5. IsInjective(f)
  BY <1>1, <1>2 DEF IsInjective
<1> QED
  BY <1>4, <1>5, RepeatsTraced

\* maxDup is at least the repeats of either player.
LEMMA MaxRepeatsBounds ==
  ASSUME NEW s, s.result \in Seq(Ids)
  PROVE  /\ MaxRepeats(s) \in Nat
         /\ \A i \in {1, 2} : Repeats(s.result, hist[s.users[i]]) <= MaxRepeats(s)
<1>1. PICK a \in Nat : a = Repeats(s.result, hist[s.users[1]])
  BY RepeatsType
<1>2. PICK b \in Nat : b = Repeats(s.result, hist[s.users[2]])
  BY RepeatsType
<1>3. {Repeats(s.result, hist[s.users[i]]) : i \in {1, 2}} = {a, b}
  BY <1>1, <1>2
<1>4. MaxRepeats(s) = CHOOSE k \in {a, b} : \A m \in {a, b} : m <= k
  BY <1>3 DEF MaxRepeats
<1>5. \E k \in {a, b} : \A m \in {a, b} : m <= k
  BY a <= b \/ b <= a
<1>6. MaxRepeats(s) \in {a, b} /\ \A m \in {a, b} : m <= MaxRepeats(s)
  BY <1>4, <1>5
<1> QED
  BY <1>1, <1>2, <1>6

-----------------------------------------------------------------------------
(* Packs of full size *)

\* What is left of a pack that is cut to size.
LEMMA CutProperties ==
  ASSUME NEW pack \in Seq(Ids), Len(pack) >= TotalQuestions, NEW cut,
         cut = SubSeq(pack, 1, TotalQuestions)
  PROVE  /\ cut \in Seq(Ids) /\ Len(cut) = TotalQuestions
         /\ ToSet(cut) \subseteq ToSet(pack)
         /\ IsInjective(pack) => IsInjective(cut)
         /\ \A S : Repeats(cut, S) <= Repeats(pack, S)
<1>1. /\ TotalQuestions \in Nat /\ Len(pack) \in Nat /\ DOMAIN pack = 1..Len(pack)
      /\ \A i \in DOMAIN pack : pack[i] \in Ids
  BY PackAssumption
<1>2. cut = [i \in 1..TotalQuestions |-> pack[i]]
  BY <1>1
<1>3. cut \in Seq(Ids) /\ Len(cut) = TotalQuestions
  BY <1>1, <1>2
<1>4. DOMAIN cut = 1..TotalQuestions /\ DOMAIN cut \subseteq DOMAIN pack /\ \A i \in DOMAIN cut : cut[i] = pack[i]
  BY <1>1, <1>2
<1>5. ToSet(cut) \subseteq ToSet(pack)
  BY <1>4 DEF ToSet
<1>6. IsInjective(pack) => IsInjective(cut)
  BY <1>4 DEF IsInjective
<1>7. ASSUME NEW S PROVE Repeats(cut, S) <= Repeats(pack, S)
  <2> DEFINE P == {i \in DOMAIN cut : cut[i] \in S}
             f == [i \in P |-> i]
  <2>1. f \in [P -> {j \in DOMAIN pack : pack[j] \in S}] /\ IsInjective(f)
    BY <1>4 DEF IsInjective
  <2> QED
    BY <1>3, <2>1, RepeatsTraced
<1> QED
  BY <1>3, <1>5, <1>6, <1>7

-----------------------------------------------------------------------------
(* The inductive invariant *)

USE DEF Saving

\* The shape of a call: only a pair of players has histories, which are read, and
\* compared with a pack of full size, at the steps of a random match.
WellFormed(s) ==
  /\ s \in Call
  /\ s.users \in Pairs \cup {<<>>}
  /\ s.asked \in [DOMAIN s.users -> SUBSET Ids]
  /\ s.step \in {"history", "regenerate", "check"} \cup Saving => s.users \in Pairs
  /\ s.step = "built" => s.users = <<>>
  /\ s.step = "check" => s.batch \in Seq(Generated) /\ s.batch # <<>>
  /\ s.step \in {"history", "built"} \cup Saving => Len(s.result) = TotalQuestions

\* While the pack is chosen, what a player had been asked when the call began, and
\* no expiry took away, is still in the history.
HistoriesRemember(s, h) ==
  s.step \notin Saving => \A i \in DOMAIN s.users : s.asked[i] \subseteq h[s.users[i]]

\* A pack is rebuilt between two checks, and is fresh all the while.
FreshSoFar(s) ==
  /\ s.fresh => s.step \in {"regenerate", "check"} \cup Saving
  /\ s.step \in {"regenerate", "check"} => s.fresh
  /\ s.fresh => /\ IsInjective(s.result)
                /\ ~s.blind => \A i \in DOMAIN s.users : ToSet(s.result) \cap s.asked[i] = {}

\* What is about to be saved repeats little.
FewRepeats(s) ==
  s.step \in Saving /\ ~s.blind =>
    \A i \in DOMAIN s.users : Repeats(s.result, s.asked[i]) <= AllowedRepeats

Good(s, h) == WellFormed(s) /\ HistoriesRemember(s, h) /\ FreshSoFar(s) /\ FewRepeats(s)

PackInv ==
  /\ pool \subseteq Curated
  /\ hist \in [Users -> SUBSET Ids]
  /\ ttl \subseteq Users
  /\ call \in [Calls -> Call]
  /\ \A c \in Calls : Good(call[c], hist)

\* Histories that grow keep what is good about a call.
LEMMA GoodGrows ==
  ASSUME NEW s, NEW h, NEW g, Good(s, h), \A u \in Users : h[u] \subseteq g[u]
  PROVE  Good(s, g)
<1>1. \A i \in DOMAIN s.users : s.users[i] \in Users
  BY DEF Good, WellFormed, Pairs
<1> QED
  BY <1>1 DEF Good, HistoriesRemember

\* A call that is over or has not begun holds nothing.
LEMMA IdleGood ==
  ASSUME NEW h
  PROVE  Good(Idle, h) /\ Good(Done, h)
<1>1. Idle \in Call /\ Done \in Call
  <2>1. <<>> \in Seq(Users) /\ <<>> \in Seq(SUBSET Ids) /\ <<>> \in Seq(Ids)
    OBVIOUS
  <2>2. Idle \in Call
    BY <2>1 DEF Idle, Call
  <2>3. Done \in Call
    BY <2>1 DEF Done, Idle, Call
  <2> QED
    BY <2>2, <2>3
<1>2. Idle.asked \in [{} -> SUBSET Ids] /\ DOMAIN Idle.users = {}
  BY DEF Idle
<1>3. WellFormed(Idle)
  BY <1>1, <1>2 DEF Idle, WellFormed
<1>4. WellFormed(Done)
  BY <1>1, <1>2 DEF Idle, Done, WellFormed
<1>5. Good(Idle, h)
  BY <1>2, <1>3 DEF Good, HistoriesRemember, FreshSoFar, FewRepeats, Idle
<1>6. Good(Done, h)
  BY <1>2, <1>4 DEF Good, HistoriesRemember, FreshSoFar, FewRepeats, Idle, Done
<1> QED
  BY <1>5, <1>6

\* Questions in both collections are questions.
LEMMA CuratedOrGenerated == Seq(Curated) \subseteq Seq(Ids) /\ Seq(Generated) \subseteq Seq(Ids)
  BY DEF Ids

\* A step that takes one call from a good state to another keeps the invariant.
LEMMA GotoKeeps ==
  ASSUME PackInv, NEW c \in Calls, NEW s, Goto(c, s), Good(s, hist'),
         pool' = pool, ttl' \subseteq Users, hist' \in [Users -> SUBSET Ids], \A u \in Users : hist[u] \subseteq hist'[u]
  PROVE  PackInv'
<1>1. s \in Call
  BY DEF Good, WellFormed
<1>2. call' \in [Calls -> Call] /\ call'[c] = s /\ \A d \in Calls \ {c} : call'[d] = call[d]
  BY <1>1 DEF Goto, PackInv
<1>3. \A d \in Calls \ {c} : Good(call[d], hist')
  BY GoodGrows DEF PackInv
<1>4. \A d \in Calls : Good(call'[d], hist')
  BY <1>2, <1>3
<1> QED
  BY <1>2, <1>4 DEF PackInv

\* The same where the histories stay.
LEMMA GotoAlone ==
  ASSUME PackInv, NEW c \in Calls, NEW s, Goto(c, s), Good(s, hist), UNCHANGED <<pool, hist, ttl>>
  PROVE  PackInv'
<1>1. hist' = hist /\ pool' = pool /\ ttl' \subseteq Users /\ hist' \in [Users -> SUBSET Ids]
  BY DEF PackInv
<1>2. Good(s, hist')
  BY <1>1
<1>3. \A u \in Users : hist[u] \subseteq hist'[u]
  BY <1>1
<1> QED
  BY <1>1, <1>2, <1>3, GotoKeeps

\* A pack of full size goes on to the next step, a shorter one is an error.
CutTo(s, pack, step, cut) ==
  /\ Len(pack) >= TotalQuestions /\ cut = SubSeq(pack, 1, TotalQuestions)
  /\ Sized(s, pack, step) = [s EXCEPT !.step = step, !.result = cut, !.batch = <<>>]

LEMMA SizedCases ==
  ASSUME NEW s, NEW pack \in Seq(Ids), NEW step, Sized(s, pack, step) # Done
  PROVE  CutTo(s, pack, step, SubSeq(pack, 1, TotalQuestions))
<1>1. Len(pack) \in Nat /\ TotalQuestions \in Nat
  BY PackAssumption
<1>2. ~(Len(pack) < TotalQuestions)
  BY DEF Sized
<1>3. Len(pack) >= TotalQuestions
  BY <1>1, <1>2
<1> QED
  BY <1>2, <1>3 DEF Sized, CutTo

\* The fields of a call whose pack was cut to size.
LEMMA CutToFields ==
  ASSUME NEW s \in Call, NEW pack \in Seq(Ids), NEW cut, NEW n,
         NEW step \in {"history", "save1", "built"}, CutTo(s, pack, step, cut), n = Sized(s, pack, step)
  PROVE  /\ n \in Call /\ n.step = step /\ n.result = cut /\ n.users = s.users
         /\ n.asked = s.asked /\ n.fresh = s.fresh /\ n.blind = s.blind
         /\ cut \in Seq(Ids) /\ Len(cut) = TotalQuestions
<1>1. cut \in Seq(Ids) /\ Len(cut) = TotalQuestions /\ <<>> \in Seq(Ids)
  <2>1. Len(pack) >= TotalQuestions /\ cut = SubSeq(pack, 1, TotalQuestions)
    BY DEF CutTo
  <2>2. cut \in Seq(Ids) /\ Len(cut) = TotalQuestions
    BY <2>1, CutProperties
  <2> QED
    BY <2>2
<1>2. n = [s EXCEPT !.step = step, !.result = cut, !.batch = <<>>]
  BY DEF CutTo
<1> QED
  BY <1>1, <1>2 DEF Call

\* Until the histories are read any questions make a good call.
LEMMA ValidatedGood ==
  ASSUME NEW s, NEW h, Good(s, h), s.step \in {"curated", "ai", "retry"}, NEW pack \in Seq(Ids)
  PROVE  Good(Validated(s, pack), h)
<1>1. PICK step \in {"built", "history"} : step = IF s.users = <<>> THEN "built" ELSE "history"
  OBVIOUS
<1>2. CASE Sized(s, pack, step) = Done
  BY <1>1, <1>2, IdleGood DEF Validated
<1>3. CASE Sized(s, pack, step) # Done
  <2>1. PICK cut : CutTo(s, pack, step, cut)
    BY <1>3, SizedCases
  <2>2. s \in Call /\ ~s.fresh
    BY DEF Good, WellFormed, FreshSoFar
  <2>3. PICK n : n = Sized(s, pack, step)
    OBVIOUS
  <2>4. /\ n \in Call /\ n.step = step /\ n.result = cut /\ n.users = s.users
        /\ n.asked = s.asked /\ n.fresh = s.fresh
        /\ Len(cut) = TotalQuestions
    BY <1>1, <2>1, <2>2, <2>3, CutToFields
  <2>5. WellFormed(n)
    BY <1>1, <2>4 DEF Good, WellFormed
  <2>6. HistoriesRemember(n, h) /\ FreshSoFar(n) /\ FewRepeats(n)
    BY <1>1, <2>2, <2>4 DEF Good, HistoriesRemember, FreshSoFar, FewRepeats
  <2> QED
    BY <1>1, <2>3, <2>5, <2>6 DEF Good, Validated
<1> QED
  BY <1>2, <1>3

\* The same with the check for duplicates before it.
LEMMA DuplicatesCheckedGood ==
  ASSUME NEW s, NEW h, Good(s, h), s.step \in {"curated", "ai"}, NEW pack \in Seq(Ids)
  PROVE  Good(DuplicatesChecked(s, pack), h)
<1>1. CASE DuplicatesChecked(s, pack) = Validated(s, pack)
  BY <1>1, ValidatedGood
<1>2. CASE DuplicatesChecked(s, pack) = [s EXCEPT !.step = "retry", !.result = Filtered(pack)]
  <2>1. Filtered(pack) \in Seq(Ids)
    BY KeepProperties DEF Filtered
  <2>2. PICK n : n = [s EXCEPT !.step = "retry", !.result = Filtered(pack)]
    OBVIOUS
  <2>3. s \in Call /\ ~s.fresh
    BY DEF Good, WellFormed, FreshSoFar
  <2>4. /\ n \in Call /\ n.step = "retry" /\ n.users = s.users
        /\ n.asked = s.asked /\ n.fresh = s.fresh
    BY <2>1, <2>2, <2>3 DEF Call
  <2> QED
    BY <1>2, <2>2, <2>3, <2>4 DEF Good, WellFormed, HistoriesRemember, FreshSoFar, FewRepeats
<1> QED
  BY <1>1, <1>2 DEF DuplicatesChecked

\* What is saved after the histories were compared.
LEMMA SavedGood ==
  ASSUME NEW s, NEW h, s \in Call, s.users \in Pairs, s.asked \in [DOMAIN s.users -> SUBSET Ids],
         NEW pack \in Seq(Ids),
         s.fresh => /\ IsInjective(pack)
                    /\ ~s.blind => \A i \in DOMAIN s.users : ToSet(pack) \cap s.asked[i] = {},
         ~s.blind => \A i \in DOMAIN s.users : Repeats(pack, s.asked[i]) <= AllowedRepeats
  PROVE  Good(Sized(s, pack, "save1"), h)
<1>1. CASE Sized(s, pack, "save1") = Done
  BY <1>1, IdleGood
<1>2. CASE Sized(s, pack, "save1") # Done
  <2>1. PICK cut : CutTo(s, pack, "save1", cut)
    BY <1>2, SizedCases
  <2>2. PICK n : n = Sized(s, pack, "save1")
    OBVIOUS
  <2>3. /\ n \in Call /\ n.step = "save1" /\ n.result = cut /\ n.users = s.users
        /\ n.asked = s.asked /\ n.fresh = s.fresh /\ n.blind = s.blind
        /\ cut \in Seq(Ids) /\ Len(cut) = TotalQuestions
    BY <2>1, <2>2, CutToFields
  <2>4. Len(pack) >= TotalQuestions /\ cut = SubSeq(pack, 1, TotalQuestions)
    BY <2>1 DEF CutTo
  <2>5. ToSet(cut) \subseteq ToSet(pack) /\ (IsInjective(pack) => IsInjective(cut))
    BY <2>4, CutProperties
  <2>6. WellFormed(n) /\ HistoriesRemember(n, h)
    BY <2>3 DEF WellFormed, HistoriesRemember
  <2>7. FreshSoFar(n)
    BY <2>3, <2>5 DEF FreshSoFar
  <2>8. FewRepeats(n)
    <3> SUFFICES ASSUME ~s.blind, NEW i \in DOMAIN s.users
                 PROVE  Repeats(cut, s.asked[i]) <= AllowedRepeats
      BY <2>3 DEF FewRepeats
    <3>1. Repeats(cut, s.asked[i]) <= Repeats(pack, s.asked[i])
      BY <2>4, CutProperties
    <3>2. Repeats(cut, s.asked[i]) \in Nat /\ Repeats(pack, s.asked[i]) \in Nat /\ AllowedRepeats \in Nat
      BY <2>3, RepeatsType, PackAssumption
    <3>3. Repeats(pack, s.asked[i]) <= AllowedRepeats
      OBVIOUS
    <3> QED
      BY <3>1, <3>2, <3>3
  <2> QED
    BY <2>2, <2>6, <2>7, <2>8 DEF Good
<1> QED
  BY <1>1, <1>2

\* A pair has two players.
LEMMA PairOfPlayers ==
  ASSUME NEW p \in Pairs
  PROVE  DOMAIN p = {1, 2} /\ p[1] \in Users /\ p[2] \in Users
BY DEF Pairs

\* Questions neither player has seen are questions none was asked.
LEMMA UnseenProperties ==
  ASSUME PackInv, NEW s, Good(s, hist), s.users \in Pairs, s.step = "history"
  PROVE  /\ Unseen(s) \in Seq(Ids)
         /\ \A i \in {1, 2} : /\ ToSet(Unseen(s)) \cap hist[s.users[i]] = {}
                              /\ s.asked[i] \subseteq hist[s.users[i]]
<1>1. s.result \in Seq(Ids)
  BY DEF Good, WellFormed, Call
<1>2. Unseen(s) \in Seq(Ids) /\ ToSet(Unseen(s)) \subseteq Ids \ SeenByEither(s)
  BY <1>1, KeepProperties DEF Unseen
<1>3. \A i \in {1, 2} : hist[s.users[i]] \subseteq SeenByEither(s)
  BY DEF SeenByEither
<1>4. DOMAIN s.users = {1, 2}
  BY PairOfPlayers
<1>5. \A i \in {1, 2} : s.asked[i] \subseteq hist[s.users[i]]
  BY <1>4 DEF Good, HistoriesRemember
<1> QED
  BY <1>2, <1>3, <1>5

-----------------------------------------------------------------------------
(* The steps *)

\* A call begins with the histories as they are.
LEMMA BeginKeeps ==
  ASSUME PackInv, NEW c \in Calls, NEW users \in Pairs \cup {<<>>}, Begin(c, users)
  PROVE  PackInv'
<1>1. PICK asked : asked = [i \in DOMAIN users |-> hist[users[i]]]
  OBVIOUS
<1>2. PICK s : s = [Idle EXCEPT !.step = "curated", !.users = users, !.todo = DOMAIN Counts, !.asked = asked]
  OBVIOUS
<1>3. users \in Seq(Users) /\ asked \in Seq(SUBSET Ids) /\ asked \in [DOMAIN users -> SUBSET Ids]
  <2>1. CASE users = <<>>
    BY <1>1, <2>1
  <2>2. CASE users \in Pairs
    <3>1. users \in [1..2 -> Users] /\ DOMAIN users = 1..2
      BY <2>2 DEF Pairs
    <3>2. asked \in [1..2 -> SUBSET Ids]
      BY <1>1, <3>1 DEF PackInv
    <3> QED
      BY <3>1, <3>2
  <2> QED
    BY <2>1, <2>2
<1>4. /\ s \in Call /\ s.step = "curated" /\ s.users = users /\ s.asked = asked /\ ~s.fresh
  <2>1. <<>> \in Seq(Ids)
    OBVIOUS
  <2> QED
    BY <1>2, <1>3, <2>1 DEF Call, Idle
<1>5. WellFormed(s) /\ FreshSoFar(s) /\ FewRepeats(s)
  BY <1>3, <1>4 DEF WellFormed, FreshSoFar, FewRepeats
<1>6. HistoriesRemember(s, hist)
  BY <1>1, <1>4 DEF HistoriesRemember
<1>7. Goto(c, s) /\ UNCHANGED <<pool, hist, ttl>>
  BY <1>1, <1>2 DEF Begin
<1> QED
  BY <1>5, <1>6, <1>7, GotoAlone DEF Good

\* A sample of the pool is a list of questions.
LEMMA SamplesType ==
  ASSUME PackInv, NEW n \in Nat, NEW sample \in Samples(n)
  PROVE  sample \in Seq(Ids)
<1>1. pool \subseteq Curated /\ IsFiniteSet(Curated)
  BY PackAssumption DEF PackInv
<1>2. Cardinality(pool) \in Nat
  BY <1>1, FS_Subset, FS_CardinalityType
<1>3. PICK k \in Nat : sample \in [1..k -> pool]
  BY <1>2 DEF Samples
<1>4. sample \in [1..k -> Ids]
  BY <1>1, <1>3 DEF Ids
<1> QED
  BY <1>4

\* fetchCurated adds questions to the pack.
LEMMA FetchCuratedKeeps ==
  ASSUME PackInv, NEW c \in Calls, NEW d \in DOMAIN Counts, FetchCurated(c, d)
  PROVE  PackInv'
<1>1. call[c] \in Call /\ Good(call[c], hist) /\ call[c].step = "curated" /\ UNCHANGED <<pool, hist, ttl>>
  BY DEF FetchCurated, PackInv
<1>2. CASE Goto(c, Done)
  BY <1>1, <1>2, IdleGood, GotoAlone
<1>3. ASSUME NEW sample \in Samples(Counts[d]), NEW pack, NEW s,
             pack = call[c].result \o sample,
             s = [call[c] EXCEPT !.result = pack, !.todo = @ \ {d}],
             Goto(c, IF s.todo # {} THEN s
                     ELSE IF Len(pack) < Wanted THEN [s EXCEPT !.step = "ai"]
                     ELSE DuplicatesChecked(s, pack))
      PROVE  PackInv'
  <2>1. Counts[d] \in Nat
    BY PackAssumption
  <2>2. pack \in Seq(Ids)
    <3>1. sample \in Seq(Ids) /\ call[c].result \in Seq(Ids)
      BY <1>1, <1>3, <2>1, SamplesType DEF Call
    <3> QED
      BY <1>3, <3>1
  <2>3. /\ s \in Call /\ s.step = "curated" /\ s.users = call[c].users
        /\ s.asked = call[c].asked /\ s.fresh = call[c].fresh
    BY <1>1, <1>3, <2>2 DEF Call
  <2>4. Good(s, hist)
    BY <1>1, <2>3 DEF Good, WellFormed, HistoriesRemember, FreshSoFar, FewRepeats
  <2>5. PICK n : n = [s EXCEPT !.step = "ai"]
    OBVIOUS
  <2>6. /\ n \in Call /\ n.step = "ai" /\ n.users = s.users /\ n.asked = s.asked /\ n.fresh = s.fresh
    BY <2>3, <2>5 DEF Call
  <2>7. Good(n, hist)
    BY <2>3, <2>4, <2>6 DEF Good, WellFormed, HistoriesRemember, FreshSoFar, FewRepeats
  <2>8. Good(DuplicatesChecked(s, pack), hist)
    BY <2>2, <2>3, <2>4, DuplicatesCheckedGood
  <2> QED
    BY <1>1, <1>3, <2>4, <2>5, <2>7, <2>8, GotoAlone
<1> QED
  BY <1>2, <1>3 DEF FetchCurated

\* An answer of the generator is a list of questions that is not empty.
LEMMA BatchesType ==
  ASSUME NEW batch \in Batches
  PROVE  batch \in Seq(Generated) /\ batch \in Seq(Ids) /\ batch # <<>>
<1>1. PICK n \in 1..MaxBatch : batch \in [1..n -> Generated]
  BY DEF Batches
<1>2. MaxBatch \in Nat
  BY PackAssumption
<1>3. n \in Nat /\ n >= 1
  BY <1>2
<1>4. batch \in Seq(Generated) /\ batch \in [1..n -> Ids]
  BY <1>1, <1>3 DEF Ids
<1>5. batch \in Seq(Ids)
  BY <1>3, <1>4
<1>6. batch # <<>>
  BY <1>1, <1>3
<1> QED
  BY <1>4, <1>5, <1>6

\* The generator adds to the pack.
LEMMA FetchAIKeeps ==
  ASSUME PackInv, NEW c \in Calls, FetchAI(c) \/ Retry(c)
  PROVE  PackInv'
<1>1. /\ call[c] \in Call /\ Good(call[c], hist) /\ UNCHANGED <<pool, hist, ttl>>
      /\ call[c].result \in Seq(Ids)
  BY DEF FetchAI, Retry, PackInv, Call
<1>2. CASE Goto(c, Done)
  BY <1>1, <1>2, IdleGood, GotoAlone
<1>3. ASSUME call[c].step = "ai", NEW batch \in Batches,
             Goto(c, DuplicatesChecked(call[c], call[c].result \o batch))
      PROVE  PackInv'
  <2>1. call[c].result \o batch \in Seq(Ids)
    BY <1>1, BatchesType
  <2> QED
    BY <1>1, <1>3, <2>1, DuplicatesCheckedGood, GotoAlone
<1>4. ASSUME call[c].step = "retry", NEW pack \in Seq(Ids), Goto(c, Validated(call[c], pack))
      PROVE  PackInv'
  BY <1>1, <1>4, ValidatedGood, GotoAlone
<1>5. \A batch \in Batches : TakeNew(call[c].result, batch) \in Seq(Ids)
  BY <1>1, BatchesType, TakeNewProperties
<1> QED
  BY <1>1, <1>2, <1>3, <1>4, <1>5 DEF FetchAI, Retry

\* The repeats that are added back are repeats of the pack, each of them once.
LEMMA AddedBack ==
  ASSUME NEW r \in Seq(Ids), NEW S, NEW back \in SetToSeqs(ToSet(r) \cap S)
  PROVE  back \in Seq(Ids) /\ IsInjective(back) /\ ToSet(back) \subseteq ToSet(r) \cap S
<1> DEFINE D == ToSet(r) \cap S
<1>1. Len(r) \in Nat /\ DOMAIN r = 1..Len(r) /\ \A i \in DOMAIN r : r[i] \in Ids
  OBVIOUS
<1>2. ToSet(r) \subseteq Ids
  BY <1>1 DEF ToSet
<1>3. IsFiniteSet(ToSet(r))
  <2>1. r \in Surjection(DOMAIN r, ToSet(r))
    BY <1>1 DEF Surjection, ToSet
  <2>2. IsFiniteSet(DOMAIN r)
    BY <1>1, FS_Interval
  <2> QED
    BY <2>1, <2>2, FS_Surjection
<1>4. Cardinality(D) \in Nat
  BY <1>3, FS_Subset, FS_CardinalityType
<1>5. PICK k \in Nat : /\ back \in [1..k -> D]
                       /\ \A i, j \in 1..k : i # j => back[i] # back[j]
  BY <1>4 DEF SetToSeqs
<1>6. back \in [1..k -> Ids]
  BY <1>2, <1>5
<1>7. back \in Seq(Ids)
  BY <1>6
<1>8. IsInjective(back)
  BY <1>5 DEF IsInjective
<1>9. ToSet(back) \subseteq D
  BY <1>5 DEF ToSet
<1> QED
  BY <1>7, <1>8, <1>9

\* The pack with its repeats added back repeats no more than it did before.
LEMMA AddedBackRepeats ==
  ASSUME NEW u \in Seq(Ids), NEW back \in Seq(Ids), NEW r \in Seq(Ids), NEW S,
         ToSet(u) \cap S = {}, IsInjective(back), ToSet(back) \subseteq ToSet(r)
  PROVE  u \o back \in Seq(Ids) /\ Repeats(u \o back, S) <= Repeats(r, S)
<1>1. PICK p : p = u \o back
  OBVIOUS
<1>2. /\ Len(u) \in Nat /\ Len(back) \in Nat
      /\ DOMAIN u = 1..Len(u) /\ DOMAIN back = 1..Len(back)
      /\ p \in Seq(Ids) /\ DOMAIN p = 1..(Len(u) + Len(back))
  BY <1>1
<1>3. \A i \in DOMAIN p : p[i] = IF i <= Len(u) THEN u[i] ELSE back[i - Len(u)]
  BY <1>1, <1>2
<1>4. \A i \in DOMAIN p : p[i] \in S => i > Len(u) /\ i - Len(u) \in DOMAIN back /\ p[i] = back[i - Len(u)]
  <2> SUFFICES ASSUME NEW i \in DOMAIN p, p[i] \in S
               PROVE  i > Len(u) /\ i - Len(u) \in DOMAIN back /\ p[i] = back[i - Len(u)]
    OBVIOUS
  <2>1. i \in Nat /\ i >= 1 /\ i <= Len(u) + Len(back)
    BY <1>2
  <2>2. ~(i <= Len(u))
    <3> SUFFICES ASSUME i <= Len(u) PROVE FALSE
      OBVIOUS
    <3>1. i \in DOMAIN u /\ p[i] = u[i]
      BY <1>2, <1>3, <2>1
    <3> QED
      BY <3>1 DEF ToSet
  <2> QED
    BY <1>2, <1>3, <2>1, <2>2
<1>5. \A i \in DOMAIN p : p[i] \in S => p[i] \in ToSet(r)
  BY <1>4 DEF ToSet
<1>6. \A i, j \in DOMAIN p : p[i] \in S /\ p[i] = p[j] => i = j
  <2> SUFFICES ASSUME NEW i \in DOMAIN p, NEW j \in DOMAIN p, p[i] \in S, p[i] = p[j] PROVE i = j
    OBVIOUS
  <2>1. i - Len(u) = j - Len(u)
    BY <1>4 DEF IsInjective
  <2> QED
    BY <1>2, <2>1
<1>7. Repeats(p, S) <= Repeats(r, S)
  BY <1>2, <1>5, <1>6, RepeatsOnce
<1> QED
  BY <1>1, <1>2, <1>7

\* The four outcomes of the comparison with the histories.
LEMMA CheckHistoryKeeps ==
  ASSUME PackInv, NEW c \in Calls, CheckHistory(c)
  PROVE  PackInv'
<1>1. PICK s : s = call[c]
  OBVIOUS
<1>2. /\ s \in Call /\ Good(s, hist) /\ s.step = "history" /\ UNCHANGED <<pool, hist, ttl>>
      /\ s.users \in Pairs /\ s.asked \in [DOMAIN s.users -> SUBSET Ids] /\ ~s.fresh
      /\ HistoriesRemember(s, hist) /\ s.result \in Seq(Ids)
  BY <1>1 DEF CheckHistory, PackInv, Good, WellFormed, FreshSoFar, Call
<1>3. DOMAIN s.users = {1, 2}
  BY <1>2, PairOfPlayers
<1>4. /\ MaxRepeats(s) \in Nat /\ AllowedRepeats \in Nat
      /\ \A i \in {1, 2} : Repeats(s.result, hist[s.users[i]]) <= MaxRepeats(s)
  BY <1>2, MaxRepeatsBounds, PackAssumption
<1>5. /\ Unseen(s) \in Seq(Ids)
      /\ \A i \in {1, 2} : /\ ToSet(Unseen(s)) \cap hist[s.users[i]] = {}
                           /\ s.asked[i] \subseteq hist[s.users[i]]
  BY <1>2, UnseenProperties
<1>6. ASSUME NEW pack \in Seq(Ids), MaxRepeats(s) <= AllowedRepeats, Goto(c, Sized(s, pack, "save1")),
             \A i \in {1, 2} : Repeats(pack, hist[s.users[i]]) <= Repeats(s.result, hist[s.users[i]])
      PROVE  PackInv'
  <2>1. ASSUME NEW i \in DOMAIN s.users PROVE Repeats(pack, s.asked[i]) <= AllowedRepeats
    <3>1. PICK a \in Nat : a = Repeats(pack, s.asked[i])
      BY RepeatsType
    <3>2. PICK b \in Nat : b = Repeats(pack, hist[s.users[i]])
      BY RepeatsType
    <3>3. PICK d \in Nat : d = Repeats(s.result, hist[s.users[i]])
      BY <1>2, RepeatsType
    <3>4. a <= b
      BY <1>3, <1>5, <3>1, <3>2, RepeatsMonotonic
    <3>5. b <= d /\ d <= MaxRepeats(s)
      BY <1>3, <1>4, <1>6, <3>2, <3>3
    <3>6. a <= AllowedRepeats
      BY <1>4, <1>6, <3>4, <3>5
    <3> QED
      BY <3>1, <3>6
  <2>2. Good(Sized(s, pack, "save1"), hist)
    BY <1>2, <2>1, SavedGood
  <2> QED
    BY <1>2, <1>6, <2>2, GotoAlone
<1>7. CASE MaxRepeats(s) = 0 /\ Goto(c, Sized(s, s.result, "save1"))
  <2>1. \A i \in {1, 2} : Repeats(s.result, hist[s.users[i]]) <= Repeats(s.result, hist[s.users[i]])
    BY <1>2, RepeatsMonotonic
  <2> QED
    BY <1>2, <1>4, <1>6, <1>7, <2>1
<1>8. ASSUME MaxRepeats(s) \in 1..AllowedRepeats, NEW back,
             back \in SetToSeqs(ToSet(s.result) \cap SeenByEither(s)) \cup {<<>>},
             Goto(c, Sized(s, Unseen(s) \o back, "save1"))
      PROVE  PackInv'
  <2>1. back \in Seq(Ids) /\ IsInjective(back) /\ ToSet(back) \subseteq ToSet(s.result)
    <3>1. CASE back = <<>>
      BY <3>1 DEF IsInjective, ToSet
    <3>2. CASE back \in SetToSeqs(ToSet(s.result) \cap SeenByEither(s))
      BY <1>2, <3>2, AddedBack
    <3> QED
      BY <1>8, <3>1, <3>2
  <2>2. /\ Unseen(s) \o back \in Seq(Ids)
        /\ \A i \in {1, 2} : Repeats(Unseen(s) \o back, hist[s.users[i]]) <= Repeats(s.result, hist[s.users[i]])
    BY <1>2, <1>5, <2>1, AddedBackRepeats
  <2>3. MaxRepeats(s) <= AllowedRepeats
    BY <1>4, <1>8
  <2> QED
    BY <1>6, <1>8, <2>2, <2>3
<1>9. CASE Goto(c, [s EXCEPT !.step = "regenerate", !.fresh = TRUE, !.result = TakeNew(<<>>, Unseen(s))])
  <2>1. PICK pack : pack = TakeNew(<<>>, Unseen(s))
    OBVIOUS
  <2>2. <<>> \in Seq(Ids) /\ ToSet(<<>>) = {} /\ IsInjective(<<>>)
    BY DEF IsInjective, ToSet
  <2>3. pack \in Seq(Ids) /\ IsInjective(pack) /\ ToSet(pack) \subseteq ToSet(Unseen(s))
    BY <1>5, <2>1, <2>2, TakeNewProperties
  <2>4. PICK n : n = [s EXCEPT !.step = "regenerate", !.fresh = TRUE, !.result = pack]
    OBVIOUS
  <2>5. /\ n \in Call /\ n.step = "regenerate" /\ n.users = s.users /\ n.asked = s.asked
        /\ n.fresh /\ n.result = pack
    BY <1>2, <2>3, <2>4 DEF Call
  <2>6. WellFormed(n) /\ HistoriesRemember(n, hist) /\ FewRepeats(n)
    BY <1>2, <2>5 DEF WellFormed, HistoriesRemember, FewRepeats
  <2>7. \A i \in DOMAIN n.users : ToSet(n.result) \cap n.asked[i] = {}
    BY <1>3, <1>5, <2>3, <2>5
  <2>8. FreshSoFar(n)
    BY <2>3, <2>5, <2>7 DEF FreshSoFar
  <2> QED
    BY <1>2, <1>9, <2>1, <2>4, <2>6, <2>8, GotoAlone DEF Good
<1>10. CASE Goto(c, Sized([s EXCEPT !.blind = TRUE], s.result, "save1"))
  <2>1. PICK n : n = [s EXCEPT !.blind = TRUE]
    OBVIOUS
  <2>2. /\ n \in Call /\ n.users = s.users /\ n.asked = s.asked /\ ~n.fresh /\ n.blind
    BY <1>2, <2>1 DEF Call
  <2>3. HistoriesRemember(n, hist)
    BY <1>2, <2>2 DEF HistoriesRemember
  <2>4. Good(Sized(n, s.result, "save1"), hist)
    BY <1>2, <2>2, <2>3, SavedGood
  <2> QED
    BY <1>2, <1>10, <2>1, <2>4, GotoAlone
<1> QED
  BY <1>1, <1>7, <1>8, <1>9, <1>10 DEF CheckHistory

\* A pack that repeats nothing repeats no more than is allowed.
LEMMA FreshIsSaved ==
  ASSUME NEW s, NEW h, s \in Call, s.users \in Pairs, s.asked \in [DOMAIN s.users -> SUBSET Ids],
         IsInjective(s.result),
         ~s.blind => \A i \in DOMAIN s.users : ToSet(s.result) \cap s.asked[i] = {}
  PROVE  Good(Sized(s, s.result, "save1"), h)
<1>1. s.result \in Seq(Ids)
  BY DEF Call
<1>2. ASSUME ~s.blind, NEW i \in DOMAIN s.users PROVE Repeats(s.result, s.asked[i]) <= AllowedRepeats
  <2>1. Repeats(s.result, s.asked[i]) = 0
    BY <1>2, RepeatsNone
  <2> QED
    BY <2>1, PackAssumption
<1> QED
  BY <1>1, <1>2, SavedGood

\* The generator's answer waits for its checks.
LEMMA RegenerateKeeps ==
  ASSUME PackInv, NEW c \in Calls, Regenerate(c)
  PROVE  PackInv'
<1>1. PICK s : s = call[c]
  OBVIOUS
<1>2. /\ s \in Call /\ Good(s, hist) /\ s.step = "regenerate" /\ UNCHANGED <<pool, hist, ttl>>
      /\ s.users \in Pairs /\ s.asked \in [DOMAIN s.users -> SUBSET Ids] /\ s.fresh
      /\ HistoriesRemember(s, hist) /\ IsInjective(s.result)
      /\ ~s.blind => \A i \in DOMAIN s.users : ToSet(s.result) \cap s.asked[i] = {}
  BY <1>1 DEF Regenerate, PackInv, Good, WellFormed, FreshSoFar
<1>3. ASSUME NEW batch \in Batches, Goto(c, [s EXCEPT !.step = "check", !.batch = batch])
      PROVE  PackInv'
  <2>1. batch \in Seq(Generated) /\ batch \in Seq(Ids) /\ batch # <<>>
    BY BatchesType
  <2>2. PICK n : n = [s EXCEPT !.step = "check", !.batch = batch]
    OBVIOUS
  <2>3. /\ n \in Call /\ n.step = "check" /\ n.users = s.users /\ n.asked = s.asked
        /\ n.fresh = s.fresh /\ n.blind = s.blind /\ n.result = s.result /\ n.batch = batch
    BY <1>2, <2>1, <2>2 DEF Call
  <2>4. WellFormed(n) /\ HistoriesRemember(n, hist) /\ FreshSoFar(n) /\ FewRepeats(n)
    BY <1>2, <2>1, <2>3 DEF WellFormed, HistoriesRemember, FreshSoFar, FewRepeats
  <2> QED
    BY <1>2, <1>3, <2>2, <2>4, GotoAlone DEF Good
<1>4. CASE Goto(c, Sized(s, s.result, "save1"))
  BY <1>2, <1>4, FreshIsSaved, GotoAlone
<1> QED
  BY <1>1, <1>3, <1>4 DEF Regenerate

\* A new question that is taken is one that neither player has seen.
LEMMA CheckNewKeeps ==
  ASSUME PackInv, NEW c \in Calls, CheckNew(c)
  PROVE  PackInv'
<1>1. PICK r : r = call[c]
  OBVIOUS
<1>2. /\ r \in Call /\ Good(r, hist) /\ r.step = "check" /\ UNCHANGED <<pool, hist, ttl>>
      /\ r.users \in Pairs /\ r.asked \in [DOMAIN r.users -> SUBSET Ids] /\ r.fresh
      /\ HistoriesRemember(r, hist) /\ IsInjective(r.result) /\ r.result \in Seq(Ids)
      /\ ~r.blind => \A i \in DOMAIN r.users : ToSet(r.result) \cap r.asked[i] = {}
      /\ r.batch \in Seq(Generated) /\ r.batch # <<>>
  BY <1>1 DEF CheckNew, PackInv, Good, WellFormed, FreshSoFar, Call
<1>3. PICK q, tail : q = Head(r.batch) /\ tail = Tail(r.batch)
  OBVIOUS
<1>4. /\ q \in Ids /\ tail \in Seq(Generated) /\ tail \in Seq(Ids)
  <2>1. q \in Generated /\ tail \in Seq(Generated)
    BY <1>2, <1>3
  <2> QED
    BY <2>1, CuratedOrGenerated DEF Ids
<1>5. PICK blind \in BOOLEAN :
         \E pack, s :
           /\ pack = (IF q \in SeenByEither(r) /\ ~blind THEN r.result ELSE TakeNew(r.result, <<q>>))
           /\ s = [r EXCEPT !.batch = tail, !.blind = r.blind \/ blind, !.result = pack]
           /\ Goto(c, IF s.batch # <<>> THEN s ELSE Sized(s, s.result, "save1"))
  BY <1>1, <1>3 DEF CheckNew
<1>6. PICK pack, s :
         /\ pack = (IF q \in SeenByEither(r) /\ ~blind THEN r.result ELSE TakeNew(r.result, <<q>>))
         /\ s = [r EXCEPT !.batch = tail, !.blind = r.blind \/ blind, !.result = pack]
         /\ Goto(c, IF s.batch # <<>> THEN s ELSE Sized(s, s.result, "save1"))
  BY <1>5
<1>7. <<q>> \in Seq(Ids) /\ ToSet(<<q>>) = {q}
  BY <1>4 DEF ToSet
<1>8. /\ pack \in Seq(Ids) /\ IsInjective(pack)
      /\ ToSet(pack) \subseteq ToSet(r.result) \cup (IF q \in SeenByEither(r) /\ ~blind THEN {} ELSE {q})
  <2>1. CASE pack = r.result
    BY <1>2, <2>1
  <2>2. CASE pack = TakeNew(r.result, <<q>>) /\ ~(q \in SeenByEither(r) /\ ~blind)
    BY <1>2, <1>7, <2>2, TakeNewProperties
  <2> QED
    BY <1>6, <2>1, <2>2
<1>9. /\ s \in Call /\ s.step = "check" /\ s.users = r.users /\ s.asked = r.asked /\ s.fresh
      /\ s.blind = (r.blind \/ blind) /\ s.result = pack /\ s.batch = tail
  BY <1>2, <1>4, <1>6, <1>8 DEF Call
<1>10. DOMAIN r.users = {1, 2} /\ \A i \in {1, 2} : r.asked[i] \subseteq SeenByEither(r)
  BY <1>2, PairOfPlayers DEF HistoriesRemember, SeenByEither
<1>11. ~s.blind => \A i \in DOMAIN s.users : ToSet(s.result) \cap s.asked[i] = {}
  <2> SUFFICES ASSUME ~s.blind, NEW i \in DOMAIN s.users PROVE ToSet(pack) \cap r.asked[i] = {}
    BY <1>9
  <2>1. ~r.blind /\ ~blind
    BY <1>9
  <2>2. ToSet(r.result) \cap r.asked[i] = {}
    BY <1>2, <1>9, <2>1
  <2>3. r.asked[i] \subseteq SeenByEither(r)
    BY <1>9, <1>10
  <2> QED
    BY <1>8, <2>1, <2>2, <2>3
<1>12. HistoriesRemember(s, hist)
  BY <1>2, <1>9 DEF HistoriesRemember
<1>13. CASE s.batch # <<>>
  <2>1. WellFormed(s) /\ FreshSoFar(s) /\ FewRepeats(s)
    BY <1>2, <1>4, <1>8, <1>9, <1>11, <1>13 DEF WellFormed, FreshSoFar, FewRepeats
  <2> QED
    BY <1>2, <1>6, <1>12, <1>13, <2>1, GotoAlone DEF Good
<1>14. CASE s.batch = <<>>
  <2>1. Good(Sized(s, s.result, "save1"), hist)
    BY <1>2, <1>8, <1>9, <1>11, <1>12, FreshIsSaved
  <2> QED
    BY <1>2, <1>6, <1>14, <2>1, GotoAlone
<1> QED
  BY <1>13, <1>14

\* A call whose pack is chosen keeps what is good about it from one step to the next.
LEMMA SavingGood ==
  ASSUME NEW s, NEW h, NEW step \in Saving, NEW n, Good(s, h), s.step \in Saving,
         n = [s EXCEPT !.step = step]
  PROVE  Good(n, h)
<1>1. s \in Call
  BY DEF Good, WellFormed
<1>2. /\ n \in Call /\ n.step = step /\ n.users = s.users /\ n.asked = s.asked
      /\ n.fresh = s.fresh /\ n.blind = s.blind /\ n.result = s.result
  BY <1>1 DEF Call
<1> QED
  BY <1>2 DEF Good, WellFormed, HistoriesRemember, FreshSoFar, FewRepeats

\* Saving makes a history grow.
LEMMA SADDKeeps ==
  ASSUME PackInv, NEW c \in Calls, NEW i \in {1, 2}, NEW step \in Saving, NEW expire \in Saving,
         NEW next, Good(next, hist), AddUserQuestionHistory(c, i, step, expire, next)
  PROVE  PackInv'
<1>1. PICK u, longer : /\ u = call[c].users[i]
                       /\ longer = [hist EXCEPT ![u] = @ \cup ToSet(call[c].result)]
  OBVIOUS
<1>2. /\ call[c] \in Call /\ Good(call[c], hist) /\ call[c].step \in Saving
      /\ call[c].users \in Pairs /\ call[c].result \in Seq(Ids)
      /\ pool' = pool /\ ttl' \subseteq Users
  BY DEF AddUserQuestionHistory, PackInv, Good, WellFormed, Call
<1>3. ToSet(call[c].result) \subseteq Ids /\ u \in Users
  BY <1>1, <1>2, PairOfPlayers DEF ToSet
<1>4. longer \in [Users -> SUBSET Ids] /\ \A v \in Users : hist[v] \subseteq longer[v]
  BY <1>1, <1>3 DEF PackInv
<1>5. hist \in [Users -> SUBSET Ids]
  BY DEF PackInv
<1>6. PICK s : /\ Goto(c, s) /\ (s = [call[c] EXCEPT !.step = expire] \/ s = next)
               /\ hist' \in {hist, longer}
  BY <1>1 DEF AddUserQuestionHistory
<1>7. hist' \in [Users -> SUBSET Ids] /\ \A v \in Users : hist[v] \subseteq hist'[v]
  BY <1>4, <1>5, <1>6
<1>8. Good(s, hist)
  BY <1>2, <1>6, SavingGood
<1>9. Good(s, hist')
  BY <1>7, <1>8, GoodGrows
<1> QED
  BY <1>2, <1>6, <1>7, <1>9, GotoKeeps

LEMMA ExpireKeeps ==
  ASSUME PackInv, NEW c \in Calls, NEW i \in {1, 2}, NEW step \in Saving,
         NEW next, Good(next, hist), Expire(c, i, step, next)
  PROVE  PackInv'
<1>1. call[c].users \in Pairs
  BY DEF Expire, PackInv, Good, WellFormed
<1>2. call[c].users[i] \in Users
  BY <1>1, PairOfPlayers
<1>3. ttl' \subseteq Users
  BY <1>2 DEF Expire, PackInv
<1>4. pool' = pool /\ hist' = hist /\ hist \in [Users -> SUBSET Ids] /\ Goto(c, next)
  BY DEF Expire, PackInv
<1>5. Good(next, hist') /\ hist' \in [Users -> SUBSET Ids] /\ \A v \in Users : hist[v] \subseteq hist'[v]
  BY <1>4
<1> QED
  BY <1>3, <1>4, <1>5, GotoKeeps

LEMMA SaveHistoryKeeps ==
  ASSUME PackInv, NEW c \in Calls, SaveHistory(c)
  PROVE  PackInv'
<1>1. Good(call[c], hist) /\ Good(Done, hist)
  BY IdleGood DEF PackInv
<1>2. call[c].step \in Saving => Good(SecondPlayer(c), hist)
  BY <1>1, SavingGood DEF SecondPlayer
<1>3. CASE AddUserQuestionHistory(c, 1, "save1", "expire1", SecondPlayer(c))
  <2>1. Good(SecondPlayer(c), hist)
    BY <1>2, <1>3 DEF AddUserQuestionHistory
  <2> QED
    BY <1>3, <2>1, SADDKeeps
<1>4. CASE Expire(c, 1, "expire1", SecondPlayer(c))
  <2>1. Good(SecondPlayer(c), hist)
    BY <1>2, <1>4 DEF Expire
  <2> QED
    BY <1>4, <2>1, ExpireKeeps
<1>5. CASE AddUserQuestionHistory(c, 2, "save2", "expire2", Done)
  BY <1>1, <1>5, SADDKeeps
<1>6. CASE Expire(c, 2, "expire2", Done)
  BY <1>1, <1>6, ExpireKeeps
<1> QED
  BY <1>3, <1>4, <1>5, <1>6 DEF SaveHistory

LEMMA PairIsSeq == ASSUME NEW T, NEW f \in [1..2 -> T] PROVE f \in Seq(T)
<1>1. \A n \in Nat : \A g \in [1..n -> T] : g \in Seq(T)
  OBVIOUS
<1> QED
  BY <1>1

\* A pack still being chosen is no longer held to what a lost history said; it
\* is as fresh, and repeats as little, as before.
LEMMA ForgetGood ==
  ASSUME NEW s, NEW h, NEW g, NEW u \in Users, Good(s, h), s.step \notin Saving,
         \A v \in Users \ {u} : g[v] = h[v]
  PROVE  Good(Forget(s, u), g)
<1>1. PICK asked : asked = [i \in DOMAIN s.users |-> IF s.users[i] = u THEN {} ELSE s.asked[i]]
  OBVIOUS
<1>2. PICK n : n = [s EXCEPT !.asked = asked]
  OBVIOUS
<1>3. s \in Call /\ s.users \in Pairs \cup {<<>>} /\ s.asked \in [DOMAIN s.users -> SUBSET Ids]
  BY DEF Good, WellFormed
<1>4. asked \in [DOMAIN s.users -> SUBSET Ids] /\ \A i \in DOMAIN s.users : asked[i] \subseteq s.asked[i]
  BY <1>1, <1>3
<1>5. asked \in Seq(SUBSET Ids)
  <2>1. CASE s.users = <<>>
    <3>1. asked = <<>>
      BY <1>1, <2>1
    <3> QED
      BY <3>1
  <2>2. CASE s.users \in Pairs
    <3>1. DOMAIN s.users = 1..2
      BY <2>2, PairOfPlayers
    <3>2. asked \in [1..2 -> SUBSET Ids]
      BY <1>4, <3>1
    <3> QED
      BY <3>2, PairIsSeq
  <2> QED
    BY <1>3, <2>1, <2>2
<1>6. /\ n \in Call /\ n.step = s.step /\ n.users = s.users /\ n.asked = asked /\ n.fresh = s.fresh
      /\ n.blind = s.blind /\ n.result = s.result /\ n.batch = s.batch
  BY <1>2, <1>3, <1>5 DEF Call
<1>7. WellFormed(n) /\ FewRepeats(n)
  BY <1>4, <1>6 DEF Good, WellFormed, FewRepeats
<1>8. FreshSoFar(n)
  BY <1>4, <1>6 DEF Good, FreshSoFar
<1>9. HistoriesRemember(n, g)
  <2> SUFFICES ASSUME NEW i \in DOMAIN s.users PROVE asked[i] \subseteq g[s.users[i]]
    BY <1>6 DEF HistoriesRemember
  <2>1. CASE s.users[i] = u
    BY <1>1, <2>1
  <2>2. CASE s.users[i] # u
    <3>1. s.users[i] \in Users
      BY <1>3, PairOfPlayers
    <3>2. s.asked[i] \subseteq h[s.users[i]]
      BY DEF Good, HistoriesRemember
    <3> QED
      BY <1>4, <2>2, <3>1, <3>2
  <2> QED
    BY <2>1, <2>2
<1> QED
  BY <1>1, <1>2, <1>7, <1>8, <1>9 DEF Forget, Good

\* A history that is lost takes nothing from the calls but what they remember of it.
LEMMA HistoryExpiresKeeps ==
  ASSUME PackInv, NEW u \in Users, HistoryExpires(u)
  PROVE  PackInv'
<1>1. /\ hist' = [hist EXCEPT ![u] = {}] /\ ttl' \subseteq Users /\ pool' \subseteq Curated
      /\ hist' \in [Users -> SUBSET Ids] /\ \A v \in Users \ {u} : hist'[v] = hist[v]
  BY DEF HistoryExpires, PackInv
<1>2. ASSUME NEW c \in Calls PROVE Good(call'[c], hist')
  <2>1. Good(call[c], hist)
    BY DEF PackInv
  <2>2. CASE call[c].step \in Saving
    <3>1. call'[c] = call[c]
      BY <2>2 DEF HistoryExpires
    <3> QED
      BY <2>1, <2>2, <3>1 DEF Good, HistoriesRemember
  <2>3. CASE call[c].step \notin Saving
    <3>1. call'[c] = Forget(call[c], u)
      BY <2>3 DEF HistoryExpires
    <3>2. \A v \in Users \ {u} : hist'[v] = hist[v]
      BY <1>1
    <3>3. Good(Forget(call[c], u), hist')
      BY <2>1, <2>3, <3>2, ForgetGood
    <3> QED
      BY <3>1, <3>3
  <2> QED
    BY <2>2, <2>3
<1>3. call' \in [Calls -> Call]
  <2>1. \A c \in Calls : call'[c] \in Call
    BY <1>2 DEF Good, WellFormed
  <2>2. call' = [c \in Calls |-> call'[c]]
    BY DEF HistoryExpires
  <2> QED
    BY <2>1, <2>2
<1> QED
  BY <1>1, <1>2, <1>3 DEF PackInv

\* The invariant holds when no match has been asked for ...
LEMMA InitPack == Init => PackInv
<1> SUFFICES ASSUME Init PROVE PackInv
  OBVIOUS
<1>1. Good(Idle, hist) /\ Idle \in Call
  BY IdleGood DEF Good, WellFormed
<1> QED
  BY <1>1 DEF Init, PackInv

\* ... and every step keeps it.
LEMMA StepPack == PackInv /\ [Next]_vars => PackInv'
<1> SUFFICES ASSUME PackInv, [Next]_vars PROVE PackInv'
  OBVIOUS
<1>1. CASE UNCHANGED vars
  BY <1>1 DEF vars, PackInv
<1>2. ASSUME NEW c \in Calls, ReturnPack(c) PROVE PackInv'
  BY <1>2, IdleGood, GotoAlone DEF ReturnPack
<1> QED
  BY <1>1, <1>2, BeginKeeps, FetchCuratedKeeps, FetchAIKeeps, CheckHistoryKeeps,
     RegenerateKeeps, CheckNewKeeps, SaveHistoryKeeps, HistoryExpiresKeeps DEF Next

-----------------------------------------------------------------------------
(* Theorems *)

\* The invariant holds whatever the pool, the generator and other matches do.
LEMMA PackSafe == Spec => []PackInv
  BY InitPack, StepPack, PTL DEF Spec

\* Calls, histories and the pool are well typed for every pool, generator and
\* number of matches; a pack that is returned has exactly TotalQuestions.
THEOREM PackTypeCorrect == Spec => []TypeOK
<1>1. PackInv => TypeOK
  BY DEF PackInv, TypeOK, Good, WellFormed
<1> QED
  BY <1>1, PackSafe, PTL

\* Unless a history could not be read, no pack of a random match repeats more
\* than AllowedRepeats questions of what either player's history held when the
\* match was being created and did not lose while the pack was chosen, for every
\* pack size, and whenever histories grow and expire.
THEOREM RepeatsAreBounded == Spec => []RepeatsBounded
<1>1. PackInv => RepeatsBounded
  <2> SUFFICES ASSUME PackInv, NEW c \in Built, ~call[c].blind, NEW i \in DOMAIN call[c].users
               PROVE  Repeats(call[c].result, call[c].asked[i]) <= AllowedRepeats
    BY DEF RepeatsBounded
  <2>1. c \in Calls /\ Good(call[c], hist) /\ call[c].step # "built"
    BY DEF Built, PackInv, Good, WellFormed
  <2> QED
    BY <2>1 DEF Good, FewRepeats, Built
<1> QED
  BY <1>1, PackSafe, PTL

\* A pack that was rebuilt holds no question twice, and none that a player had
\* been asked when the match was being created, unless the history expired
\* meanwhile or could not be read.
THEOREM RebuiltPacksAreFresh == Spec => []RebuiltPackIsFresh
<1>1. PackInv => RebuiltPackIsFresh
  <2> SUFFICES ASSUME PackInv, NEW c \in Built, call[c].fresh
               PROVE  /\ IsInjective(call[c].result)
                      /\ ~call[c].blind => \A i \in {1, 2} : Repeats(call[c].result, call[c].asked[i]) = 0
    BY DEF RebuiltPackIsFresh
  <2>1. /\ Good(call[c], hist) /\ call[c].step \in Saving
        /\ DOMAIN call[c].users = {1, 2}
    BY PairOfPlayers DEF Built, PackInv, Good, WellFormed, FreshSoFar
  <2>2. IsInjective(call[c].result)
    BY <2>1 DEF Good, FreshSoFar
  <2>3. ~call[c].blind => \A i \in {1, 2} : ToSet(call[c].result) \cap call[c].asked[i] = {}
    BY <2>1 DEF Good, FreshSoFar
  <2> QED
    BY <2>2, <2>3, RepeatsNone
<1> QED
  BY <1>1, PackSafe, PTL
=============================================================================
