-------------------------- MODULE MatchmakingProofs --------------------------
(***************************************************************************)
(* Proofs about the matchmaking queue and the handlers on top of it.  The  *)
(* handlers use the queue as its specification allows, so what is proved   *)
(* of the queue holds of matchmaking as a whole, for every set of users    *)
(* and categories and any number of calls and disconnections.              *)
(***************************************************************************)
EXTENDS Matchmaking, FiniteSetTheorems, TLAPS

-----------------------------------------------------------------------------
(* The queue *)

\* The inductive invariant: the fate of a token needs the types, and the
\* legality of a pair needs that tokens grow.
QueueInv ==
  /\ QueueTypeOK
  /\ NoCompatiblePairWaits
  /\ OneFatePerToken
  /\ PairsAreLegal

\* The map is empty and no token is issued when NewManager returns.
LEMMA QueueInitInv == QueueInit => QueueInv
BY QueueAssumption
   DEF QueueInit, QueueInv, QueueTypeOK, NoCompatiblePairWaits, OneFatePerToken,
       PairsAreLegal, WaitingTokens, TokensOf, Tokens

\* Enqueue keeps the invariant when its scan stops at a partner.
LEMMA PairKeepsInv ==
  ASSUME QueueInv, NEW u \in Users, NEW c \in Categories,
         nextToken <= MaxEnqueues, nextToken' = nextToken + 1, cancelled' = cancelled,
         NEW player,
         player = [UserID |-> u, PreferredCategory |-> c, QueueToken |-> nextToken],
         NEW other \in Candidates(player), Pair(player, other)
  PROVE  QueueInv'
<1> USE QueueAssumption DEF QueueInv
<1>1. /\ player \in WaitingPlayer /\ other \in waiting /\ other \in WaitingPlayer
      /\ other.UserID # player.UserID /\ isCompatible(player, other)
      /\ player.QueueToken = nextToken
  BY DEF QueueTypeOK, WaitingPlayer, Tokens, Candidates
<1>2. other.QueueToken < nextToken /\ other.QueueToken \in Tokens
  BY <1>1 DEF OneFatePerToken, WaitingTokens, WaitingPlayer
<1> DEFINE new == [Player1 |-> player, Player2 |-> other]
<1>3. new \in MatchPair /\ TokensOf(new) = {nextToken, other.QueueToken}
  BY <1>1 DEF MatchPair, TokensOf
<1>4. waiting' = waiting \ {other} /\ pairs' = pairs \cup {new}
  BY DEF Pair
<1> HIDE DEF new
<1>5. QueueTypeOK'
  BY <1>3, <1>4 DEF QueueTypeOK, Tokens
<1>6. NoCompatiblePairWaits'
  BY <1>4 DEF NoCompatiblePairWaits, SameCategory, isCompatible, normalizeCategory
<1>7. WaitingTokens' = WaitingTokens \ {other.QueueToken}
  BY <1>1, <1>4 DEF WaitingTokens, OneFatePerToken
<1>8. \A p \in pairs : nextToken \notin TokensOf(p) /\ other.QueueToken \notin TokensOf(p)
  <2> TAKE p \in pairs
  <2>1. TokensOf(p) \subseteq Tokens
    BY DEF QueueTypeOK, MatchPair, WaitingPlayer, TokensOf
  <2> QED
    BY <2>1, <1>1, <1>2 DEF OneFatePerToken, WaitingTokens, QueueTypeOK, Tokens
<1>9. OneFatePerToken'
  <2>1. (\A a, b \in waiting : a.QueueToken = b.QueueToken => a = b)'
    BY <1>4 DEF OneFatePerToken
  <2>2. (\A p, q \in pairs : TokensOf(p) \cap TokensOf(q) # {} => p = q)'
    BY <1>3, <1>4, <1>8 DEF OneFatePerToken, TokensOf
  <2>3. nextToken \notin WaitingTokens \cup cancelled
    BY DEF OneFatePerToken, QueueTypeOK, Tokens, WaitingTokens
  <2>4. other.QueueToken \notin cancelled
    BY <1>1 DEF OneFatePerToken, WaitingTokens
  <2>5. (\A p \in pairs : TokensOf(p) \cap (WaitingTokens \cup cancelled) = {})'
    <3> SUFFICES ASSUME NEW p \in pairs'
                 PROVE  TokensOf(p) \cap ((WaitingTokens \ {other.QueueToken}) \cup cancelled) = {}
      BY <1>7 DEF TokensOf
    <3>1. CASE p = new
      BY <3>1, <1>3, <2>3, <2>4
    <3>2. CASE p \in pairs
      BY <3>2 DEF OneFatePerToken
    <3> QED BY <3>1, <3>2, <1>4
  <2>6. (WaitingTokens \cap cancelled = {})'
    BY <1>7 DEF OneFatePerToken
  <2>7. (\A t \in Tokens :
           t < nextToken <=> \/ t \in WaitingTokens \cup cancelled
                             \/ \E p \in pairs : t \in TokensOf(p))'
    <3> SUFFICES ASSUME NEW t \in Tokens
                 PROVE  t < nextToken + 1 <=>
                          \/ t \in (WaitingTokens \ {other.QueueToken}) \cup cancelled
                          \/ t \in {nextToken, other.QueueToken}
                          \/ \E p \in pairs : t \in TokensOf(p)
      BY <1>3, <1>4, <1>7 DEF Tokens, TokensOf
    <3>1. t < nextToken + 1 <=> t < nextToken \/ t = nextToken
      BY DEF QueueTypeOK, Tokens
    <3> QED BY <1>1, <1>2, <3>1 DEF OneFatePerToken, WaitingTokens
  <2> QED BY <2>1, <2>2, <2>5, <2>6, <2>7 DEF OneFatePerToken
<1>10. PairsAreLegal'
  <2>1. new.Player1 = player /\ new.Player2 = other
    BY DEF new
  <2> QED
    BY <1>1, <1>2, <1>4, <2>1 DEF PairsAreLegal, SameCategory, isCompatible, normalizeCategory
<1> QED BY <1>5, <1>6, <1>9, <1>10

\* Enqueue keeps the invariant when no waiting player is compatible.
LEMMA WaitKeepsInv ==
  ASSUME QueueInv, NEW u \in Users, NEW c \in Categories,
         nextToken <= MaxEnqueues, nextToken' = nextToken + 1, cancelled' = cancelled,
         NEW player,
         player = [UserID |-> u, PreferredCategory |-> c, QueueToken |-> nextToken],
         Candidates(player) = {}, waiting' = waiting \cup {player}, pairs' = pairs
  PROVE  QueueInv'
<1> USE QueueAssumption DEF QueueInv
<1>1. player \in WaitingPlayer /\ player.QueueToken = nextToken
  BY DEF QueueTypeOK, WaitingPlayer, Tokens
<1>2. QueueTypeOK'
  BY <1>1 DEF QueueTypeOK, Tokens
<1>3. \A w \in waiting : w.UserID # player.UserID => ~isCompatible(player, w)
  BY DEF Candidates
<1>4. NoCompatiblePairWaits'
  BY <1>3 DEF NoCompatiblePairWaits, SameCategory, isCompatible, normalizeCategory
<1>5. WaitingTokens' = WaitingTokens \cup {nextToken}
  BY <1>1 DEF WaitingTokens
<1>6. nextToken \notin WaitingTokens \cup cancelled
  BY DEF OneFatePerToken, QueueTypeOK, Tokens, WaitingTokens
<1>7. \A p \in pairs : nextToken \notin TokensOf(p)
  BY <1>1 DEF OneFatePerToken, QueueTypeOK, Tokens, TokensOf, MatchPair, WaitingPlayer
<1>8. OneFatePerToken'
  <2>1. (\A a, b \in waiting : a.QueueToken = b.QueueToken => a = b)'
    BY <1>1, <1>6 DEF OneFatePerToken, WaitingTokens
  <2>2. (\A t \in Tokens :
           t < nextToken <=> \/ t \in WaitingTokens \cup cancelled
                             \/ \E p \in pairs : t \in TokensOf(p))'
    <3> SUFFICES ASSUME NEW t \in Tokens
                 PROVE  t < nextToken + 1 <=>
                          \/ t \in WaitingTokens \cup {nextToken} \cup cancelled
                          \/ \E p \in pairs : t \in TokensOf(p)
      BY <1>5 DEF Tokens, TokensOf
    <3>1. t < nextToken + 1 <=> t < nextToken \/ t = nextToken
      BY DEF QueueTypeOK, Tokens
    <3> QED BY <3>1, <1>7 DEF OneFatePerToken
  <2> QED BY <1>5, <1>6, <1>7, <2>1, <2>2 DEF OneFatePerToken, TokensOf
<1>9. PairsAreLegal'
  BY DEF PairsAreLegal, SameCategory, isCompatible, normalizeCategory
<1> QED BY <1>2, <1>4, <1>8, <1>9

\* Dequeue keeps the invariant.
LEMMA DequeueKeepsInv ==
  ASSUME QueueInv, NEW t \in Tokens, Dequeue(t)
  PROVE  QueueInv'
<1> USE QueueAssumption DEF QueueInv
<1>1. /\ waiting' = {w \in waiting : w.QueueToken # t} /\ cancelled' = cancelled \cup {t}
      /\ nextToken' = nextToken /\ pairs' = pairs
      /\ t \in WaitingTokens
  BY DEF Dequeue, WaitingTokens
<1>2. WaitingTokens' = WaitingTokens \ {t}
  BY <1>1 DEF WaitingTokens
<1>3. QueueTypeOK'
  BY <1>1 DEF QueueTypeOK
<1>4. NoCompatiblePairWaits'
  BY <1>1 DEF NoCompatiblePairWaits, SameCategory, isCompatible, normalizeCategory
<1>5. OneFatePerToken'
  BY <1>1, <1>2 DEF OneFatePerToken, TokensOf
<1>6. PairsAreLegal'
  BY <1>1 DEF PairsAreLegal, SameCategory, isCompatible, normalizeCategory
<1> QED BY <1>3, <1>4, <1>5, <1>6

\* Every step of the manager keeps the inductive invariant.
LEMMA QueueStepInv == QueueInv /\ [QueueNext]_queueVars => QueueInv'
<1> SUFFICES ASSUME QueueInv, [QueueNext]_queueVars PROVE QueueInv'
  OBVIOUS
<1>1. CASE \E u \in Users, c \in Categories : Enqueue(u, c)
  <2> PICK u \in Users, c \in Categories : Enqueue(u, c)
    BY <1>1
  <2> DEFINE player == [UserID |-> u, PreferredCategory |-> c, QueueToken |-> nextToken]
  <2>1. CASE \E other \in Candidates(player) : Pair(player, other)
    <3> PICK other \in Candidates(player) : Pair(player, other)
      BY <2>1
    <3> HIDE DEF QueueInv
    <3> QED BY PairKeepsInv DEF Enqueue
  <2>2. CASE /\ Candidates(player) = {}
             /\ waiting' = waiting \cup {player}
             /\ UNCHANGED pairs
    BY <2>2, WaitKeepsInv DEF Enqueue
  <2> QED BY <2>1, <2>2 DEF Enqueue
<1>2. CASE \E t \in Tokens : Dequeue(t)
  BY <1>2, DequeueKeepsInv
<1>3. CASE UNCHANGED queueVars
  BY <1>3 DEF queueVars, QueueInv, QueueTypeOK, NoCompatiblePairWaits, OneFatePerToken,
              PairsAreLegal, WaitingTokens, TokensOf, SameCategory, isCompatible, normalizeCategory
<1> QED BY <1>1, <1>2, <1>3 DEF QueueNext

(***************************************************************************)
(* For any number of users, categories and calls: the queue's state is     *)
(* well typed, no two compatible players of different users ever wait      *)
(* together, every token has exactly one fate, and every pair is legal.    *)
(***************************************************************************)
THEOREM QueueSafe == QueueSpec => [](QueueTypeOK /\ NoCompatiblePairWaits /\ OneFatePerToken /\ PairsAreLegal)
<1>1. QueueSpec => []QueueInv
  BY QueueInitInv, QueueStepInv, PTL DEF QueueSpec
<1>2. QueueInv => QueueTypeOK /\ NoCompatiblePairWaits /\ OneFatePerToken /\ PairsAreLegal
  BY DEF QueueInv
<1> QED BY <1>1, <1>2, PTL

-----------------------------------------------------------------------------
(* The handlers *)

\* The handler's default for an empty category is one the queue knows.
LEMMA HandlerCategory == \A c \in Categories : normalizeCategory(c) \in Categories
  BY QueueAssumption DEF normalizeCategory

\* Every step of matchmaking is one step of the queue or leaves it alone.
LEMMA StepIsQueueStep == [Next]_vars => [QueueNext]_queueVars
<1> SUFFICES ASSUME [Next]_vars PROVE [QueueNext]_queueVars
  OBVIOUS
<1>1. CASE UNCHANGED vars
  BY <1>1 DEF vars, queueVars
<1>2. ASSUME NEW u \in Users, NEW c \in Categories, JoinQueue(u, c) PROVE QueueNext
  BY <1>2, HandlerCategory DEF JoinQueue, QueueNext
<1>3. ASSUME NEW t \in Tokens, CancelQueue(t) PROVE QueueNext
  BY <1>3 DEF CancelQueue, QueueNext
<1>4. ASSUME NEW u \in Users, Connect(u) \/ Disconnect(u) \/ \E t \in Tokens : LeaveMatch(u, t)
      PROVE  UNCHANGED queueVars
  BY <1>4 DEF Connect, Disconnect, LeaveMatch
<1>5. ASSUME NEW t \in Tokens, CallStep(t) PROVE UNCHANGED queueVars
  BY <1>5 DEF CallStep, CreateRandomMatch, JoinSelf, JoinOther, BroadcastFound, SendQuestions,
     FetchSlice, SendToCell,
     ReadPosition, SendUpdate
<1> QED
  BY <1>1, <1>2, <1>3, <1>4, <1>5 DEF Next

\* Matchmaking implements the queue's specification: the handlers change the
\* queue through Enqueue and Dequeue and in no other way.
THEOREM ImplementsQueue == Spec => QueueSpec
<1>1. Init => QueueInit
  BY DEF Init
<1> QED
  BY <1>1, StepIsQueueStep, PTL DEF Spec, QueueSpec

\* Through any interleaving of joins, cancels, failing creations and dropped
\* connections no two compatible users wait side by side, and no queue token is
\* matched twice or matched after its cancellation.
THEOREM MatchmakingQueueSafe == Spec => [](NoCompatiblePairWaits /\ OneFatePerToken /\ PairsAreLegal)
  BY ImplementsQueue, QueueSafe, PTL

\* Every pair is of two users of one category, the later one first, whoever of them
\* has left or cancelled in the meantime.
THEOREM PairsStayLegal == Spec => []PairsAreLegal
  BY MatchmakingQueueSafe, PTL

(* Types *)

\* No more entries wait than tokens were issued, as each has a token of its own.
LEMMA WaitingBounded ==
  ASSUME QueueTypeOK, OneFatePerToken
  PROVE  Cardinality(waiting) \in 0..MaxEnqueues
<1> DEFINE tok == [w \in waiting |-> w.QueueToken]
<1>1. IsFiniteSet(Tokens) /\ Cardinality(Tokens) = MaxEnqueues
  BY FS_Interval, QueueAssumption DEF Tokens
<1>2. tok \in Injection(waiting, Tokens)
  BY DEF Injection, IsInjective, OneFatePerToken, QueueTypeOK, WaitingPlayer
<1>3. IsFiniteSet(waiting) /\ Cardinality(waiting) <= Cardinality(Tokens)
  BY <1>1, <1>2, FS_Injection
<1>4. Cardinality(waiting) \in Nat
  BY <1>3, FS_CardinalityType
<1> QED
  BY <1>1, <1>3, <1>4, QueueAssumption

\* The state around the queue.
HandlersOK ==
  /\ call \in [Tokens -> Call]
  /\ online \subseteq Users
  /\ members \in [Tokens -> Slice]
  /\ \A t \in Tokens : members[t].len <= Len(members[t].cells)
  /\ inbox \in [Users -> Seq(Message)]
  /\ drops \in 0..MaxDrops

\* A call has the users of its pair by the time it uses them.
Begun ==
  \A t \in Tokens : /\ call[t].step # "idle" => call[t].user \in Users
                    /\ call[t].step \in {"create", "self", "other"} => call[t].opponent \in Users

HandlerInv == HandlersOK /\ Begun

\* Before anyone has connected.
LEMMA InitHandlers == Init => HandlerInv
<1> SUFFICES ASSUME Init PROVE HandlerInv
  OBVIOUS
<1>1. [step |-> "idle", user |-> NoUser, opponent |-> NoUser, pos |-> -1,
       i |-> 0, n |-> 0, steady |-> {}] \in Call
  BY QueueAssumption DEF Call
<1>2. <<>> \in Seq(Users) /\ Len(<<>>) = 0 /\ <<>> \in Seq(Message)
  OBVIOUS
<1>3. [cells |-> <<>>, len |-> 0] \in Slice
  BY <1>2 DEF Slice
<1> QED
  BY <1>1, <1>2, <1>3, MatchmakingAssumption DEF Init, HandlerInv, HandlersOK, Begun

\* A slice that can be: it does not reach past its cells.
SliceOK(m) == m \in Slice /\ m.len <= Len(m.cells)

\* A departure takes one user out: the cells keep their number and hold nobody
\* new, the first and the last user in the slice keep their places unless it is
\* they who leave, and the cells from the last on are left as they were.
WithoutIs(m, u, r) ==
  /\ SliceOK(r) /\ Len(r.cells) = Len(m.cells) /\ r.len <= m.len
  /\ \A j \in 1..Len(m.cells) : \E k \in 1..Len(m.cells) : r.cells[j] = m.cells[k]
  /\ \A j \in 1..Len(m.cells) : j >= m.len => r.cells[j] = m.cells[j]
  /\ m.len >= 1 /\ m.cells[1] # u => r.len >= 1 /\ r.cells[1] = m.cells[1]
  /\ m.len >= 1 /\ m.cells[m.len] # u => r.len >= 1 /\ r.cells[r.len] = m.cells[m.len]
  /\ (\A k \in 1..Len(m.cells) : m.cells[k] # u) => r = m

LEMMA WithoutProps == ASSUME NEW m, SliceOK(m), NEW u PROVE WithoutIs(m, u, Without(m, u))
<1>1. m.cells \in Seq(Users) /\ m.len \in Nat /\ m.len <= Len(m.cells)
  BY DEF SliceOK, Slice
<1>2. PICK N : N = Len(m.cells)
  OBVIOUS
<1>3. N \in Nat /\ DOMAIN m.cells = 1..N /\ m.cells \in [1..N -> Users]
  BY <1>1, <1>2
<1>4. CASE u \notin Held(m)
  <2>1. Without(m, u) = m
    BY <1>4 DEF Without
  <2> QED
    BY <1>1, <2>1 DEF WithoutIs
<1>5. CASE u \in Held(m)
  <2> DEFINE P(j) == j \in 1..m.len /\ m.cells[j] = u
  <2>1. PICK k : k = CHOOSE j \in 1..m.len : m.cells[j] = u
    OBVIOUS
  <2>2. k \in 1..m.len /\ m.cells[k] = u
    BY <1>5, <2>1 DEF Held
  <2>3. PICK f : f = [j \in DOMAIN m.cells |-> IF j \in k..(m.len - 1) THEN m.cells[j + 1] ELSE m.cells[j]]
    OBVIOUS
  <2>4. PICK l : l = m.len - 1
    OBVIOUS
  <2>5. PICK r : r = [cells |-> f, len |-> l]
    OBVIOUS
  <2>6. Without(m, u) = r
    BY <1>5, <2>1, <2>3, <2>4, <2>5 DEF Without
  <2>7. r.cells = f /\ r.len = l /\ l \in Nat
    BY <1>1, <2>2, <2>4, <2>5
  <2>8. /\ \A j \in 1..N : j \in k..(m.len - 1) => f[j] = m.cells[j + 1]
        /\ \A j \in 1..N : j \notin k..(m.len - 1) => f[j] = m.cells[j]
    BY <1>3, <2>3
  <2>9. f \in [1..N -> Users]
    <3>1. \A j \in 1..N : (IF j \in k..(m.len - 1) THEN m.cells[j + 1] ELSE m.cells[j]) \in Users
      BY <1>1, <1>2, <1>3, <2>2
    <3> QED
      BY <1>3, <2>3, <3>1
  <2>10. f \in Seq(Users) /\ Len(f) = N
    <3>1. \A n \in Nat : \A g \in [1..n -> Users] : g \in Seq(Users) /\ Len(g) = n
      OBVIOUS
    <3> QED
      BY <1>3, <2>9, <3>1
  <2>11. SliceOK(r)
    <3>1. r \in Slice
      BY <2>5, <2>7, <2>10 DEF Slice
    <3> QED
      BY <1>1, <1>2, <2>4, <2>7, <2>10, <3>1 DEF SliceOK
  <2>12. \A j \in 1..N : \E i \in 1..N : f[j] = m.cells[i]
    <3> SUFFICES ASSUME NEW j \in 1..N PROVE \E i \in 1..N : f[j] = m.cells[i]
      OBVIOUS
    <3>1. CASE j \in k..(m.len - 1)
      <4>1. j + 1 \in 1..N
        BY <1>1, <1>2, <2>2, <3>1
      <4> QED
        BY <2>8, <3>1, <4>1
    <3>2. CASE j \notin k..(m.len - 1)
      BY <2>8, <3>2
    <3> QED
      BY <3>1, <3>2
  <2>13. \A j \in 1..N : j >= m.len => f[j] = m.cells[j]
    BY <1>1, <2>2, <2>8
  <2>14. m.cells[1] # u => l >= 1 /\ f[1] = m.cells[1]
    <3> SUFFICES ASSUME m.cells[1] # u PROVE l >= 1 /\ f[1] = m.cells[1]
      OBVIOUS
    <3>1. k # 1
      BY <2>2
    <3>2. l >= 1 /\ 1 \in 1..N /\ 1 \notin k..(m.len - 1)
      BY <1>1, <1>2, <2>2, <2>4, <3>1
    <3> QED
      BY <2>8, <3>2
  <2>15. m.cells[m.len] # u => l >= 1 /\ f[l] = m.cells[m.len]
    <3> SUFFICES ASSUME m.cells[m.len] # u PROVE l >= 1 /\ f[l] = m.cells[m.len]
      OBVIOUS
    <3>1. k # m.len
      BY <2>2
    <3>2. l >= 1 /\ l \in 1..N /\ l \in k..(m.len - 1) /\ l + 1 = m.len
      BY <1>1, <1>2, <2>2, <2>4, <3>1
    <3>3. f[l] = m.cells[l + 1]
      BY <2>8, <3>2
    <3> QED
      BY <3>2, <3>3
  <2>16. ~ \A j \in 1..Len(m.cells) : m.cells[j] # u
    BY <1>1, <2>2
  <2>17. l <= m.len
    BY <1>1, <2>4
  <2>18. WithoutIs(m, u, r)
    BY <1>2, <2>7, <2>10, <2>11, <2>12, <2>13, <2>14, <2>15, <2>16, <2>17 DEF WithoutIs
  <2> QED
    BY <2>6, <2>18
<1> QED
  BY <1>4, <1>5

\* An arrival goes behind those who are there.
WithIs(m, u, r) ==
  /\ SliceOK(r)
  /\ u \notin Held(m) =>
       /\ r.len = m.len + 1 /\ r.cells[r.len] = u
       /\ \A j \in 1..m.len : r.cells[j] = m.cells[j]
       /\ \A j \in 1..Len(r.cells) : r.cells[j] = u \/ \E k \in 1..Len(m.cells) : r.cells[j] = m.cells[k]

LEMMA WithProps == ASSUME NEW m, SliceOK(m), NEW u \in Users PROVE WithIs(m, u, With(m, u))
<1>1. m.cells \in Seq(Users) /\ m.len \in Nat /\ m.len <= Len(m.cells) /\ Len(m.cells) \in Nat
  BY DEF SliceOK, Slice
<1>2. CASE u \in Held(m)
  BY <1>2 DEF With, WithIs
<1>3. CASE u \notin Held(m)
  <2>1. PICK f : f = IF m.len < Len(m.cells) THEN [m.cells EXCEPT ![m.len + 1] = u] ELSE Append(m.cells, u)
    OBVIOUS
  <2>2. PICK r : r = [cells |-> f, len |-> m.len + 1]
    OBVIOUS
  <2>3. With(m, u) = r /\ r.cells = f /\ r.len = m.len + 1
    BY <1>3, <2>1, <2>2 DEF With
  <2>4. /\ f \in Seq(Users) /\ m.len + 1 <= Len(f)
        /\ f[m.len + 1] = u
        /\ \A j \in 1..m.len : f[j] = m.cells[j]
        /\ \A j \in 1..Len(f) : f[j] = u \/ \E k \in 1..Len(m.cells) : f[j] = m.cells[k]
    <3>1. CASE m.len < Len(m.cells)
      <4>1. f = [m.cells EXCEPT ![m.len + 1] = u]
        BY <2>1, <3>1
      <4>2. /\ f \in Seq(Users) /\ Len(f) = Len(m.cells) /\ f[m.len + 1] = u
            /\ \A j \in 1..Len(m.cells) : j # m.len + 1 => f[j] = m.cells[j]
        BY <1>1, <3>1, <4>1
      <4> QED
        BY <1>1, <3>1, <4>2
    <3>2. CASE ~(m.len < Len(m.cells))
      <4>1. f = Append(m.cells, u) /\ m.len = Len(m.cells)
        BY <1>1, <2>1, <3>2
      <4>2. /\ f \in Seq(Users) /\ Len(f) = Len(m.cells) + 1 /\ f[Len(m.cells) + 1] = u
            /\ \A j \in 1..Len(m.cells) : f[j] = m.cells[j]
        BY <1>1, <4>1
      <4>3. \A j \in 1..(Len(m.cells) + 1) : j \in 1..Len(m.cells) \/ j = Len(m.cells) + 1
        BY <1>1
      <4> QED
        BY <1>1, <4>1, <4>2, <4>3
    <3> QED
      BY <3>1, <3>2
  <2>5. SliceOK(r)
    BY <1>1, <2>2, <2>3, <2>4 DEF SliceOK, Slice
  <2>6. WithIs(m, u, r)
    BY <2>3, <2>4, <2>5 DEF WithIs
  <2> QED
    BY <2>3, <2>6
<1> QED
  BY <1>2, <1>3

\* A step of a call that puts one record in place of another.
LEMMA CallMoves ==
  ASSUME HandlersOK, NEW t \in Tokens, NEW r \in Call, call' = [call EXCEPT ![t] = r]
  PROVE  /\ call' \in [Tokens -> Call] /\ call'[t] = r
         /\ \A d \in Tokens \ {t} : call'[d] = call[d]
BY DEF HandlersOK

\* The fields of a record that is moved on.
SameCall(a, b) ==
  /\ a.user = b.user /\ a.opponent = b.opponent /\ a.pos = b.pos
  /\ a.steady \subseteq b.steady

Steps == {"idle", "create", "self", "other", "fetch", "found", "refetch", "questions",
          "position", "update", "failed", "done"}

LEMMA StepIs ==
  ASSUME NEW c \in Call, NEW s \in Steps, NEW r, r = [c EXCEPT !.step = s]
  PROVE  r \in Call /\ r.step = s /\ SameCall(r, c) /\ r.steady = c.steady
BY DEF Call, SameCall, Steps

LEMMA TurnIs ==
  ASSUME NEW c \in Call, NEW i \in Nat, NEW r, r = [c EXCEPT !.i = i]
  PROVE  r \in Call /\ r.step = c.step /\ r.i = i /\ r.n = c.n /\ SameCall(r, c) /\ r.steady = c.steady
BY DEF Call, SameCall

\* Where a step of the handler leads.
LEMMA GotoIs ==
  ASSUME HandlersOK, NEW t \in Tokens, NEW step \in Steps, Goto(t, step)
  PROVE  /\ call' \in [Tokens -> Call]
         /\ call'[t].step = step /\ SameCall(call'[t], call[t]) /\ call'[t].steady = call[t].steady
         /\ \A d \in Tokens \ {t} : call'[d] = call[d]
<1>1. call[t] \in Call
  BY DEF HandlersOK
<1>2. PICK r : r = [call[t] EXCEPT !.step = step]
  OBVIOUS
<1>3. call' = [call EXCEPT ![t] = r]
  BY <1>2 DEF Goto, HandlersOK
<1>4. r \in Call /\ r.step = step /\ SameCall(r, call[t]) /\ r.steady = call[t].steady
  BY <1>1, <1>2, StepIs
<1> QED
  BY <1>3, <1>4, CallMoves

\* Where the loop of a broadcast begins, or ends at once.
LEMMA FetchIs ==
  ASSUME HandlersOK, NEW t \in Tokens, NEW from, NEW loop \in {"found", "questions"},
         NEW next \in {"refetch", "done"}, FetchSlice(t, from, loop, next)
  PROVE  /\ call[t].step = from /\ UNCHANGED <<queueVars, online, members, inbox, drops>>
         /\ call' \in [Tokens -> Call] /\ \A d \in Tokens \ {t} : call'[d] = call[d]
         /\ SameCall(call'[t], call[t]) /\ call'[t].steady = call[t].steady
         /\ members[t].len = 0 => call'[t].step = next
         /\ members[t].len # 0 => call'[t].step = loop /\ call'[t].i = 1 /\ call'[t].n = members[t].len
<1>1. call[t] \in Call /\ members[t].len \in Nat
  BY DEF HandlersOK, Slice
<1>2. CASE members[t].len = 0
  <2>1. PICK r : r = [call[t] EXCEPT !.step = next]
    OBVIOUS
  <2>2. call' = [call EXCEPT ![t] = r]
    BY <1>2, <2>1 DEF FetchSlice, HandlersOK
  <2>3. r \in Call /\ r.step = next /\ SameCall(r, call[t]) /\ r.steady = call[t].steady
    BY <1>1, <2>1, StepIs DEF Steps
  <2> QED
    BY <1>2, <2>2, <2>3, CallMoves DEF FetchSlice
<1>3. CASE members[t].len # 0
  <2>1. PICK r : r = [call[t] EXCEPT !.step = loop, !.i = 1, !.n = members[t].len]
    OBVIOUS
  <2>2. call' = [call EXCEPT ![t] = r]
    BY <1>3, <2>1 DEF FetchSlice, HandlersOK
  <2>3. /\ r \in Call /\ r.step = loop /\ r.i = 1 /\ r.n = members[t].len
        /\ SameCall(r, call[t]) /\ r.steady = call[t].steady
    <3>1. loop \in Steps /\ 1 \in Nat
      BY DEF Steps
    <3> QED
      BY <1>1, <2>1, <3>1 DEF Call, SameCall, Steps
  <2> QED
    BY <1>3, <2>2, <2>3, CallMoves DEF FetchSlice
<1> QED
  BY <1>2, <1>3

\* A message is delivered, or it is not and its addressee is steady no longer.
Delivery(t, u, type, next) ==
  /\ call' \in [Tokens -> Call] /\ \A d \in Tokens \ {t} : call'[d] = call[d]
  /\ inbox' \in [Users -> Seq(Message)]
  /\ SameCall(call'[t], next) /\ call'[t].step = next.step
  /\ call'[t].i = next.i /\ call'[t].n = next.n
  /\ \/ /\ u \in online /\ call'[t].steady = next.steady
        /\ inbox' = [inbox EXCEPT ![u] = Append(inbox[u], [type |-> type, call |-> t])]
     \/ call'[t].steady = next.steady \ {u} /\ inbox' = inbox

LEMMA SendToUserIs ==
  ASSUME HandlersOK, NEW t \in Tokens, NEW u, NEW type \in {"match_found", "question_batch"},
         NEW next \in Call, SendToUser(t, u, type, next)
  PROVE  Delivery(t, u, type, next)
<1>1. CASE /\ u \in online
           /\ inbox' = [inbox EXCEPT ![u] = Append(@, [type |-> type, call |-> t])]
           /\ call' = [call EXCEPT ![t] = next]
  <2>1. [type |-> type, call |-> t] \in Message
    BY DEF Message
  <2>2. inbox' = [inbox EXCEPT ![u] = Append(inbox[u], [type |-> type, call |-> t])]
    BY <1>1
  <2>3. inbox' \in [Users -> Seq(Message)]
    <3>1. inbox[u] \in Seq(Message) /\ inbox \in [Users -> Seq(Message)]
      BY <1>1 DEF HandlersOK
    <3>2. \A s \in Seq(Message), m \in Message : Append(s, m) \in Seq(Message)
      OBVIOUS
    <3>3. PICK s : s = Append(inbox[u], [type |-> type, call |-> t])
      OBVIOUS
    <3> QED
      BY <2>1, <2>2, <3>1, <3>2, <3>3
  <2>4. /\ call' \in [Tokens -> Call] /\ call'[t] = next
        /\ \A d \in Tokens \ {t} : call'[d] = call[d]
    BY <1>1, CallMoves
  <2> QED
    BY <1>1, <2>2, <2>3, <2>4 DEF SameCall, Delivery
<1>2. CASE /\ call' = [call EXCEPT ![t] = [next EXCEPT !.steady = @ \ {u}]]
           /\ UNCHANGED inbox
  <2>1. PICK r : r = [next EXCEPT !.steady = next.steady \ {u}]
    OBVIOUS
  <2>2. /\ r \in Call /\ SameCall(r, next) /\ r.step = next.step
        /\ r.i = next.i /\ r.n = next.n /\ r.steady = next.steady \ {u}
    BY <2>1 DEF Call, SameCall
  <2>3. /\ call' \in [Tokens -> Call] /\ call'[t] = r
        /\ \A d \in Tokens \ {t} : call'[d] = call[d]
    BY <1>2, <2>1, <2>2, CallMoves
  <2>4. inbox' = inbox /\ inbox' \in [Users -> Seq(Message)]
    BY <1>2 DEF HandlersOK
  <2> QED
    BY <2>2, <2>3, <2>4 DEF Delivery
<1> QED
  BY <1>1, <1>2 DEF SendToUser

\* A turn of the loop of a broadcast.
CellStep(t, loop, type, next, u) ==
  /\ call[t].step = loop /\ UNCHANGED <<queueVars, online, members, drops>>
  /\ call' \in [Tokens -> Call] /\ \A d \in Tokens \ {t} : call'[d] = call[d]
  /\ inbox' \in [Users -> Seq(Message)]
  /\ SameCall(call'[t], call[t])
  /\ call[t].i = call[t].n => call'[t].step = next
  /\ call[t].i # call[t].n =>
       call'[t].step = loop /\ call'[t].i = call[t].i + 1 /\ call'[t].n = call[t].n
  /\ \/ /\ u \in online /\ call'[t].steady = call[t].steady
        /\ inbox' = [inbox EXCEPT ![u] = Append(inbox[u], [type |-> type, call |-> t])]
     \/ call'[t].steady = call[t].steady \ {u} /\ inbox' = inbox

LEMMA CellIs ==
  ASSUME HandlersOK, NEW t \in Tokens, NEW loop \in {"found", "questions"},
         NEW type \in {"match_found", "question_batch"}, NEW next \in {"refetch", "done"},
         SendToCell(t, loop, type, next), NEW u, u = members[t].cells[call[t].i]
  PROVE  CellStep(t, loop, type, next, u)
<1>1. call[t] \in Call
  BY DEF HandlersOK
<1>2. PICK c : c = call[t]
  OBVIOUS
<1>3. c \in Call /\ c.i \in Nat /\ c.i + 1 \in Nat /\ c.step = loop
  BY <1>1, <1>2 DEF Call, SendToCell
<1>4. PICK r : r = IF c.i = c.n THEN [c EXCEPT !.step = next, !.i = 0, !.n = 0] ELSE [c EXCEPT !.i = c.i + 1]
  OBVIOUS
<1>5. SendToUser(t, u, type, r) /\ UNCHANGED <<queueVars, online, members, drops>>
  BY <1>2, <1>4 DEF SendToCell
<1>6. /\ r \in Call /\ SameCall(r, c) /\ r.steady = c.steady
      /\ c.i = c.n => r.step = next
      /\ c.i # c.n => r.step = c.step /\ r.i = c.i + 1 /\ r.n = c.n
  <2>1. CASE c.i = c.n
    <3>1. r = [c EXCEPT !.step = next, !.i = 0, !.n = 0] /\ next \in Steps /\ 0 \in Nat
      BY <1>4, <2>1 DEF Steps
    <3> QED
      BY <1>3, <2>1, <3>1 DEF Call, SameCall, Steps
  <2>2. CASE c.i # c.n
    <3>1. r = [c EXCEPT !.i = c.i + 1]
      BY <1>4, <2>2
    <3> QED
      BY <1>3, <2>2, <3>1, TurnIs
  <2> QED
    BY <2>1, <2>2
<1>7. /\ call' \in [Tokens -> Call] /\ \A d \in Tokens \ {t} : call'[d] = call[d]
      /\ inbox' \in [Users -> Seq(Message)]
      /\ SameCall(call'[t], r) /\ call'[t].step = r.step
      /\ call'[t].i = r.i /\ call'[t].n = r.n
      /\ \/ /\ u \in online /\ call'[t].steady = r.steady
            /\ inbox' = [inbox EXCEPT ![u] = Append(inbox[u], [type |-> type, call |-> t])]
         \/ call'[t].steady = r.steady \ {u} /\ inbox' = inbox
  <2>1. Delivery(t, u, type, r)
    BY <1>5, <1>6, SendToUserIs
  <2> QED
    BY <2>1 DEF Delivery
<1>8. SameCall(call'[t], c)
  BY <1>6, <1>7 DEF SameCall
<1> QED
  BY <1>2, <1>3, <1>5, <1>6, <1>7, <1>8 DEF CellStep

\* A call keeps its users once it has begun.
LEMMA BegunKept ==
  ASSUME HandlerInv, NEW t \in Tokens, call[t].step # "idle", SameCall(call'[t], call[t]),
         \A d \in Tokens \ {t} : call'[d] = call[d],
         call'[t].step \in {"self", "other"} => call[t].step \in {"create", "self"},
         call'[t].step # "create"
  PROVE  Begun'
BY DEF HandlerInv, Begun, SameCall

\* What a join makes of its call: it waits, or it has a pair of two.
JoinQueueIs(t, u) ==
  /\ \A d \in Tokens \ {t} : call'[d] = call[d]
  /\ call'[t].user = u
  /\ \/ call'[t].step = "position" /\ call'[t].steady = call[t].steady
     \/ /\ call'[t].step = "create"
        /\ call'[t].opponent \in Users /\ call'[t].opponent # u
        /\ call'[t].steady \subseteq {u, call'[t].opponent}

\* A join takes the next token, and its pair if it finds one.
LEMMA JoinQueueTypes ==
  ASSUME HandlerInv, QueueTypeOK, NEW u \in Users, NEW c \in Categories, JoinQueue(u, c)
  PROVE  HandlerInv' /\ JoinQueueIs(nextToken, u)
<1>1. PICK t \in Tokens : t = nextToken
  BY DEF JoinQueue, Enqueue, QueueTypeOK, Tokens
<1>2. UNCHANGED <<online, members, inbox, drops>>
  BY DEF JoinQueue
<1>3. call[t] \in Call /\ call \in [Tokens -> Call] /\ online \subseteq Users
  BY DEF HandlerInv, HandlersOK
<1>4. ASSUME NEW r \in Call, call' = [call EXCEPT ![t] = r], r.user = u,
             r.step = "create" => r.opponent \in Users, r.step \in {"position", "create"}
      PROVE  HandlerInv' /\ call'[t] = r /\ \A d \in Tokens \ {t} : call'[d] = call[d]
  BY <1>2, <1>3, <1>4 DEF HandlerInv, HandlersOK, Begun
<1>5. CASE call' = [call EXCEPT ![t].step = "position", ![t].user = u]
  <2>1. PICK r : r = [call[t] EXCEPT !.step = "position", !.user = u]
    OBVIOUS
  <2>2. r \in Call /\ r.user = u /\ r.step = "position" /\ r.steady = call[t].steady
    BY <1>3, <2>1 DEF Call
  <2>3. call' = [call EXCEPT ![t] = r]
    BY <1>3, <1>5, <2>1
  <2> QED
    BY <1>1, <1>4, <2>2, <2>3 DEF JoinQueueIs
<1>6. ASSUME NEW p \in pairs' \ pairs,
             call' = [call EXCEPT ![t] =
                        [step |-> "create", user |-> u, opponent |-> p.Player2.UserID, pos |-> -1,
                         i |-> 0, n |-> 0, steady |-> online \cap {u, p.Player2.UserID}]]
      PROVE  HandlerInv' /\ JoinQueueIs(nextToken, u)
  <2>1. PICK d : d = normalizeCategory(c)
    OBVIOUS
  <2>2. PICK player : player = [UserID |-> u, PreferredCategory |-> d, QueueToken |-> nextToken]
    OBVIOUS
  <2>3. \E w \in Candidates(player) : pairs' = pairs \cup {[Player1 |-> player, Player2 |-> w]}
    BY <1>6, <2>1, <2>2 DEF JoinQueue, Enqueue, Pair
  <2>4. PICK w : w \in Candidates(player) /\ pairs' = pairs \cup {[Player1 |-> player, Player2 |-> w]}
    BY <2>3
  <2>5. p = [Player1 |-> player, Player2 |-> w]
    BY <1>6, <2>4
  <2>6. PICK o : o = p.Player2.UserID
    OBVIOUS
  <2>7. o \in Users /\ o # u
    <3>1. o = w.UserID /\ player.UserID = u
      BY <2>2, <2>5, <2>6
    <3> QED
      BY <2>4, <3>1 DEF Candidates, QueueTypeOK, WaitingPlayer
  <2>8. PICK r : r = [step |-> "create", user |-> u, opponent |-> o, pos |-> -1,
                      i |-> 0, n |-> 0, steady |-> online \cap {u, o}]
    OBVIOUS
  <2>9. /\ r \in Call /\ r.step = "create" /\ r.user = u /\ r.opponent = o
        /\ r.steady \subseteq {u, o}
    BY <1>3, <2>7, <2>8, QueueAssumption DEF Call
  <2>10. call' = [call EXCEPT ![t] = r]
    BY <1>6, <2>6, <2>8
  <2> QED
    BY <1>1, <1>4, <2>7, <2>9, <2>10 DEF JoinQueueIs
<1> QED
  BY <1>1, <1>5, <1>6 DEF JoinQueue

\* Whoever leaves a match, or the hub, or is there anew: every call keeps all
\* but the steadiness of that user, and every slice is as Without leaves it.
HubIs(u) ==
  /\ \A t \in Tokens :
       /\ call'[t].step = call[t].step /\ SameCall(call'[t], call[t])
       /\ call'[t].i = call[t].i /\ call'[t].n = call[t].n
       /\ \/ members'[t] = members[t]
          \/ members'[t] = Without(members[t], u) /\ u \notin call'[t].steady
  /\ UNCHANGED <<queueVars, inbox>>

\* A user comes, goes, or leaves a match.
LEMMA HubTypes ==
  ASSUME HandlerInv, NEW u \in Users,
         Connect(u) \/ Disconnect(u) \/ \E t \in Tokens : LeaveMatch(u, t)
  PROVE  HandlerInv' /\ HubIs(u)
<1>1. /\ call \in [Tokens -> Call] /\ members \in [Tokens -> Slice]
      /\ \A t \in Tokens : SliceOK(members[t])
  BY DEF HandlerInv, HandlersOK, SliceOK
<1>2. \A t \in Tokens : SliceOK(Without(members[t], u))
  BY <1>1, WithoutProps DEF WithoutIs
<1>3. ASSUME NEW S, call' = Unsteady(u, S)
      PROVE  /\ call' \in [Tokens -> Call]
             /\ \A t \in Tokens : /\ call'[t].step = call[t].step /\ SameCall(call'[t], call[t])
                                  /\ call'[t].i = call[t].i /\ call'[t].n = call[t].n
                                  /\ t \in S => u \notin call'[t].steady
  <2>1. ASSUME NEW t \in Tokens
        PROVE  /\ call'[t] \in Call /\ call'[t].step = call[t].step /\ SameCall(call'[t], call[t])
               /\ call'[t].i = call[t].i /\ call'[t].n = call[t].n
               /\ t \in S => u \notin call'[t].steady
    <3>1. PICK X : X = IF t \in S THEN call[t].steady \ {u} ELSE call[t].steady
      OBVIOUS
    <3>2. call[t] \in Call /\ X \subseteq call[t].steady /\ (t \in S => u \notin X)
      BY <1>1, <3>1
    <3>3. call'[t] = [call[t] EXCEPT !.steady = X]
      BY <1>3, <3>1 DEF Unsteady
    <3> QED
      <4>1. PICK c \in Call : c = call[t]
        BY <3>2
      <4>2. PICK r : r = call'[t]
        OBVIOUS
      <4>3. r = [c EXCEPT !.steady = X] /\ X \subseteq c.steady
        BY <3>2, <3>3, <4>1, <4>2
      <4>4. /\ r \in Call /\ r.step = c.step /\ SameCall(r, c) /\ r.i = c.i /\ r.n = c.n
            /\ r.steady = X
        BY <4>3 DEF Call, SameCall
      <4> QED
        BY <3>2, <4>1, <4>2, <4>4
  <2>2. call' = [t \in Tokens |-> call'[t]]
    BY <1>3 DEF Unsteady
  <2> QED
    BY <2>1, <2>2
<1>4. CASE Connect(u)
  <2>1. UNCHANGED <<queueVars, members, inbox>> /\ online' = online \cup {u}
    BY <1>4 DEF Connect
  <2>2. CASE UNCHANGED <<call, drops>>
    BY <2>1, <2>2 DEF HandlerInv, HandlersOK, Begun, HubIs, SameCall
  <2>3. CASE drops < MaxDrops /\ drops' = drops + 1 /\ call' = Unsteady(u, Tokens)
    <3>1. drops' \in 0..MaxDrops
      BY <2>3, MatchmakingAssumption DEF HandlerInv, HandlersOK
    <3> QED
      BY <1>3, <2>1, <2>3, <3>1 DEF HandlerInv, HandlersOK, Begun, HubIs, SameCall
  <2> QED
    BY <1>4, <2>2, <2>3 DEF Connect
<1>5. CASE Disconnect(u)
  <2>1. drops' \in 0..MaxDrops
    BY <1>5, MatchmakingAssumption DEF Disconnect, HandlerInv, HandlersOK
  <2>2. /\ members' = [t \in Tokens |-> Without(members[t], u)] /\ call' = Unsteady(u, Tokens)
        /\ online' = online \ {u} /\ UNCHANGED <<queueVars, inbox>>
    BY <1>5 DEF Disconnect
  <2>3. members' \in [Tokens -> Slice] /\ \A t \in Tokens : members'[t].len <= Len(members'[t].cells)
    BY <1>2, <2>2 DEF SliceOK
  <2>4. /\ call' \in [Tokens -> Call]
        /\ \A t \in Tokens : call'[t].step = call[t].step /\ SameCall(call'[t], call[t])
    BY <1>3, <2>2
  <2>5. HandlersOK'
    BY <2>1, <2>2, <2>3, <2>4 DEF HandlerInv, HandlersOK
  <2>6. Begun'
    BY <2>4 DEF HandlerInv, Begun, SameCall
  <2>7. HubIs(u)
    BY <1>3, <2>2 DEF HubIs
  <2> QED
    BY <2>5, <2>6, <2>7 DEF HandlerInv
<1>6. ASSUME NEW d \in Tokens, LeaveMatch(u, d) PROVE HandlerInv' /\ HubIs(u)
  <2>1. members' = [members EXCEPT ![d] = Without(members[d], u)] /\ call' = Unsteady(u, {d})
        /\ UNCHANGED <<queueVars, online, inbox, drops>>
    BY <1>6 DEF LeaveMatch
  <2>2. members'[d] = Without(members[d], u) /\ \A t \in Tokens \ {d} : members'[t] = members[t]
    BY <1>1, <2>1
  <2>3. members' \in [Tokens -> Slice] /\ \A t \in Tokens : members'[t].len <= Len(members'[t].cells)
    BY <1>1, <1>2, <2>1, <2>2 DEF SliceOK
  <2>4. HandlersOK' /\ Begun'
    <3>1. /\ call' \in [Tokens -> Call]
          /\ \A t \in Tokens : call'[t].step = call[t].step /\ SameCall(call'[t], call[t])
      BY <1>3, <2>1
    <3>2. HandlersOK'
      BY <2>1, <2>3, <3>1 DEF HandlerInv, HandlersOK
    <3>3. Begun'
      BY <3>1 DEF HandlerInv, Begun, SameCall
    <3> QED
      BY <3>2, <3>3
  <2>5. \A t \in Tokens : \/ members'[t] = members[t]
                          \/ members'[t] = Without(members[t], u) /\ u \notin call'[t].steady
    <3>1. u \notin call'[d].steady
      BY <1>3, <2>1
    <3> QED
      BY <2>2, <3>1
  <2>6. HubIs(u)
    BY <1>3, <2>1, <2>5 DEF HubIs
  <2> QED
    BY <2>4, <2>6 DEF HandlerInv
<1> QED
  BY <1>4, <1>5, <1>6

\* The rest of handleJoinQueue.
LEMMA CallStepTypes ==
  ASSUME HandlerInv, QueueTypeOK, OneFatePerToken, NEW t \in Tokens, CallStep(t)
  PROVE  HandlerInv'
<1>1. HandlersOK /\ call[t] \in Call /\ SliceOK(members[t])
  BY DEF HandlerInv, HandlersOK, SliceOK
<1>2. CASE CreateRandomMatch(t) \/ SendUpdate(t)
  <2>1. /\ call' \in [Tokens -> Call] /\ SameCall(call'[t], call[t])
        /\ \A d \in Tokens \ {t} : call'[d] = call[d]
        /\ call[t].step # "idle" /\ call'[t].step \in {"self", "failed", "done"}
        /\ call'[t].step = "self" => call[t].step = "create"
        /\ UNCHANGED <<online, members, inbox, drops>>
    BY <1>1, <1>2, GotoIs DEF CreateRandomMatch, SendUpdate, Steps
  <2>2. Begun'
    BY <2>1, BegunKept
  <2> QED
    BY <2>1, <2>2 DEF HandlerInv, HandlersOK
<1>3. CASE JoinSelf(t) \/ JoinOther(t)
  <2>1. /\ call' \in [Tokens -> Call] /\ SameCall(call'[t], call[t])
        /\ \A d \in Tokens \ {t} : call'[d] = call[d]
        /\ call[t].step \in {"self", "other"} /\ call'[t].step \in {"other", "fetch"}
        /\ call'[t].step = "other" => call[t].step = "self"
        /\ UNCHANGED <<online, inbox, drops>>
    BY <1>1, <1>3, GotoIs DEF JoinSelf, JoinOther, Steps
  <2>2. Begun'
    BY <2>1, BegunKept
  <2>3. \E u \in Users : members' = [members EXCEPT ![t] = With(members[t], u)]
    BY <1>3, <2>1 DEF JoinSelf, JoinOther, Opponent, HandlerInv, Begun
  <2>4. PICK u \in Users : members' = [members EXCEPT ![t] = With(members[t], u)]
    BY <2>3
  <2>5. SliceOK(With(members[t], u))
    BY <1>1, WithProps DEF WithIs
  <2>6. members' \in [Tokens -> Slice] /\ \A d \in Tokens : members'[d].len <= Len(members'[d].cells)
    BY <1>1, <2>4, <2>5 DEF SliceOK, HandlersOK
  <2> QED
    BY <2>1, <2>2, <2>6 DEF HandlerInv, HandlersOK
<1>4. ASSUME NEW from \in {"fetch", "refetch"}, NEW loop \in {"found", "questions"},
             NEW next \in {"refetch", "done"}, FetchSlice(t, from, loop, next)
      PROVE  HandlerInv'
  <2>1. /\ call' \in [Tokens -> Call] /\ SameCall(call'[t], call[t])
        /\ \A d \in Tokens \ {t} : call'[d] = call[d]
        /\ call[t].step # "idle" /\ call'[t].step \in {next, loop}
        /\ UNCHANGED <<online, members, inbox, drops>>
    BY <1>1, <1>4, FetchIs
  <2>2. Begun'
    BY <2>1, BegunKept
  <2> QED
    BY <2>1, <2>2 DEF HandlerInv, HandlersOK
<1>5. ASSUME NEW loop \in {"found", "questions"}, NEW type \in {"match_found", "question_batch"},
             NEW next \in {"refetch", "done"}, SendToCell(t, loop, type, next)
      PROVE  HandlerInv'
  <2>1. PICK u : u = members[t].cells[call[t].i]
    OBVIOUS
  <2>2. /\ call' \in [Tokens -> Call] /\ SameCall(call'[t], call[t])
        /\ inbox' \in [Users -> Seq(Message)]
        /\ \A d \in Tokens \ {t} : call'[d] = call[d]
        /\ call[t].step # "idle" /\ call'[t].step \in {next, loop}
        /\ UNCHANGED <<online, members, drops>>
    BY <1>1, <1>5, <2>1, CellIs DEF CellStep
  <2>3. Begun'
    BY <2>2, BegunKept
  <2> QED
    BY <2>2, <2>3 DEF HandlerInv, HandlersOK
<1>6. CASE ReadPosition(t)
  <2>1. PICK p \in GetPosition(t) :
          call' = [call EXCEPT ![t].step = "update", ![t].pos = p]
    BY <1>6 DEF ReadPosition
  <2>2. p \in -1..(MaxEnqueues - 1)
    BY <2>1, WaitingBounded, QueueAssumption DEF GetPosition
  <2>3. call[t].step = "position"
    BY <1>6 DEF ReadPosition
  <2>4. PICK r : r = [call[t] EXCEPT !.step = "update", !.pos = p]
    OBVIOUS
  <2>5. r \in Call /\ r.step = "update" /\ r.user = call[t].user
    BY <1>1, <2>2, <2>4 DEF Call
  <2>6. call' = [call EXCEPT ![t] = r]
    BY <2>1, <2>4 DEF HandlerInv, HandlersOK
  <2> QED
    BY <1>6, <2>3, <2>5, <2>6 DEF ReadPosition, HandlerInv, HandlersOK, Begun
<1> QED
  BY <1>2, <1>3, <1>4, <1>5, <1>6 DEF CallStep, BroadcastFound, SendQuestions

\* Every step keeps the types of the state around the queue.
LEMMA HandlerStepInv ==
  ASSUME HandlerInv, QueueTypeOK, OneFatePerToken, [Next]_vars
  PROVE  HandlerInv'
<1>1. CASE UNCHANGED vars
  BY <1>1 DEF vars, HandlerInv, HandlersOK, Begun
<1>2. ASSUME NEW t \in Tokens, CancelQueue(t) PROVE HandlerInv'
  BY <1>2 DEF CancelQueue, HandlerInv, HandlersOK, Begun
<1> QED
  BY <1>1, <1>2, JoinQueueTypes, HubTypes, CallStepTypes DEF Next

\* The types of the queue and of the handlers at every state.
LEMMA HandlerSafe == Spec => [](QueueTypeOK /\ OneFatePerToken /\ HandlerInv)
<1>1. HandlerInv /\ QueueTypeOK /\ OneFatePerToken /\ [Next]_vars => HandlerInv'
  BY HandlerStepInv
<1> QED
  BY <1>1, InitHandlers, ImplementsQueue, QueueSafe, PTL DEF Spec

\* The queue, the calls, the slices and the hub are well typed for every number of
\* users, calls and disconnections; a position never exceeds the tokens issued.
THEOREM MatchmakingTypeCorrect == Spec => []TypeOK
<1>1. HandlerInv /\ QueueTypeOK => TypeOK
  BY DEF HandlerInv, HandlersOK, TypeOK
<1> QED
  BY <1>1, HandlerSafe, PTL

-----------------------------------------------------------------------------
(* Who is served *)

\* Of the pair A and B, S are those who stayed.  m is the slice of their match.
\* A, joined first, holds its first cell and B its last, unless they left.
Places(A, B, S, m) ==
  /\ \A k \in 1..Len(m.cells) : m.cells[k] \in {A, B}
  /\ A \in S => m.len >= 1 /\ m.cells[1] = A
  /\ B \in S => m.len >= 1 /\ m.cells[m.len] = B
  /\ S = {A, B} => m.len = 2

\* The loop of a broadcast at cell i of n: the slice shrinks under it, but B,
\* if it stayed, is still in the cell that was the last when the loop began.
Walks(A, B, S, m, i, n) ==
  /\ i \in 1..n /\ n \in Nat /\ m.len <= n /\ n <= Len(m.cells)
  /\ B \in S => m.cells[n] = B
  /\ S = {A, B} => n = 2

Single(X) == \E x : X = {x}

\* Where each user has a message of the broadcast: before it, ...
Before(g) == \A u \in Users : g[u] = {}

\* ... when its loop has come to cell i, ...
During(A, B, S, i, g) ==
  /\ A \in S /\ i > 1 => g[A] # {}
  /\ S = {A, B} => /\ g[B] = {}
                   /\ i = 1 => g[A] = {}
                   /\ i > 1 => Single(g[A])

\* ... and after it.
After(A, B, S, g) ==
  \A u \in S : g[u] # {} /\ (S = {A, B} => Single(g[u]))

\* One turn of the loop, at user u: it gets the message, or is steady no longer.
Turn(S, g, u, T, h) ==
  \/ T = S /\ \E x : \A v \in Users : h[v] = IF v = u THEN g[v] \cup {x} ELSE g[v]
  \/ T = S \ {u} /\ h = g

LEMMA TurnServes ==
  ASSUME NEW A \in Users, NEW B \in Users, A # B, NEW S, S \subseteq {A, B},
         NEW m, SliceOK(m), NEW i, NEW n, NEW g, NEW T, NEW h,
         Places(A, B, S, m), Walks(A, B, S, m, i, n), During(A, B, S, i, g),
         Turn(S, g, m.cells[i], T, h)
  PROVE  /\ T \subseteq S /\ m.cells[i] \in {A, B}
         /\ i = n => After(A, B, T, h)
         /\ i # n => During(A, B, T, i + 1, h) /\ i + 1 \in 1..n
<1>1. m.len \in Nat /\ n \in Nat /\ i \in Nat /\ i >= 1 /\ i <= n /\ n <= Len(m.cells)
  BY DEF Walks, SliceOK, Slice
<1>2. PICK u : u = m.cells[i]
  OBVIOUS
<1>3. Len(m.cells) \in Nat
  BY DEF SliceOK, Slice
<1>4. u \in {A, B} /\ T \subseteq S
  BY <1>1, <1>2, <1>3 DEF Places, Turn
<1>5. u \in T => \E x : \A v \in Users : h[v] = IF v = u THEN g[v] \cup {x} ELSE g[v]
  BY <1>2 DEF Turn
<1>6. \A v \in Users : v # u => h[v] = g[v]
  BY <1>2 DEF Turn
<1>7. A \in T /\ i = 1 => u = A
  BY <1>2, <1>4 DEF Places
<1>8. B \in T /\ i = n => u = B
  BY <1>2, <1>4 DEF Walks
<1>9. T = {A, B} => S = {A, B} /\ n = 2 /\ i \in {1, 2} /\ u \in T
  BY <1>1, <1>4 DEF Walks
<1>10. A \in T => h[A] # {}
  <2>1. CASE u = A
    BY <1>5, <2>1
  <2>2. CASE u # A
    <3> SUFFICES ASSUME A \in T PROVE h[A] # {}
      OBVIOUS
    <3>1. i > 1 /\ A \in S
      BY <1>1, <1>4, <1>7, <2>2
    <3> QED
      BY <1>6, <2>2, <3>1 DEF During
  <2> QED
    BY <2>1, <2>2
<1>11. B \in T /\ i = n => h[B] # {}
  BY <1>5, <1>8
<1>12. T = {A, B} /\ i = 1 => h[A] # {} /\ Single(h[A]) /\ h[B] = {}
  <2> SUFFICES ASSUME T = {A, B}, i = 1 PROVE h[A] # {} /\ Single(h[A]) /\ h[B] = {}
    OBVIOUS
  <2>1. u = A /\ g[A] = {} /\ g[B] = {}
    BY <1>7, <1>9 DEF During
  <2>2. PICK x : h[A] = g[A] \cup {x}
    BY <1>5, <2>1
  <2>3. h[A] = {x}
    BY <2>1, <2>2
  <2> QED
    BY <1>6, <2>1, <2>3 DEF Single
<1>13. T = {A, B} /\ i = 2 => i = n /\ Single(h[A]) /\ Single(h[B])
  <2> SUFFICES ASSUME T = {A, B}, i = 2 PROVE i = n /\ Single(h[A]) /\ Single(h[B])
    OBVIOUS
  <2>1. i = n /\ i > 1 /\ S = {A, B}
    BY <1>9
  <2>2. u = B /\ Single(g[A]) /\ g[B] = {}
    BY <1>8, <2>1 DEF During
  <2>3. PICK x : h[B] = g[B] \cup {x}
    BY <1>5, <2>2
  <2>4. h[B] = {x}
    BY <2>2, <2>3
  <2> QED
    BY <1>6, <2>1, <2>2, <2>4 DEF Single
<1>14. i = n => After(A, B, T, h)
  <2> SUFFICES ASSUME i = n, NEW v \in T PROVE h[v] # {} /\ (T = {A, B} => Single(h[v]))
    BY DEF After
  <2>1. v \in {A, B}
    BY <1>4
  <2>2. h[v] # {}
    BY <1>10, <1>11, <2>1
  <2>3. T = {A, B} => i = 2
    BY <1>9
  <2> QED
    BY <1>13, <2>1, <2>2, <2>3
<1>15. i # n => During(A, B, T, i + 1, h) /\ i + 1 \in 1..n
  <2> SUFFICES ASSUME i # n PROVE During(A, B, T, i + 1, h) /\ i + 1 \in 1..n
    OBVIOUS
  <2>1. i + 1 \in 1..n /\ i + 1 # 1
    BY <1>1
  <2>2. T = {A, B} => i = 1
    BY <1>1, <1>9
  <2> QED
    BY <1>10, <1>12, <2>1, <2>2 DEF During
<1> QED
  BY <1>2, <1>4, <1>14, <1>15

\* Who is steady no longer is owed nothing.
LEMMA FewerServed ==
  ASSUME NEW A, NEW B, NEW S, S \subseteq {A, B}, NEW T, T \subseteq S, NEW i, NEW g
  PROVE  /\ During(A, B, S, i, g) => During(A, B, T, i, g)
         /\ After(A, B, S, g) => After(A, B, T, g)
BY DEF During, After

\* The loop begins.
LEMMA NoneServed ==
  ASSUME NEW A \in Users, NEW B \in Users, NEW S, NEW g, Before(g)
  PROVE  During(A, B, S, 1, g)
BY DEF Before, During

\* Where the messages of one type about match t are, by user.
Got(type, t) == [u \in Users |-> Sent(u, type, t)]

Joining == {"idle", "create", "self", "other", "fetch"}
Walking == {"fetch", "found", "refetch", "questions"}

\* A call is for two users; those who stayed are of them.
Paired(c) ==
  /\ c.steady \subseteq {c.user, c.opponent}
  /\ c.step \in {"create", "self", "other"} \cup Walking =>
       c.user \in Users /\ c.opponent \in Users /\ c.user # c.opponent
  /\ c.step \in {"idle", "position", "update"} => c.steady = {}

\* Who is in the slice by the step of the call.
Placed(c, m) ==
  /\ c.step \in {"idle", "create", "self"} => m.len = 0 /\ Len(m.cells) = 0
  /\ c.step = "other" => /\ \A k \in 1..Len(m.cells) : m.cells[k] = c.user
                         /\ m.len <= 1 /\ (c.user \in c.steady => m.len = 1)
  /\ c.step \in Walking => Places(c.user, c.opponent, c.steady, m)
  /\ c.step \in {"found", "questions"} => Walks(c.user, c.opponent, c.steady, m, c.i, c.n)

\* What has been sent by then: f where match_found is, q where the questions are.
Sends(c, f, q) ==
  /\ \A u \in Users : u \notin {c.user, c.opponent} => f[u] = {} /\ q[u] = {}
  /\ \A u \in Users : \A i \in f[u], j \in q[u] : i < j
  /\ c.step \in Joining => Before(f)
  /\ c.step \in Joining \cup {"found", "refetch"} => Before(q)
  /\ c.step = "found" => During(c.user, c.opponent, c.steady, c.i, f)
  /\ c.step \in {"refetch", "questions", "done"} => After(c.user, c.opponent, c.steady, f)
  /\ c.step = "questions" => During(c.user, c.opponent, c.steady, c.i, q)
  /\ c.step = "done" => After(c.user, c.opponent, c.steady, q)

CallInv(c, m, f, q) == Paired(c) /\ Placed(c, m) /\ Sends(c, f, q)

\* A token not issued yet names no call.
UnissuedIsIdle == \A t \in Tokens : t >= nextToken => call[t].step = "idle"

ServiceInv ==
  /\ UnissuedIsIdle
  /\ \A t \in Tokens : CallInv(call[t], members[t], Got("match_found", t), Got("question_batch", t))

\* Who leaves takes nobody else out of place.
LEMMA PlacesKept ==
  ASSUME NEW A, NEW B, NEW S, S \subseteq {A, B}, NEW T, T \subseteq S,
         NEW m, SliceOK(m), NEW u, u \notin T, NEW r, WithoutIs(m, u, r), Places(A, B, S, m)
  PROVE  /\ Places(A, B, T, r)
         /\ \A i, n : Walks(A, B, S, m, i, n) => Walks(A, B, T, r, i, n)
<1>1. m.len \in Nat /\ r.len \in Nat /\ Len(m.cells) = Len(r.cells) /\ r.len <= m.len
      /\ Len(m.cells) \in Nat /\ m.len <= Len(m.cells)
  BY DEF SliceOK, Slice, WithoutIs
<1>2. T = {A, B} => r = m /\ S = {A, B}
  <2> SUFFICES ASSUME T = {A, B} PROVE r = m /\ S = {A, B}
    OBVIOUS
  <2>1. \A k \in 1..Len(m.cells) : m.cells[k] # u
    BY DEF Places
  <2> QED
    BY <2>1 DEF WithoutIs
<1>3. \A k \in 1..Len(r.cells) : r.cells[k] \in {A, B}
  BY <1>1 DEF Places, WithoutIs
<1>4. A \in T => r.len >= 1 /\ r.cells[1] = A
  <2> SUFFICES ASSUME A \in T PROVE r.len >= 1 /\ r.cells[1] = A
    OBVIOUS
  <2>1. m.len >= 1 /\ m.cells[1] = A /\ A # u
    BY DEF Places
  <2> QED
    BY <2>1 DEF WithoutIs
<1>5. B \in T => r.len >= 1 /\ r.cells[r.len] = B
  <2> SUFFICES ASSUME B \in T PROVE r.len >= 1 /\ r.cells[r.len] = B
    OBVIOUS
  <2>1. m.len >= 1 /\ m.cells[m.len] = B /\ B # u
    BY DEF Places
  <2> QED
    BY <2>1 DEF WithoutIs
<1>6. Places(A, B, T, r)
  BY <1>2, <1>3, <1>4, <1>5 DEF Places
<1>7. ASSUME NEW i, NEW n, Walks(A, B, S, m, i, n) PROVE Walks(A, B, T, r, i, n)
  <2>1. n \in Nat /\ i \in 1..n /\ m.len <= n /\ n <= Len(m.cells)
    BY <1>7 DEF Walks
  <2>2. n \in 1..Len(m.cells) /\ n >= m.len /\ r.len <= n /\ n <= Len(r.cells)
    BY <1>1, <2>1
  <2>3. r.cells[n] = m.cells[n]
    BY <2>2 DEF WithoutIs
  <2> QED
    BY <1>2, <1>7, <2>1, <2>2, <2>3 DEF Walks
<1> QED
  BY <1>6, <1>7

\* Those who leave a match or the hub are steady no longer, and the others keep
\* what they have.
LEMMA LeavingKeeps ==
  ASSUME NEW c, NEW m, NEW f, NEW q, CallInv(c, m, f, q), SliceOK(m),
         NEW d, d.step = c.step, SameCall(d, c), d.i = c.i, d.n = c.n,
         NEW u, NEW r, r = m \/ (r = Without(m, u) /\ u \notin d.steady)
  PROVE  CallInv(d, r, f, q)
<1>1. d.user = c.user /\ d.opponent = c.opponent /\ d.steady \subseteq c.steady
  BY DEF SameCall
<1>2. Paired(d)
  BY <1>1 DEF CallInv, Paired
<1>3. Sends(d, f, q)
  <2>1. c.steady \subseteq {c.user, c.opponent}
    BY DEF CallInv, Paired
  <2>2. PICK A : A = c.user
    OBVIOUS
  <2>3. PICK B : B = c.opponent
    OBVIOUS
  <2>4. \A i, g : /\ During(A, B, c.steady, i, g) => During(A, B, d.steady, i, g)
                  /\ After(A, B, c.steady, g) => After(A, B, d.steady, g)
    BY <1>1, <2>1, <2>2, <2>3, FewerServed
  <2> QED
    BY <1>1, <2>2, <2>3, <2>4 DEF CallInv, Sends
<1>4. Placed(d, r)
  <2>1. WithoutIs(m, u, Without(m, u))
    BY WithoutProps
  <2>2. c.steady \subseteq {c.user, c.opponent}
    BY DEF CallInv, Paired
  <2>3. m.len \in Nat /\ Len(m.cells) \in Nat
    BY DEF SliceOK, Slice
  <2>4. CASE r = Without(m, u) /\ u \notin d.steady
    <3>1. WithoutIs(m, u, r)
      BY <2>1, <2>4
    <3>2. r.len \in Nat /\ r.len <= m.len /\ Len(r.cells) = Len(m.cells)
      BY <3>1 DEF WithoutIs, SliceOK, Slice
    <3>3. c.step \in {"idle", "create", "self"} => r.len = 0 /\ Len(r.cells) = 0
      BY <2>3, <3>2 DEF CallInv, Placed
    <3>4. c.step = "other" => /\ \A k \in 1..Len(r.cells) : r.cells[k] = c.user
                              /\ r.len <= 1 /\ (c.user \in d.steady => r.len = 1)
      <4> SUFFICES ASSUME c.step = "other"
                   PROVE  /\ \A k \in 1..Len(r.cells) : r.cells[k] = c.user
                          /\ r.len <= 1 /\ (c.user \in d.steady => r.len = 1)
        OBVIOUS
      <4>1. /\ \A k \in 1..Len(m.cells) : m.cells[k] = c.user
            /\ m.len <= 1 /\ (c.user \in d.steady => m.len = 1)
        BY <1>1 DEF CallInv, Placed
      <4>2. \A k \in 1..Len(r.cells) : r.cells[k] = c.user
        BY <3>1, <4>1 DEF WithoutIs
      <4>3. c.user \in d.steady => \A k \in 1..Len(m.cells) : m.cells[k] # u
        BY <2>4, <4>1
      <4>4. c.user \in d.steady => r = m
        BY <3>1, <4>3 DEF WithoutIs
      <4> QED
        BY <2>3, <3>2, <4>1, <4>2, <4>4
    <3>5. c.step \in Walking => Places(c.user, c.opponent, d.steady, r)
      BY <1>1, <2>2, <2>4, <3>1, PlacesKept DEF CallInv, Placed
    <3>6. c.step \in {"found", "questions"} => Walks(c.user, c.opponent, d.steady, r, c.i, c.n)
      <4> SUFFICES ASSUME c.step \in {"found", "questions"}
                   PROVE  Walks(c.user, c.opponent, d.steady, r, c.i, c.n)
        OBVIOUS
      <4>1. Places(c.user, c.opponent, c.steady, m) /\ Walks(c.user, c.opponent, c.steady, m, c.i, c.n)
        BY DEF CallInv, Placed, Walking
      <4>2. \A i, n : Walks(c.user, c.opponent, c.steady, m, i, n) => Walks(c.user, c.opponent, d.steady, r, i, n)
        BY <1>1, <2>2, <2>4, <3>1, <4>1, PlacesKept
      <4> QED
        BY <4>1, <4>2
    <3> QED
      BY <1>1, <3>3, <3>4, <3>5, <3>6 DEF Placed
  <2>5. CASE r = m
    <3>1. c.step \in Walking => Places(c.user, c.opponent, d.steady, m)
      BY <1>1, <2>2 DEF CallInv, Placed, Places
    <3>2. c.step \in {"found", "questions"} => Walks(c.user, c.opponent, d.steady, m, c.i, c.n)
      BY <1>1, <2>2 DEF CallInv, Placed, Walks
    <3> QED
      BY <1>1, <2>5, <3>1, <3>2 DEF CallInv, Placed
  <2> QED
    BY <2>4, <2>5
<1> QED
  BY <1>2, <1>3, <1>4 DEF CallInv

\* The two are joined to the match, the caller first.
LEMMA SelfKeeps ==
  ASSUME NEW c, NEW m, NEW f, NEW q, CallInv(c, m, f, q), SliceOK(m), c.step = "self",
         NEW d, d.step = "other", SameCall(d, c), d.steady = c.steady
  PROVE  CallInv(d, With(m, c.user), f, q)
<1>1. d.user = c.user /\ d.opponent = c.opponent
  BY DEF SameCall
<1>2. Paired(d) /\ Sends(d, f, q)
  BY <1>1 DEF CallInv, Paired, Sends, Joining, Walking
<1>3. PICK r : r = With(m, c.user)
  OBVIOUS
<1>4. c.user \in Users /\ m.len = 0 /\ Len(m.cells) = 0
  BY DEF CallInv, Paired, Placed
<1>5. WithIs(m, c.user, r) /\ c.user \notin Held(m)
  BY <1>3, <1>4, WithProps DEF Held
<1>6. Placed(d, r)
  BY <1>1, <1>4, <1>5 DEF WithIs, Placed, Walking
<1> QED
  BY <1>2, <1>3, <1>6 DEF CallInv

LEMMA OtherKeeps ==
  ASSUME NEW c, NEW m, NEW f, NEW q, CallInv(c, m, f, q), SliceOK(m), c.step = "other",
         NEW d, d.step = "fetch", SameCall(d, c), d.steady = c.steady
  PROVE  CallInv(d, With(m, c.opponent), f, q)
<1>1. d.user = c.user /\ d.opponent = c.opponent
  BY DEF SameCall
<1>2. Paired(d) /\ Sends(d, f, q)
  BY <1>1 DEF CallInv, Paired, Sends, Joining, Walking
<1>3. PICK r : r = With(m, c.opponent)
  OBVIOUS
<1>4. /\ c.opponent \in Users /\ c.opponent # c.user /\ m.len \in Nat /\ m.len <= Len(m.cells)
      /\ \A k \in 1..Len(m.cells) : m.cells[k] = c.user
      /\ m.len <= 1 /\ (c.user \in c.steady => m.len = 1)
      /\ Len(m.cells) \in Nat
  BY DEF CallInv, Paired, Placed, SliceOK, Slice
<1>5. c.opponent \notin Held(m)
  BY <1>4 DEF Held
<1>6. /\ r.len = m.len + 1 /\ r.cells[r.len] = c.opponent
      /\ \A j \in 1..m.len : r.cells[j] = m.cells[j]
      /\ \A j \in 1..Len(r.cells) : r.cells[j] = c.opponent \/ \E k \in 1..Len(m.cells) : r.cells[j] = m.cells[k]
  BY <1>3, <1>4, <1>5, WithProps DEF WithIs
<1>7. c.user \in c.steady => r.len = 2 /\ r.cells[1] = c.user
  BY <1>4, <1>6
<1>8. \A j \in 1..Len(r.cells) : r.cells[j] \in {c.user, c.opponent}
  BY <1>4, <1>6
<1>9. r.len >= 1
  BY <1>4, <1>6
<1>10. Places(c.user, c.opponent, c.steady, r)
  BY <1>6, <1>7, <1>8, <1>9 DEF Places
<1>11. Placed(d, r)
  BY <1>1, <1>10 DEF Placed, Walking
<1> QED
  BY <1>2, <1>3, <1>11 DEF CallInv

\* Where m is in a list of messages.
Positions(s, m) == {i \in DOMAIN s : s[i] = m}

\* A new message takes the position behind the others.
LEMMA PositionsAppend ==
  ASSUME NEW M, NEW s \in Seq(M), NEW m \in M, NEW x
  PROVE  /\ Positions(Append(s, m), x) =
              (IF x = m THEN Positions(s, x) \cup {Len(s) + 1} ELSE Positions(s, x))
         /\ DOMAIN Append(s, m) = DOMAIN s \cup {Len(s) + 1}
         /\ \A i \in DOMAIN s : i < Len(s) + 1
<1>1. Len(s) \in Nat /\ DOMAIN s = 1..Len(s)
  OBVIOUS
<1>2. /\ DOMAIN Append(s, m) = 1..(Len(s) + 1)
      /\ \A i \in 1..Len(s) : Append(s, m)[i] = s[i]
      /\ Append(s, m)[Len(s) + 1] = m
  BY <1>1
<1>3. DOMAIN Append(s, m) = DOMAIN s \cup {Len(s) + 1}
  BY <1>1, <1>2
<1>4. \A i \in DOMAIN s : i < Len(s) + 1
  BY <1>1
<1> QED
  BY <1>1, <1>2, <1>3, <1>4 DEF Positions

\* What the lists of u say about match d before and after a step.
LEMMA ServiceByPositions ==
  ASSUME NEW u, NEW d
  PROVE  /\ Sent(u, "match_found", d) = Positions(inbox[u], [type |-> "match_found", call |-> d])
         /\ Sent(u, "question_batch", d) = Positions(inbox[u], [type |-> "question_batch", call |-> d])
         /\ Sent(u, "match_found", d)' = Positions(inbox'[u], [type |-> "match_found", call |-> d])
         /\ Sent(u, "question_batch", d)' = Positions(inbox'[u], [type |-> "question_batch", call |-> d])
BY DEF Sent, Positions

\* A delivery adds one message, behind all there are.
GotGrows(type, t, u) ==
  /\ \A y \in {"match_found", "question_batch"}, d \in Tokens :
       y # type \/ d # t => Got(y, d)' = Got(y, d)
  /\ \E x : /\ \A v \in Users : Got(type, t)'[v] = IF v = u THEN Got(type, t)[v] \cup {x} ELSE Got(type, t)[v]
            /\ \A y \in {"match_found", "question_batch"} : \A i \in Got(y, t)[u] : i < x

\* It is the user's last message, and no other message moves.
LEMMA GotAfter ==
  ASSUME HandlersOK, NEW u \in Users, NEW t \in Tokens, NEW type \in {"match_found", "question_batch"},
         inbox' = [inbox EXCEPT ![u] = Append(inbox[u], [type |-> type, call |-> t])]
  PROVE  GotGrows(type, t, u)
<1>1. PICK m : m = [type |-> type, call |-> t]
  OBVIOUS
<1>2. PICK s : s = inbox[u]
  OBVIOUS
<1>3. PICK x : x = Len(s) + 1
  OBVIOUS
<1>4. m \in Message /\ s \in Seq(Message)
  BY <1>1, <1>2 DEF Message, HandlersOK
<1>5. inbox'[u] = Append(s, m) /\ \A v \in Users \ {u} : inbox'[v] = inbox[v]
  BY <1>1, <1>2 DEF HandlersOK
<1>6. /\ \A z : Positions(Append(s, m), z) = (IF z = m THEN Positions(s, z) \cup {x} ELSE Positions(s, z))
      /\ \A i \in DOMAIN s : i < x
  BY <1>3, <1>4, PositionsAppend
<1>7. \A v, y, d : /\ Sent(v, y, d) = Positions(inbox[v], [type |-> y, call |-> d])
                   /\ Sent(v, y, d)' = Positions(inbox'[v], [type |-> y, call |-> d])
  BY DEF Sent, Positions
<1>8. \A v \in Users : \A y, d :
        Sent(v, y, d)' = IF v = u /\ [type |-> y, call |-> d] = m THEN Sent(v, y, d) \cup {x} ELSE Sent(v, y, d)
  <2> SUFFICES ASSUME NEW v \in Users, NEW y, NEW d
               PROVE  Sent(v, y, d)' = IF v = u /\ [type |-> y, call |-> d] = m
                                       THEN Sent(v, y, d) \cup {x} ELSE Sent(v, y, d)
    OBVIOUS
  <2>1. PICK z : z = [type |-> y, call |-> d]
    OBVIOUS
  <2>2. Sent(v, y, d) = Positions(inbox[v], z) /\ Sent(v, y, d)' = Positions(inbox'[v], z)
    BY <1>7, <2>1
  <2>3. CASE v = u
    BY <1>2, <1>5, <1>6, <2>1, <2>2, <2>3
  <2>4. CASE v # u
    BY <1>5, <2>1, <2>2, <2>4
  <2> QED
    BY <2>3, <2>4
<1>9. ASSUME NEW y \in {"match_found", "question_batch"}, NEW d \in Tokens, y # type \/ d # t
      PROVE  Got(y, d)' = Got(y, d)
  <2>1. [type |-> y, call |-> d] # m
    BY <1>1, <1>9
  <2> QED
    BY <1>8, <2>1 DEF Got
<1>10. \A v \in Users : Got(type, t)'[v] = IF v = u THEN Got(type, t)[v] \cup {x} ELSE Got(type, t)[v]
  BY <1>1, <1>8 DEF Got
<1>11. \A y \in {"match_found", "question_batch"} : \A i \in Got(y, t)[u] : i < x
  BY <1>2, <1>6 DEF Got, Sent
<1> QED
  BY <1>9, <1>10, <1>11 DEF GotGrows

\* Where nothing is delivered nobody's messages change.
LEMMA GotSame == ASSUME inbox' = inbox PROVE \A y, d : Got(y, d)' = Got(y, d)
BY DEF Got, Sent

\* Only the call that moves, its match and what is sent about it need be looked at.
LEMMA OneCall ==
  ASSUME ServiceInv, HandlerInv, QueueTypeOK, nextToken' = nextToken, NEW t \in Tokens,
         call[t].step # "idle",
         \A d \in Tokens \ {t} : /\ call'[d] = call[d] /\ members'[d] = members[d]
                                 /\ Got("match_found", d)' = Got("match_found", d)
                                 /\ Got("question_batch", d)' = Got("question_batch", d),
         CallInv(call'[t], members'[t], Got("match_found", t)', Got("question_batch", t)')
  PROVE  ServiceInv'
<1>1. UnissuedIsIdle'
  BY DEF ServiceInv, UnissuedIsIdle
<1> QED
  BY <1>1 DEF ServiceInv

\* Before the first call.
LEMMA InitService == Init => ServiceInv
<1> SUFFICES ASSUME Init PROVE ServiceInv
  OBVIOUS
<1>1. \A u \in Users : inbox[u] = <<>>
  BY DEF Init
<1>2. \A u \in Users : \A y, d : Sent(u, y, d) = {}
  BY <1>1 DEF Sent
<1>3. \A y, d : Before(Got(y, d))
  BY <1>2 DEF Before, Got
<1>4. ASSUME NEW t \in Tokens
      PROVE  CallInv(call[t], members[t], Got("match_found", t), Got("question_batch", t))
  <2>1. call[t].step = "idle" /\ call[t].steady = {}
    BY DEF Init
  <2>2. members[t].len = 0 /\ Len(members[t].cells) = 0
    BY DEF Init
  <2> QED
    BY <1>3, <2>1, <2>2 DEF CallInv, Paired, Placed, Sends, Before, Joining, Walking
<1> QED
  BY <1>4 DEF Init, ServiceInv, UnissuedIsIdle

\* A join names its call for the first time, and its pair as those who are
\* steady so far.
LEMMA JoinQueueService ==
  ASSUME HandlerInv, ServiceInv, QueueTypeOK, NEW u \in Users, NEW c \in Categories, JoinQueue(u, c)
  PROVE  ServiceInv'
<1>1. PICK n \in Tokens : n = nextToken
  BY DEF JoinQueue, Enqueue, QueueTypeOK, Tokens
<1>2. nextToken' = n + 1 /\ UNCHANGED <<online, members, inbox, drops>>
  BY <1>1 DEF JoinQueue, Enqueue
<1>3. JoinQueueIs(n, u) /\ call[n].step = "idle" /\ n \in Int
  BY <1>1, JoinQueueTypes DEF ServiceInv, UnissuedIsIdle, QueueTypeOK, Tokens
<1>4. \A y, d : Got(y, d)' = Got(y, d)
  BY <1>2, GotSame
<1>5. UnissuedIsIdle'
  <2>1. \A d \in Tokens : d >= n + 1 => d >= n /\ d # n
    BY <1>3 DEF Tokens
  <2> QED
    BY <1>1, <1>2, <1>3, <2>1 DEF ServiceInv, UnissuedIsIdle, JoinQueueIs
<1>6. CallInv(call'[n], members[n], Got("match_found", n), Got("question_batch", n))
  <2>1. CallInv(call[n], members[n], Got("match_found", n), Got("question_batch", n))
    BY DEF ServiceInv
  <2>2. /\ members[n].len = 0 /\ Len(members[n].cells) = 0 /\ call[n].steady = {}
        /\ Before(Got("match_found", n)) /\ Before(Got("question_batch", n))
    BY <1>3, <2>1 DEF CallInv, Paired, Placed, Sends, Joining
  <2>3. Paired(call'[n])
    BY <1>3, <2>2 DEF JoinQueueIs, Paired, Walking
  <2>4. call'[n].step \in {"position", "create"}
    BY <1>3 DEF JoinQueueIs
  <2>5. Placed(call'[n], members[n])
    BY <2>2, <2>4 DEF Placed, Walking
  <2>6. Sends(call'[n], Got("match_found", n), Got("question_batch", n))
    BY <2>2, <2>4 DEF Sends, Joining, Before
  <2> QED
    BY <2>3, <2>5, <2>6 DEF CallInv
<1>7. \A d \in Tokens \ {n} : call'[d] = call[d]
  BY <1>3 DEF JoinQueueIs
<1> QED
  BY <1>2, <1>4, <1>5, <1>6, <1>7 DEF ServiceInv

\* Comings and goings.
LEMMA HubService ==
  ASSUME HandlerInv, ServiceInv, NEW u \in Users, HubIs(u)
  PROVE  ServiceInv'
<1>1. \A y, d : Got(y, d)' = Got(y, d)
  BY GotSame DEF HubIs
<1>2. UnissuedIsIdle'
  BY DEF HubIs, queueVars, ServiceInv, UnissuedIsIdle
<1>3. ASSUME NEW t \in Tokens
      PROVE  CallInv(call'[t], members'[t], Got("match_found", t), Got("question_batch", t))
  <2>1. CallInv(call[t], members[t], Got("match_found", t), Got("question_batch", t))
    BY DEF ServiceInv
  <2>2. SliceOK(members[t])
    BY DEF HandlerInv, HandlersOK, SliceOK
  <2> QED
    BY <2>1, <2>2, LeavingKeeps DEF HubIs
<1> QED
  BY <1>1, <1>2, <1>3 DEF ServiceInv

\* The steps that send nothing about a match.
LEMMA AsideService ==
  ASSUME HandlerInv, ServiceInv, QueueTypeOK, NEW t \in Tokens,
         CreateRandomMatch(t) \/ ReadPosition(t) \/ SendUpdate(t)
  PROVE  ServiceInv'
<1>1. UNCHANGED <<queueVars, online, members, inbox, drops>>
  BY DEF CreateRandomMatch, ReadPosition, SendUpdate
<1>2. HandlersOK /\ call[t] \in Call /\ call \in [Tokens -> Call]
  BY DEF HandlerInv, HandlersOK
<1>3. /\ \/ call[t].step = "create" /\ call'[t].step \in {"self", "failed"}
         \/ call[t].step = "position" /\ call'[t].step = "update"
         \/ call[t].step = "update" /\ call'[t].step = "done"
      /\ call'[t].user = call[t].user /\ call'[t].opponent = call[t].opponent
      /\ call'[t].steady = call[t].steady
      /\ \A d \in Tokens \ {t} : call'[d] = call[d]
  <2>1. CASE CreateRandomMatch(t) \/ SendUpdate(t)
    BY <1>2, <2>1, GotoIs DEF CreateRandomMatch, SendUpdate, SameCall, Steps
  <2>2. CASE ReadPosition(t)
    <3>1. PICK p \in GetPosition(t) : call' = [call EXCEPT ![t].step = "update", ![t].pos = p]
      BY <2>2 DEF ReadPosition
    <3>2. PICK r : r = [call[t] EXCEPT !.step = "update", !.pos = p]
      OBVIOUS
    <3>3. call' = [call EXCEPT ![t] = r]
      BY <1>2, <3>1, <3>2
    <3>4. r.step = "update" /\ r.user = call[t].user /\ r.opponent = call[t].opponent /\ r.steady = call[t].steady
      BY <1>2, <3>2 DEF Call
    <3> QED
      BY <1>2, <2>2, <3>3, <3>4 DEF ReadPosition
  <2> QED
    BY <2>1, <2>2
<1>4. \A y, d : Got(y, d)' = Got(y, d)
  BY <1>1, GotSame
<1>5. CallInv(call[t], members[t], Got("match_found", t), Got("question_batch", t))
  BY DEF ServiceInv
<1>6. CallInv(call'[t], members[t], Got("match_found", t), Got("question_batch", t))
  <2>1. Paired(call'[t])
    BY <1>3, <1>5 DEF CallInv, Paired, Walking
  <2>2. Placed(call'[t], members[t])
    BY <1>3, <1>5 DEF CallInv, Placed, Walking
  <2>3. Sends(call'[t], Got("match_found", t), Got("question_batch", t))
    <3>1. call'[t].step = "done" => call'[t].steady = {}
      BY <1>3, <1>5 DEF CallInv, Paired
    <3> QED
      BY <1>3, <1>5, <3>1 DEF CallInv, Sends, Joining, After
  <2> QED
    BY <2>1, <2>2, <2>3 DEF CallInv
<1> QED
  BY <1>1, <1>3, <1>4, <1>6, OneCall DEF queueVars

\* The joins, before anything is broadcast.
LEMMA JoinsService ==
  ASSUME HandlerInv, ServiceInv, QueueTypeOK, NEW t \in Tokens, JoinSelf(t) \/ JoinOther(t)
  PROVE  ServiceInv'
<1>1. HandlersOK /\ members \in [Tokens -> Slice] /\ SliceOK(members[t])
  BY DEF HandlerInv, HandlersOK, SliceOK
<1>2. CallInv(call[t], members[t], Got("match_found", t), Got("question_batch", t))
  BY DEF ServiceInv
<1>3. UNCHANGED <<queueVars, online, inbox, drops>> /\ \A y, d : Got(y, d)' = Got(y, d)
  BY GotSame DEF JoinSelf, JoinOther
<1>4. CASE JoinSelf(t)
  <2>1. /\ call[t].step = "self" /\ members'[t] = With(members[t], call[t].user)
        /\ \A d \in Tokens \ {t} : members'[d] = members[d]
    BY <1>1, <1>4 DEF JoinSelf
  <2>2. /\ call'[t].step = "other" /\ SameCall(call'[t], call[t]) /\ call'[t].steady = call[t].steady
        /\ \A d \in Tokens \ {t} : call'[d] = call[d]
    BY <1>1, <1>4, GotoIs DEF JoinSelf, Steps
  <2>3. CallInv(call'[t], members'[t], Got("match_found", t), Got("question_batch", t))
    BY <1>1, <1>2, <2>1, <2>2, SelfKeeps
  <2> QED
    BY <1>3, <2>1, <2>2, <2>3, OneCall DEF queueVars
<1>5. CASE JoinOther(t)
  <2>1. /\ call[t].step = "other" /\ members'[t] = With(members[t], call[t].opponent)
        /\ \A d \in Tokens \ {t} : members'[d] = members[d]
    BY <1>1, <1>5 DEF JoinOther, Opponent
  <2>2. /\ call'[t].step = "fetch" /\ SameCall(call'[t], call[t]) /\ call'[t].steady = call[t].steady
        /\ \A d \in Tokens \ {t} : call'[d] = call[d]
    BY <1>1, <1>5, GotoIs DEF JoinOther, Steps
  <2>3. CallInv(call'[t], members'[t], Got("match_found", t), Got("question_batch", t))
    BY <1>1, <1>2, <2>1, <2>2, OtherKeeps
  <2> QED
    BY <1>3, <2>1, <2>2, <2>3, OneCall DEF queueVars
<1> QED
  BY <1>4, <1>5

\* A broadcast begins, or has nobody to reach.
LEMMA FetchService ==
  ASSUME HandlerInv, ServiceInv, QueueTypeOK, NEW t \in Tokens,
         FetchSlice(t, "fetch", "found", "refetch") \/ FetchSlice(t, "refetch", "questions", "done")
  PROVE  ServiceInv'
<1>1. PICK c : c = call[t]
  OBVIOUS
<1>2. PICK e : e = call'[t]
  OBVIOUS
<1>3. PICK m : m = members[t]
  OBVIOUS
<1>4. /\ UNCHANGED <<queueVars, online, members, inbox, drops>>
      /\ \A d \in Tokens \ {t} : call'[d] = call[d]
      /\ SameCall(e, c) /\ e.steady = c.steady
      /\ \/ c.step = "fetch" /\ (m.len = 0 => e.step = "refetch") /\ (m.len # 0 => e.step = "found")
         \/ c.step = "refetch" /\ (m.len = 0 => e.step = "done") /\ (m.len # 0 => e.step = "questions")
      /\ m.len # 0 => e.i = 1 /\ e.n = m.len
  <2>1. HandlersOK
    BY DEF HandlerInv
  <2>2. CASE FetchSlice(t, "fetch", "found", "refetch")
    BY <1>1, <1>2, <1>3, <2>1, <2>2, FetchIs
  <2>3. CASE FetchSlice(t, "refetch", "questions", "done")
    BY <1>1, <1>2, <1>3, <2>1, <2>3, FetchIs
  <2> QED
    BY <2>2, <2>3
<1>5. \A y, d : Got(y, d)' = Got(y, d)
  BY <1>4, GotSame
<1>6. PICK f : f = Got("match_found", t)
  OBVIOUS
<1>7. PICK q : q = Got("question_batch", t)
  OBVIOUS
<1>8. CallInv(c, m, f, q) /\ SliceOK(m)
  BY <1>1, <1>3, <1>6, <1>7 DEF ServiceInv, HandlerInv, HandlersOK, SliceOK
<1>9. PICK A : A = c.user
  OBVIOUS
<1>10. PICK B : B = c.opponent
  OBVIOUS
<1>11. /\ A \in Users /\ B \in Users /\ A # B /\ c.steady \subseteq {A, B}
       /\ e.user = A /\ e.opponent = B /\ e.steady = c.steady
       /\ Places(A, B, c.steady, m) /\ m.len \in Nat /\ m.len <= Len(m.cells)
  BY <1>4, <1>8, <1>9, <1>10 DEF CallInv, Paired, Placed, Walking, SameCall, SliceOK, Slice
<1>12. Paired(e)
  BY <1>4, <1>11 DEF Paired, Walking
<1>13. Placed(e, m)
  <2>1. m.len # 0 => Walks(A, B, c.steady, m, 1, m.len)
    BY <1>11 DEF Places, Walks
  <2> QED
    BY <1>4, <1>11, <2>1 DEF Placed, Walking
<1>14. m.len = 0 => c.steady = {}
  BY <1>11 DEF Places
<1>15. \A g : c.steady = {} => After(A, B, c.steady, g)
  BY DEF After
<1>16. \A g : Before(g) => During(A, B, c.steady, 1, g)
  BY <1>11, NoneServed
<1>17. Sends(e, f, q)
  BY <1>4, <1>8, <1>9, <1>10, <1>11, <1>14, <1>15, <1>16 DEF CallInv, Sends, Joining
<1>18. CallInv(e, m, f, q)
  BY <1>12, <1>13, <1>17 DEF CallInv
<1> QED
  BY <1>1, <1>2, <1>3, <1>4, <1>5, <1>6, <1>7, <1>18, OneCall DEF queueVars

\* What the turns of the two broadcasts have in common: A gets or misses the
\* message that is x, among those of the type g that becomes h.
CellTurn(c, e, m, g, h, loop, next) ==
  /\ c.step = loop /\ SameCall(e, c) /\ e.steady \subseteq c.steady
  /\ c.i = c.n => e.step = next
  /\ c.i # c.n => e.step = loop /\ e.i = c.i + 1 /\ e.n = c.n
  /\ Turn(c.steady, g, m.cells[c.i], e.steady, h)

LEMMA CellPlaces ==
  ASSUME NEW c, NEW m, NEW f, NEW q, CallInv(c, m, f, q), SliceOK(m), NEW e, NEW g, NEW h,
         NEW loop, NEW next,
         <<loop, next>> \in {<<"found", "refetch">>, <<"questions", "done">>},
         CellTurn(c, e, m, g, h, loop, next),
         During(c.user, c.opponent, c.steady, c.i, g)
  PROVE  /\ Paired(e) /\ Placed(e, m)
         /\ m.cells[c.i] \in {c.user, c.opponent}
         /\ e.step = next => After(e.user, e.opponent, e.steady, h)
         /\ e.step = loop => During(e.user, e.opponent, e.steady, e.i, h)
         /\ e.step \in {loop, next}
         /\ e.user = c.user /\ e.opponent = c.opponent /\ e.steady \subseteq c.steady
<1>1. PICK A : A = c.user
  OBVIOUS
<1>2. PICK B : B = c.opponent
  OBVIOUS
<1>3. /\ A \in Users /\ B \in Users /\ A # B /\ c.steady \subseteq {A, B}
      /\ e.user = A /\ e.opponent = B /\ e.steady \subseteq c.steady
      /\ Places(A, B, c.steady, m) /\ Walks(A, B, c.steady, m, c.i, c.n)
      /\ loop \in {"found", "questions"} /\ next \in {"refetch", "done"}
  BY <1>1, <1>2 DEF CallInv, Paired, Placed, Walking, CellTurn, SameCall
<1>4. /\ m.cells[c.i] \in {A, B}
      /\ c.i = c.n => After(A, B, e.steady, h)
      /\ c.i # c.n => During(A, B, e.steady, c.i + 1, h) /\ c.i + 1 \in 1..c.n
  <2>1. PICK S : S = c.steady
    OBVIOUS
  <2>2. PICK T : T = e.steady
    OBVIOUS
  <2>3. PICK i : i = c.i
    OBVIOUS
  <2>4. PICK n : n = c.n
    OBVIOUS
  <2>5. /\ S \subseteq {A, B} /\ Places(A, B, S, m) /\ Walks(A, B, S, m, i, n)
        /\ During(A, B, S, i, g) /\ Turn(S, g, m.cells[i], T, h)
    BY <1>1, <1>2, <1>3, <2>1, <2>2, <2>3, <2>4 DEF CellTurn
  <2>6. /\ m.cells[i] \in {A, B}
        /\ i = n => After(A, B, T, h)
        /\ i # n => During(A, B, T, i + 1, h) /\ i + 1 \in 1..n
    BY <1>3, <2>5, TurnServes
  <2> QED
    BY <2>2, <2>3, <2>4, <2>6
<1>5. Paired(e)
  BY <1>3 DEF Paired, CellTurn, Walking
<1>6. Places(A, B, e.steady, m)
  BY <1>3 DEF Places
<1>7. c.i # c.n => Walks(A, B, e.steady, m, e.i, e.n)
  BY <1>3, <1>4 DEF Walks, CellTurn
<1>8. Placed(e, m)
  BY <1>3, <1>6, <1>7 DEF Placed, CellTurn, Walking
<1>9. loop # next /\ e.step \in {loop, next}
  BY DEF CellTurn
<1>10. (e.step = next => c.i = c.n) /\ (e.step = loop => c.i # c.n /\ e.i = c.i + 1)
  BY <1>9 DEF CellTurn
<1> QED
  BY <1>1, <1>2, <1>3, <1>4, <1>5, <1>8, <1>9, <1>10

\* A delivery is a turn of the loop, for the messages of its type.
LEMMA CellIsTurn ==
  ASSUME HandlerInv, NEW t \in Tokens, NEW loop \in {"found", "questions"},
         NEW type \in {"match_found", "question_batch"}, NEW next \in {"refetch", "done"},
         SendToCell(t, loop, type, next)
  PROVE  /\ CellTurn(call[t], call'[t], members[t], Got(type, t), Got(type, t)', loop, next)
         /\ UNCHANGED <<queueVars, members>> /\ \A d \in Tokens \ {t} : call'[d] = call[d]
         /\ \A y \in {"match_found", "question_batch"}, d \in Tokens :
              y # type \/ d # t => Got(y, d)' = Got(y, d)
         /\ \A v \in Users : v # members[t].cells[call[t].i] => Got(type, t)'[v] = Got(type, t)[v]
         /\ \/ Got(type, t)' = Got(type, t)
            \/ \E x : /\ \A v \in Users : Got(type, t)'[v] = Got(type, t)[v] \/ Got(type, t)'[v] = Got(type, t)[v] \cup {x}
                      /\ \A y \in {"match_found", "question_batch"} :
                           \A i \in Got(y, t)[members[t].cells[call[t].i]] : i < x
<1>1. HandlersOK /\ online \subseteq Users
  BY DEF HandlerInv, HandlersOK
<1>2. PICK u : u = members[t].cells[call[t].i]
  OBVIOUS
<1>3. /\ call[t].step = loop /\ UNCHANGED <<queueVars, online, members, drops>>
      /\ \A d \in Tokens \ {t} : call'[d] = call[d]
      /\ SameCall(call'[t], call[t])
      /\ call[t].i = call[t].n => call'[t].step = next
      /\ call[t].i # call[t].n =>
           call'[t].step = loop /\ call'[t].i = call[t].i + 1 /\ call'[t].n = call[t].n
      /\ \/ /\ u \in online /\ call'[t].steady = call[t].steady
            /\ inbox' = [inbox EXCEPT ![u] = Append(inbox[u], [type |-> type, call |-> t])]
         \/ call'[t].steady = call[t].steady \ {u} /\ inbox' = inbox
  <2>1. CellStep(t, loop, type, next, u)
    BY <1>1, <1>2, CellIs
  <2> QED
    BY <2>1 DEF CellStep
<1>4. CASE /\ u \in online /\ call'[t].steady = call[t].steady
           /\ inbox' = [inbox EXCEPT ![u] = Append(inbox[u], [type |-> type, call |-> t])]
  <2>1. u \in Users
    BY <1>1, <1>4
  <2>2. /\ \A y \in {"match_found", "question_batch"}, d \in Tokens :
             y # type \/ d # t => Got(y, d)' = Got(y, d)
        /\ \E x : /\ \A v \in Users : Got(type, t)'[v] = IF v = u THEN Got(type, t)[v] \cup {x} ELSE Got(type, t)[v]
                  /\ \A y \in {"match_found", "question_batch"} : \A i \in Got(y, t)[u] : i < x
    <3>1. inbox' = [inbox EXCEPT ![u] = Append(inbox[u], [type |-> type, call |-> t])]
      BY <1>4
    <3>2. GotGrows(type, t, u)
      BY <1>1, <2>1, <3>1, GotAfter
    <3> QED
      BY <3>2 DEF GotGrows
  <2>3. PICK x : /\ \A v \in Users : Got(type, t)'[v] = IF v = u THEN Got(type, t)[v] \cup {x} ELSE Got(type, t)[v]
                 /\ \A y \in {"match_found", "question_batch"} : \A i \in Got(y, t)[u] : i < x
    BY <2>2
  <2>4. Turn(call[t].steady, Got(type, t), u, call'[t].steady, Got(type, t)')
    BY <1>4, <2>3 DEF Turn
  <2> QED
    BY <1>2, <1>3, <2>2, <2>3, <2>4 DEF CellTurn, SameCall
<1>5. CASE call'[t].steady = call[t].steady \ {u} /\ inbox' = inbox
  <2>1. \A y, d : Got(y, d)' = Got(y, d)
    BY <1>5, GotSame
  <2>2. Turn(call[t].steady, Got(type, t), u, call'[t].steady, Got(type, t)')
    BY <1>5, <2>1 DEF Turn
  <2> QED
    BY <1>2, <1>3, <2>1, <2>2 DEF CellTurn, SameCall
<1> QED
  BY <1>3, <1>4, <1>5

\* The turns of the first broadcast: only match_found is sent, and nothing before it.
LEMMA FoundTurn ==
  ASSUME HandlerInv, ServiceInv, QueueTypeOK, NEW t \in Tokens,
         SendToCell(t, "found", "match_found", "refetch")
  PROVE  ServiceInv'
<1>1. PICK c : c = call[t]
  OBVIOUS
<1>2. PICK e : e = call'[t]
  OBVIOUS
<1>3. PICK m : m = members[t]
  OBVIOUS
<1>4. PICK f : f = Got("match_found", t)
  OBVIOUS
<1>5. PICK q : q = Got("question_batch", t)
  OBVIOUS
<1>6. PICK h : h = Got("match_found", t)'
  OBVIOUS
<1>7. /\ CellTurn(c, e, m, f, h, "found", "refetch")
      /\ UNCHANGED <<queueVars, members>> /\ \A d \in Tokens \ {t} : call'[d] = call[d]
      /\ \A y \in {"match_found", "question_batch"}, d \in Tokens :
           y # "match_found" \/ d # t => Got(y, d)' = Got(y, d)
      /\ \A v \in Users : v # m.cells[c.i] => h[v] = f[v]
  BY <1>1, <1>2, <1>3, <1>4, <1>6, CellIsTurn
<1>8. CallInv(c, m, f, q) /\ SliceOK(m)
  BY <1>1, <1>3, <1>4, <1>5 DEF ServiceInv, HandlerInv, HandlersOK, SliceOK
<1>9. c.step = "found"
  BY <1>7 DEF CellTurn
<1>10. During(c.user, c.opponent, c.steady, c.i, f) /\ Before(q)
  BY <1>8, <1>9 DEF CallInv, Sends, Joining
<1>11. /\ Paired(e) /\ Placed(e, m)
       /\ m.cells[c.i] \in {c.user, c.opponent}
       /\ e.step = "refetch" => After(e.user, e.opponent, e.steady, h)
       /\ e.step = "found" => During(e.user, e.opponent, e.steady, e.i, h)
       /\ e.step \in {"found", "refetch"}
       /\ e.user = c.user /\ e.opponent = c.opponent
  BY <1>7, <1>8, <1>10, CellPlaces
<1>12. Sends(e, h, q)
  <2>1. \A u \in Users : u \notin {e.user, e.opponent} => h[u] = {} /\ q[u] = {}
    BY <1>7, <1>8, <1>11 DEF CallInv, Sends
  <2>2. \A u \in Users : \A i \in h[u], j \in q[u] : i < j
    BY <1>10 DEF Before
  <2> QED
    BY <1>10, <1>11, <2>1, <2>2 DEF Sends, Joining
<1>13. CallInv(e, m, h, q)
  BY <1>11, <1>12 DEF CallInv
<1>14. /\ members' = members /\ nextToken' = nextToken
       /\ Got("question_batch", t)' = q
       /\ \A d \in Tokens \ {t} : /\ Got("match_found", d)' = Got("match_found", d)
                                  /\ Got("question_batch", d)' = Got("question_batch", d)
  BY <1>5, <1>7 DEF queueVars
<1> QED
  BY <1>1, <1>2, <1>3, <1>6, <1>7, <1>9, <1>13, <1>14, OneCall

\* The turns of the second: the questions come behind what was sent before.
LEMMA QuestionsTurn ==
  ASSUME HandlerInv, ServiceInv, QueueTypeOK, NEW t \in Tokens,
         SendToCell(t, "questions", "question_batch", "done")
  PROVE  ServiceInv'
<1>1. PICK c : c = call[t]
  OBVIOUS
<1>2. PICK e : e = call'[t]
  OBVIOUS
<1>3. PICK m : m = members[t]
  OBVIOUS
<1>4. PICK f : f = Got("match_found", t)
  OBVIOUS
<1>5. PICK q : q = Got("question_batch", t)
  OBVIOUS
<1>6. PICK h : h = Got("question_batch", t)'
  OBVIOUS
<1>7. /\ CellTurn(c, e, m, q, h, "questions", "done")
      /\ UNCHANGED <<queueVars, members>> /\ \A d \in Tokens \ {t} : call'[d] = call[d]
      /\ \A y \in {"match_found", "question_batch"}, d \in Tokens :
           y # "question_batch" \/ d # t => Got(y, d)' = Got(y, d)
      /\ \A v \in Users : v # m.cells[c.i] => h[v] = q[v]
      /\ \/ h = q
         \/ \E x : /\ \A v \in Users : h[v] = q[v] \/ h[v] = q[v] \cup {x}
                   /\ \A i \in f[m.cells[c.i]] : i < x
  BY <1>1, <1>2, <1>3, <1>4, <1>5, <1>6, CellIsTurn
<1>8. CallInv(c, m, f, q) /\ SliceOK(m)
  BY <1>1, <1>3, <1>4, <1>5 DEF ServiceInv, HandlerInv, HandlersOK, SliceOK
<1>9. c.step = "questions"
  BY <1>7 DEF CellTurn
<1>10. During(c.user, c.opponent, c.steady, c.i, q) /\ After(c.user, c.opponent, c.steady, f)
  BY <1>8, <1>9 DEF CallInv, Sends
<1>11. /\ Paired(e) /\ Placed(e, m)
       /\ m.cells[c.i] \in {c.user, c.opponent}
       /\ e.step = "done" => After(e.user, e.opponent, e.steady, h)
       /\ e.step = "questions" => During(e.user, e.opponent, e.steady, e.i, h)
       /\ e.step \in {"questions", "done"}
       /\ e.user = c.user /\ e.opponent = c.opponent /\ e.steady \subseteq c.steady
  BY <1>7, <1>8, <1>10, CellPlaces
<1>12. After(e.user, e.opponent, e.steady, f)
  <2>1. PICK A : A = c.user
    OBVIOUS
  <2>2. PICK B : B = c.opponent
    OBVIOUS
  <2>3. c.steady \subseteq {A, B} /\ After(A, B, c.steady, f)
    BY <1>8, <1>10, <2>1, <2>2 DEF CallInv, Paired
  <2> QED
    BY <1>11, <2>1, <2>2, <2>3, FewerServed
<1>13. Sends(e, f, h)
  <2>1. \A u \in Users : u \notin {e.user, e.opponent} => f[u] = {} /\ h[u] = {}
    BY <1>7, <1>8, <1>11 DEF CallInv, Sends
  <2>2. \A u \in Users : \A i \in f[u], j \in h[u] : i < j
    <3> SUFFICES ASSUME NEW u \in Users, NEW i \in f[u], NEW j \in h[u] PROVE i < j
      OBVIOUS
    <3>1. \A k \in q[u] : i < k
      BY <1>8 DEF CallInv, Sends
    <3>2. CASE j \in q[u]
      BY <3>1, <3>2
    <3>3. CASE j \notin q[u]
      <4>1. u = m.cells[c.i]
        BY <1>7, <3>3
      <4> QED
        BY <1>7, <3>3, <4>1
    <3> QED
      BY <3>2, <3>3
  <2> QED
    BY <1>11, <1>12, <2>1, <2>2 DEF Sends, Joining
<1>14. CallInv(e, m, f, h)
  BY <1>11, <1>13 DEF CallInv
<1>15. /\ members' = members /\ nextToken' = nextToken
       /\ Got("match_found", t)' = f
       /\ \A d \in Tokens \ {t} : /\ Got("match_found", d)' = Got("match_found", d)
                                  /\ Got("question_batch", d)' = Got("question_batch", d)
  BY <1>4, <1>7 DEF queueVars
<1> QED
  BY <1>1, <1>2, <1>3, <1>6, <1>7, <1>9, <1>14, <1>15, OneCall

\* For any number of users, categories, calls and disconnections, and any
\* departure while a broadcast walks the members: nobody outside a pair is sent
\* its messages, match_found comes before the questions, and when handleJoinQueue
\* has finished each player of the pair who stayed connected, in the match and
\* with room in its send queue was sent both, each once if both stayed.
THEOREM SteadyPairServed == Spec => []SteadyPairIsServed
<1>1. HandlerInv /\ QueueTypeOK /\ ServiceInv /\ [Next]_vars => ServiceInv'
  <2> SUFFICES ASSUME HandlerInv, QueueTypeOK, ServiceInv, [Next]_vars
               PROVE  ServiceInv'
    OBVIOUS
  <2>1. ASSUME UNCHANGED <<call, members, inbox, nextToken>> PROVE ServiceInv'
    <3>1. \A y, d : Got(y, d)' = Got(y, d)
      BY <2>1, GotSame
    <3> QED
      BY <2>1, <3>1 DEF ServiceInv, UnissuedIsIdle
  <2>2. CASE UNCHANGED vars
    BY <2>1, <2>2 DEF vars, queueVars
  <2>3. ASSUME NEW t \in Tokens, CancelQueue(t) PROVE ServiceInv'
    BY <2>1, <2>3 DEF CancelQueue, Dequeue
  <2>4. ASSUME NEW t \in Tokens, CallStep(t) PROVE ServiceInv'
    BY <2>4, JoinsService, AsideService, FetchService, FoundTurn, QuestionsTurn
       DEF CallStep, BroadcastFound, SendQuestions
  <2>5. ASSUME NEW u \in Users, Connect(u) \/ Disconnect(u) \/ \E t \in Tokens : LeaveMatch(u, t)
        PROVE  ServiceInv'
    BY <2>5, HubTypes, HubService
  <2> QED
    BY <2>2, <2>3, <2>4, <2>5, JoinQueueService DEF Next
<1>2. ServiceInv => SteadyPairIsServed
  <2> SUFFICES ASSUME ServiceInv, NEW t \in Tokens, NEW u \in Users
               PROVE  /\ \A i \in Sent(u, "match_found", t), j \in Sent(u, "question_batch", t) : i < j
                      /\ Sent(u, "match_found", t) \cup Sent(u, "question_batch", t) # {}
                           => u \in {call[t].user, call[t].opponent}
                      /\ call[t].step = "done" /\ u \in call[t].steady => Served(u, t)
                      /\ call[t].step = "done" /\ u \in call[t].steady
                           /\ call[t].steady = {call[t].user, call[t].opponent} => ServedOnce(u, t)
    BY DEF SteadyPairIsServed
  <2>1. PICK f : f = Got("match_found", t)
    OBVIOUS
  <2>2. PICK q : q = Got("question_batch", t)
    OBVIOUS
  <2>3. Sends(call[t], f, q)
    BY <2>1, <2>2 DEF ServiceInv, CallInv
  <2>4. Sent(u, "match_found", t) = f[u] /\ Sent(u, "question_batch", t) = q[u]
    BY <2>1, <2>2 DEF Got
  <2>5. ASSUME call[t].step = "done", u \in call[t].steady,
               call[t].steady = {call[t].user, call[t].opponent}
        PROVE  ServedOnce(u, t)
    <3>1. Single(f[u]) /\ Single(q[u])
      BY <2>3, <2>5 DEF Sends, After
    <3>2. PICK i : f[u] = {i}
      BY <3>1 DEF Single
    <3>3. PICK j : q[u] = {j}
      BY <3>1 DEF Single
    <3>4. i \in DOMAIN inbox[u] /\ j \in DOMAIN inbox[u]
      BY <2>4, <3>2, <3>3 DEF Sent
    <3> QED
      BY <2>4, <3>2, <3>3, <3>4 DEF ServedOnce
  <2>6. call[t].step = "done" /\ u \in call[t].steady => Served(u, t)
    BY <2>3, <2>4 DEF Sends, After, Served
  <2>7. \A i \in f[u], j \in q[u] : i < j
    BY <2>3 DEF Sends
  <2>8. f[u] \cup q[u] # {} => u \in {call[t].user, call[t].opponent}
    BY <2>3 DEF Sends
  <2> QED
    BY <2>4, <2>5, <2>6, <2>7, <2>8
<1> QED
  BY <1>1, <1>2, InitService, HandlerSafe, PTL DEF Spec
=============================================================================
