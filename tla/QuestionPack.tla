---------------------------- MODULE QuestionPack ----------------------------
(***************************************************************************)
(* The questions of a match: FetchPack and AddUserQuestionHistory          *)
(* (internal/question/service.go), as CreateRandomMatch and                *)
(* CreatePrivateMatch call them (internal/match/service.go).  FetchPack    *)
(* samples the curated pool once per difficulty, asks the AI generator for *)
(* what is missing, filters, and for a random match compares the pack with *)
(* the histories of both players.                                          *)
(*                                                                         *)
(* A step is one call to Postgres, Redis or the generator together with    *)
(* what FetchPack computes from the answer; matches are created            *)
(* concurrently, also for one player.  A question is its ID.  The cache is *)
(* left out: its key holds the seed of the match, so Get never hits.  How  *)
(* many questions of which difficulty the generator is asked for is left   *)
(* out too, since whatever it answers is taken.  The branch for the old    *)
(* UserID field is left out: no caller sets it.  A pipeline of reads is    *)
(* one step.  A history expires ten days after it was last given a time to *)
(* live; the ten days are left out, so it may expire whenever it has one.  *)
(***************************************************************************)
EXTENDS Integers, Sequences, SequencesExt

CONSTANTS Users,           \* registered players
          Calls,           \* bound: matches created
          Curated,         \* question ids that may be in the pool
          Generated,       \* question ids the generator may answer with
          Counts,          \* DifficultyCounts: how many questions of each difficulty
          TotalQuestions,
          MaxBatch,        \* bound: questions in one answer of the generator
          AllowedRepeats,  \* 3 in the code
          MayErr           \* a call to Postgres, Redis or the generator may fail

Ids == Curated \cup Generated

ASSUME PackAssumption ==
  /\ IsFiniteSet(Curated)
  /\ Counts \in [DOMAIN Counts -> Nat]
  /\ {TotalQuestions, MaxBatch, AllowedRepeats} \subseteq Nat
  /\ MayErr \in BOOLEAN

VARIABLES
  pool,   \* the verified questions in Postgres
  hist,   \* user:questions:<user> in Redis
  ttl,    \* the players whose history has a time to live
  call    \* the matches being created

vars == <<pool, hist, ttl, call>>

\* The steps of a random match whose pack has been chosen.
Saving == {"save1", "expire1", "save2", "expire2"}

\* users: the two players, <<>> for a private room.  asked: what each of them
\* had been asked when the call began and the history did not forget while the
\* pack was chosen.  blind: a history could not be read.  fresh: the pack was
\* rebuilt because it repeated too much.
Call == [step : {"idle", "curated", "ai", "retry", "history", "regenerate", "check",
                 "built", "done"} \cup Saving,
         users : Seq(Users), asked : Seq(SUBSET Ids), todo : SUBSET DOMAIN Counts,
         result : Seq(Ids), batch : Seq(Ids), blind : BOOLEAN, fresh : BOOLEAN]

TypeOK ==
  /\ pool \subseteq Curated
  /\ hist \in [Users -> SUBSET Ids]
  /\ ttl \subseteq Users
  /\ call \in [Calls -> Call]
  /\ \A c \in Calls : call[c].step \in {"history", "built"} \cup Saving
                        => Len(call[c].result) = TotalQuestions

Idle == [step |-> "idle", users |-> <<>>, asked |-> <<>>, todo |-> {}, result |-> <<>>,
         batch |-> <<>>, blind |-> FALSE, fresh |-> FALSE]

Init ==
  /\ pool \in SUBSET Curated
  /\ hist = [u \in Users |-> {}]
  /\ ttl = {}
  /\ call = [c \in Calls |-> Idle]

-----------------------------------------------------------------------------

Goto(c, state) == call' = [call EXCEPT ![c] = state]

Done == [Idle EXCEPT !.step = "done"]

\* A call s that began before u's history was lost.
Forget(s, u) ==
  [s EXCEPT !.asked = [i \in DOMAIN s.users |-> IF s.users[i] = u THEN {} ELSE s.asked[i]]]

\* Any answer of the generator; an empty one is an error.
Batches == UNION {[1..n -> Generated] : n \in 1..MaxBatch}

\* ORDER BY RANDOM() LIMIT n, among the verified questions.
Samples(n) ==
  {s \in [1..(IF n < Cardinality(pool) THEN n ELSE Cardinality(pool)) -> pool] : IsInjective(s)}

Wanted == FoldFunction(+, 0, Counts)

\* The positions of a pack that hold a question of S.
Repeats(pack, S) == Cardinality({i \in DOMAIN pack : pack[i] \in S})

\* What the loops over the generator's questions do: those not there yet are
\* added until the pack is full.
TakeNew(pack, batch) ==
  LET taken[n \in 0..Len(batch)] ==
        IF n = 0 THEN pack
        ELSE LET p == taken[n - 1]
             IN  IF batch[n] \in ToSet(p) \/ Len(p) >= TotalQuestions THEN p ELSE Append(p, batch[n])
  IN  taken[Len(batch)]

\* The loops that filter a pack: its questions that are in S, in order.
Keep(pack, S) ==
  LET kept[n \in 0..Len(pack)] ==
        IF n = 0 THEN <<>>
        ELSE LET p == kept[n - 1] IN IF pack[n] \in S THEN Append(p, pack[n]) ELSE p
  IN  kept[Len(pack)]

\* Mutant: a pack that is too short is returned all the same.
AnyLength(s, pack, step) ==
  [s EXCEPT !.step = step, !.result = pack]

\* Too short a pack is an error, too long a one is cut.
Sized(s, pack, step) ==
  IF Len(pack) < TotalQuestions THEN Done
  ELSE [s EXCEPT !.step = step, !.result = SubSeq(pack, 1, TotalQuestions), !.batch = <<>>]

\* Final validation; only a random match has histories to compare with.
Validated(s, pack) == Sized(s, pack, IF s.users = <<>> THEN "built" ELSE "history")

\* The filter keeps every question whose ID is among the unique IDs, that is
\* all of them, so it only regenerates when the pack is short.
Filtered(pack) == Keep(pack, ToSet(pack))

DuplicatesChecked(s, pack) ==
  IF ~IsInjective(pack) /\ Len(Filtered(pack)) < TotalQuestions
    THEN [s EXCEPT !.step = "retry", !.result = Filtered(pack)]
    ELSE Validated(s, pack)

-----------------------------------------------------------------------------

\* CreateRandomMatch for a pair, or CreatePrivateMatch; the cache has no pack.
Begin(c, users) ==
  /\ call[c].step = "idle"
  /\ Goto(c, [Idle EXCEPT !.step = "curated", !.users = users, !.todo = DOMAIN Counts,
                          !.asked = [i \in DOMAIN users |-> hist[users[i]]]])
  /\ UNCHANGED <<pool, hist, ttl>>

\* fetchCurated for one difficulty: the query does not look at it.
FetchCurated(c, d) ==
  /\ call[c].step = "curated"
  /\ d \in call[c].todo
  /\ \/ \E sample \in Samples(Counts[d]) :
          LET pack == call[c].result \o sample
              s == [call[c] EXCEPT !.result = pack, !.todo = @ \ {d}]
          IN  Goto(c, IF s.todo # {} THEN s
                      ELSE IF Len(pack) < Wanted THEN [s EXCEPT !.step = "ai"]
                      ELSE DuplicatesChecked(s, pack))
     \/ MayErr /\ Goto(c, Done)
  /\ UNCHANGED <<pool, hist, ttl>>

\* fetchAIMixed for what the pool did not have.
FetchAI(c) ==
  /\ call[c].step = "ai"
  /\ \/ \E batch \in Batches : Goto(c, DuplicatesChecked(call[c], call[c].result \o batch))
     \/ MayErr /\ Goto(c, Done)
  /\ UNCHANGED <<pool, hist, ttl>>

\* fetchAIMixed to fill the gap duplicates left; an error is ignored.
Retry(c) ==
  /\ call[c].step = "retry"
  /\ \/ \E batch \in Batches : Goto(c, Validated(call[c], TakeNew(call[c].result, batch)))
     \/ MayErr /\ Goto(c, Validated(call[c], call[c].result))
  /\ UNCHANGED <<pool, hist, ttl>>

\* Mutant: only the first player's history decides.
FirstPlayerRepeats(s) == Repeats(s.result, hist[s.users[1]])

\* maxDup of FetchPack.
MaxRepeats(s) == LET n == {Repeats(s.result, hist[s.users[i]]) : i \in {1, 2}}
                 IN  CHOOSE k \in n : \A m \in n : m <= k

SeenByEither(s) == hist[s.users[1]] \cup hist[s.users[2]]

\* Mutant: questions seen by the first player only are kept.
Unseen1(s) == Keep(s.result, Ids \ hist[s.users[1]])

Unseen(s) == Keep(s.result, Ids \ SeenByEither(s))

\* checkBothPlayersHistory, a pipeline whose failure means "all unseen", and
\* the three cases that follow.  Repeats are added back in map order.
CheckHistory(c) ==
  LET s == call[c]
      gap == TotalQuestions - Len(Unseen(s))
  IN  /\ s.step = "history"
      /\ \/ /\ MaxRepeats(s) = 0
            /\ Goto(c, Sized(s, s.result, "save1"))
         \/ /\ MaxRepeats(s) \in 1..AllowedRepeats
            /\ \E back \in (IF gap <= MaxRepeats(s)
                              THEN SetToSeqs(ToSet(s.result) \cap SeenByEither(s)) ELSE {<<>>}) :
                 Goto(c, Sized(s, Unseen(s) \o back, "save1"))
         \/ /\ MaxRepeats(s) > AllowedRepeats
            /\ Goto(c, [s EXCEPT !.step = "regenerate", !.fresh = TRUE,
                                 !.result = TakeNew(<<>>, Unseen(s))])
         \/ MayErr /\ Goto(c, Sized([s EXCEPT !.blind = TRUE], s.result, "save1"))
      /\ UNCHANGED <<pool, hist, ttl>>

\* fetchAIMixed to replace what the players have seen; an error is ignored.
Regenerate(c) ==
  /\ call[c].step = "regenerate"
  /\ \/ \E batch \in Batches : Goto(c, [call[c] EXCEPT !.step = "check", !.batch = batch])
     \/ MayErr /\ Goto(c, Sized(call[c], call[c].result, "save1"))
  /\ UNCHANGED <<pool, hist, ttl>>

\* One new question: a history check of its own, then it is added if it may be.
CheckNew(c) ==
  /\ call[c].step = "check"
  /\ \E blind \in {FALSE} \cup (IF MayErr THEN {TRUE} ELSE {}) :
       LET q == Head(call[c].batch)
           s == [call[c] EXCEPT !.batch = Tail(@), !.blind = @ \/ blind,
                                !.result = IF q \in SeenByEither(call[c]) /\ ~blind THEN @
                                           ELSE TakeNew(@, <<q>>)]
       IN  Goto(c, IF s.batch # <<>> THEN s ELSE Sized(s, s.result, "save1"))
  /\ UNCHANGED <<pool, hist, ttl>>

\* AddUserQuestionHistory for one player and then the other: SADD and, if it was
\* answered, EXPIRE, which does nothing to a key that is gone.  Errors are logged.
AddUserQuestionHistory(c, i, step, expire, next) ==
  LET u == call[c].users[i]
      longer == [hist EXCEPT ![u] = @ \cup ToSet(call[c].result)]
  IN  /\ call[c].step = step
      /\ \/ hist' = longer /\ Goto(c, [call[c] EXCEPT !.step = expire])
         \/ MayErr /\ hist' \in {hist, longer} /\ Goto(c, next)
      /\ UNCHANGED <<pool, ttl>>

Expire(c, i, step, next) ==
  LET u == call[c].users[i]
  IN  /\ call[c].step = step
      /\ \/ ttl' = IF hist[u] = {} THEN ttl ELSE ttl \cup {u}
         \/ MayErr /\ UNCHANGED ttl
      /\ Goto(c, next)
      /\ UNCHANGED <<pool, hist>>

SecondPlayer(c) == [call[c] EXCEPT !.step = "save2"]

SaveHistory(c) ==
  \/ AddUserQuestionHistory(c, 1, "save1", "expire1", SecondPlayer(c))
  \/ Expire(c, 1, "expire1", SecondPlayer(c))
  \/ AddUserQuestionHistory(c, 2, "save2", "expire2", Done)
  \/ Expire(c, 2, "expire2", Done)

\* Ten days after the last EXPIRE all of a history goes at once.
HistoryExpires(u) ==
  /\ u \in ttl
  /\ hist' = [hist EXCEPT ![u] = {}]
  /\ ttl' = ttl \ {u}
  /\ call' = [c \in Calls |-> IF call[c].step \in Saving THEN call[c] ELSE Forget(call[c], u)]
  /\ UNCHANGED pool

\* A private match keeps no history.
ReturnPack(c) ==
  /\ call[c].step = "built"
  /\ Goto(c, Done)
  /\ UNCHANGED <<pool, hist, ttl>>

-----------------------------------------------------------------------------

Pairs == {p \in [{1, 2} -> Users] : p[1] # p[2]}

Next ==
  \/ \E c \in Calls :
       \/ \E users \in Pairs \cup {<<>>} : Begin(c, users)
       \/ \E d \in DOMAIN Counts : FetchCurated(c, d)
       \/ FetchAI(c) \/ Retry(c) \/ CheckHistory(c) \/ Regenerate(c) \/ CheckNew(c)
       \/ SaveHistory(c) \/ ReturnPack(c)
  \/ \E u \in Users : HistoryExpires(u)

Spec == Init /\ [][Next]_vars

-----------------------------------------------------------------------------
(* Properties *)

\* The calls with a pack to return.
Built == {c \in Calls : call[c].step \in {"built"} \cup Saving}

(***************************************************************************)
(* FetchPack is fair to both players: if their histories could be read, a  *)
(* pack repeats at most AllowedRepeats of what the history of either held  *)
(* when the match was being created and did not lose, by its expiry, while *)
(* the pack was chosen; whatever the pool holds, the generator answers and *)
(* other matches add to the histories meanwhile.  The questions of another *)
(* match that is being created at the same time are not counted.           *)
(***************************************************************************)
RepeatsBounded ==
  \A c \in Built : ~call[c].blind =>
    \A i \in DOMAIN call[c].users : Repeats(call[c].result, call[c].asked[i]) <= AllowedRepeats

(***************************************************************************)
(* A pack that had to be rebuilt has no question twice, and none that a    *)
(* player had been asked by then, unless the history expired meanwhile or  *)
(* could not be read: the loop that adds the generator's questions checks  *)
(* each against both histories and against those already taken.            *)
(***************************************************************************)
RebuiltPackIsFresh ==
  \A c \in Built : call[c].fresh =>
    /\ IsInjective(call[c].result)
    /\ ~call[c].blind => \A i \in {1, 2} : Repeats(call[c].result, call[c].asked[i]) = 0

(***************************************************************************)
(* What the comment on step 3 of FetchPack says: the check for duplicates  *)
(* within a match is mandatory for all matches.                            *)
(***************************************************************************)
NoDuplicatesInPack == \A c \in Built : IsInjective(call[c].result)
=============================================================================
