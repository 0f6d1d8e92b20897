----------------------------- MODULE MatchState -----------------------------
(***************************************************************************)
(* One running match: the player states kept in Redis under a match lock   *)
(* (internal/match/state.go), and the two operations of the service that   *)
(* read and write them, SubmitAnswer and FinalizeMatch                     *)
(* (internal/match/service.go), called by the WebSocket handlers           *)
(* (internal/match/handler.go) of any server instance.                     *)
(*                                                                         *)
(* A step is one command to Redis or to the database; between two commands *)
(* other calls run, the lock may expire, the instance may crash.  A call   *)
(* works on the copy it read.  The three kinds of fault are switched on by *)
(* constants so that a run can say which guarantee needs which assumption. *)
(*                                                                         *)
(* A FinalScore is a function of the answers and of the moment it was      *)
(* computed, so a player state keeps that moment instead of the number.    *)
(* PlayerState.Status is "completed" exactly when FinalScore is set: no    *)
(* code sets LeftAt, so "left_early" does not occur.                       *)
(***************************************************************************)
EXTENDS Scoring

CONSTANTS
  Players,             \* the user ids of the match
  Guests,              \* those among them with IsGuest
  QuestionCount,       \* number of questions in the pack
  TokenOf,             \* the signed token of each question order
  BadToken,            \* a token of no question
  Mode,                \* "random_1v1" or "private_room"
  RowFound,            \* GetSummary(matchID) finds the match's row: FALSE in the
                       \* program as wired (CreateMatch leaves the row's id to the
                       \* database), TRUE to see what FinalizeMatch does with a row
  PerQuestionTimeout,  \* ticks per question (the row's value, else the fallback)
  MaxTime,             \* bound: ticks of the clock
  Verdicts,            \* what comparing with CorrectAnswer may yield, a set of BOOLEANs
  Calls,               \* bound: the calls of SubmitAnswer and FinalizeMatch
  MayExpire,           \* a call may outlive the 30 s of its lock
  MayCrash,            \* a server may die in the middle of a call
  MayErr,              \* a Redis or database command may return an error
  NoCall, NoState, NoReq, NotFinal

Orders == 1..QuestionCount

ASSUME MatchAssumption ==
  /\ QuestionCount \in Nat
  /\ Guests \subseteq Players
  /\ DOMAIN TokenOf = Orders
  /\ BadToken \notin {TokenOf[o] : o \in Orders}
  /\ Mode \in {"random_1v1", "private_room"}
  /\ {RowFound, MayExpire, MayCrash, MayErr} \subseteq BOOLEAN
  /\ Verdicts \subseteq BOOLEAN
  /\ PerQuestionTimeout \in Nat
  /\ MaxTime \in Nat
  /\ NoCall \notin Calls
  /\ NotFinal \notin Nat

VARIABLES
  lock,       \* value of match:lock, the uuid of the call that set it
  pstate,     \* values of match:player:<match>:<user>
  cached,     \* match:questions is there
  rowStatus,  \* status column of the match's row
  now,        \* the clock
  pc,         \* where each call is
  req,        \* the arguments of each SubmitAnswer
  copy,       \* the player states each call has read
  final,      \* the player states each FinalizeMatch has computed
  todo,       \* players the current loop of a FinalizeMatch has left
  eligible,   \* leaderboardEligible of each FinalizeMatch
  outcome,    \* what each call is about to return
  acked,      \* <<user, order>> of every answer_ack sent
  recorded,   \* results handed to the leaderboard
  expired     \* calls whose lock ran out under them

storeVars == <<pstate, cached, rowStatus, recorded>>
localVars == <<req, copy, final, todo, eligible, outcome>>
vars == <<lock, storeVars, now, pc, localVars, acked, expired>>

Answer == [QuestionOrder : Orders, IsCorrect : BOOLEAN, SubmittedAt : 0..MaxTime]
PlayerState == [Answers : Seq(Answer), FinalAt : (0..MaxTime) \cup {NotFinal}]
MaybeState == PlayerState \cup {NoState}

ASSUME StateAssumption == NoState \notin PlayerState

Tokens == {TokenOf[o] : o \in Orders} \cup {BadToken}
Request == [user : Players, token : Tokens, correct : BOOLEAN, at : 0..MaxTime]
Result == [call : Calls, user : Players, won : BOOLEAN]

SubmitSteps == {"read", "store"}
FinalizeSteps == {"load", "pack", "write", "status", "record"}
\* Between acquiring the lock and the deferred unlock.
Critical == SubmitSteps \cup FinalizeSteps \cup {"unlock"}

TypeOK ==
  /\ lock \in Calls \cup {NoCall}
  /\ pstate \in [Players -> MaybeState]
  /\ cached \in BOOLEAN
  /\ rowStatus \in {"pending", "completed"}
  /\ now \in 0..MaxTime
  /\ pc \in [Calls -> Critical \cup {"idle", "done"}]
  /\ req \in [Calls -> Request \cup {NoReq}]
  /\ copy \in [Calls -> [Players -> MaybeState]]
  /\ final \in [Calls -> [Players -> MaybeState]]
  /\ todo \in [Calls -> SUBSET Players]
  /\ eligible \in [Calls -> BOOLEAN]
  /\ outcome \in [Calls -> {"none", "ok", "error"}]
  /\ acked \subseteq Players \X Orders
  /\ recorded \subseteq Result
  /\ expired \subseteq Calls

NoStates == [u \in Players |-> NoState]

\* CreateRandomMatch and CreatePrivateMatch have returned: they store one
\* empty state per player and the question pack, and only log a failed store.
Init ==
  /\ lock = NoCall
  /\ pstate \in [Players -> {[Answers |-> <<>>, FinalAt |-> NotFinal]}
                              \cup (IF MayErr THEN {NoState} ELSE {})]
  /\ cached \in (IF MayErr THEN BOOLEAN ELSE {TRUE})
  /\ rowStatus = "pending"
  /\ now = 0
  /\ pc = [c \in Calls |-> "idle"]
  /\ req = [c \in Calls |-> NoReq]
  /\ copy = [c \in Calls |-> NoStates]
  /\ final = [c \in Calls |-> NoStates]
  /\ todo = [c \in Calls |-> {}]
  /\ eligible = [c \in Calls |-> FALSE]
  /\ outcome = [c \in Calls |-> "none"]
  /\ acked = {}
  /\ recorded = {}
  /\ expired = {}

-----------------------------------------------------------------------------
(* The match lock *)

\* SET NX with a fresh lock value.
Acquire(c, step) ==
  /\ lock = NoCall
  /\ lock' = c
  /\ pc' = [pc EXCEPT ![c] = step]

\* LockMatch returns an error: the lock is held, or the command failed; a
\* failed command may have taken effect, and then nobody will release it.
Refused(c) ==
  /\ \/ (lock # NoCall \/ MayErr) /\ UNCHANGED lock
     \/ MayErr /\ lock = NoCall /\ lock' = c
  /\ pc' = [pc EXCEPT ![c] = "done"]

\* Mutant: the unlock deletes the key without looking at its value.
DelLock(c) == NoCall

\* The unlock script deletes the key only when it still holds our value.
UnlockScript(c) == IF lock = c THEN NoCall ELSE lock

\* Mutant: the lock is set without a time to live.
NoTimeToLive == FALSE /\ UNCHANGED vars

\* The key's 30 seconds are over.  The holder is gone, or it is just slow.
LockExpire ==
  /\ lock # NoCall
  /\ pc[lock] \notin Critical \/ MayExpire
  /\ lock' = NoCall
  /\ expired' = expired \cup ({lock} \cap {c \in Calls : pc[c] \in Critical})
  /\ UNCHANGED <<storeVars, now, pc, localVars, acked>>

\* A call is over: its local variables are gone.
Finish(c) ==
  /\ pc' = [pc EXCEPT ![c] = "done"]
  /\ req' = [req EXCEPT ![c] = NoReq]
  /\ copy' = [copy EXCEPT ![c] = NoStates]
  /\ final' = [final EXCEPT ![c] = NoStates]
  /\ todo' = [todo EXCEPT ![c] = {}]
  /\ eligible' = [eligible EXCEPT ![c] = FALSE]
  /\ outcome' = [outcome EXCEPT ![c] = "none"]

\* The server that runs the call dies.
Crash(c) ==
  /\ MayCrash
  /\ pc[c] \in Critical
  /\ Finish(c)
  /\ UNCHANGED <<lock, storeVars, now, acked, expired>>

-----------------------------------------------------------------------------
(* SubmitAnswer *)

OrdersIn(answers) == {answers[i].QuestionOrder : i \in DOMAIN answers}

\* Mutant: a token that matches nothing leaves the question order at 0.
QuestionOrZero(token) ==
  LET found == {o \in Orders : TokenOf[o] = token /\ \A p \in 1..(o - 1) : TokenOf[p] # token}
  IN  IF found = {} THEN {0} ELSE found

\* The first question of the pack with this token, if there is one.
QuestionFor(token) ==
  {o \in Orders : TokenOf[o] = token /\ \A p \in 1..(o - 1) : TokenOf[p] # token}

SubmitAnswer(c, u, token, isCorrect) ==
  /\ pc[c] = "idle"
  /\ \/ /\ Acquire(c, "read")
        /\ req' = [req EXCEPT ![c] = [user |-> u, token |-> token,
                                      correct |-> isCorrect, at |-> now]]
     \/ Refused(c) /\ UNCHANGED req
  /\ UNCHANGED <<storeVars, now, copy, final, todo, eligible, outcome, acked, expired>>

\* Mutant: the "already answered" test is missing.
MayAnswerAgain(s, token) == s # NoState /\ cached /\ QuestionFor(token) # {}

\* SubmitAnswer's checks on the state it read: it exists, the pack exists,
\* the token names a question, and that question has no answer yet.
MayAnswer(s, token) ==
  /\ s # NoState
  /\ cached
  /\ \E o \in QuestionFor(token) : o \notin OrdersIn(s.Answers)

ReadState(c) ==
  LET r == req[c]
  IN  /\ pc[c] = "read"
      /\ \/ /\ MayAnswer(pstate[r.user], r.token)
            /\ copy' = [copy EXCEPT ![c][r.user] = pstate[r.user]]
            /\ pc' = [pc EXCEPT ![c] = "store"]
            /\ UNCHANGED outcome
         \/ /\ ~MayAnswer(pstate[r.user], r.token) \/ MayErr
            /\ pc' = [pc EXCEPT ![c] = "unlock"]
            /\ outcome' = [outcome EXCEPT ![c] = "error"]
            /\ UNCHANGED copy
      /\ UNCHANGED <<lock, storeVars, now, req, final, todo, eligible, acked, expired>>

\* The copy that was read, with the answer appended, replaces what is stored.
StoreAnswer(c) ==
  LET r == req[c]
  IN  /\ pc[c] = "store"
      /\ \E o \in QuestionFor(r.token) :
           LET ans == [QuestionOrder |-> o, IsCorrect |-> r.correct, SubmittedAt |-> r.at]
               new == [copy[c][r.user] EXCEPT !.Answers = Append(@, ans)]
           IN  \/ /\ pstate' = [pstate EXCEPT ![r.user] = new]
                  /\ outcome' = [outcome EXCEPT ![c] = "ok"]
               \/ /\ MayErr
                  /\ pstate' \in {pstate, [pstate EXCEPT ![r.user] = new]}
                  /\ outcome' = [outcome EXCEPT ![c] = "error"]
      /\ pc' = [pc EXCEPT ![c] = "unlock"]
      /\ UNCHANGED <<lock, cached, rowStatus, recorded, now, req, copy, final, todo, eligible,
                     acked, expired>>

\* Mutant: the answer is acknowledged whatever SubmitAnswer returned.
AckAll(c) ==
  IF req[c] # NoReq THEN {<<req[c].user, o>> : o \in QuestionFor(req[c].token)} ELSE {}

\* handleSubmitAnswer acknowledges an answer SubmitAnswer accepted.
Ack(c) ==
  IF req[c] # NoReq /\ outcome[c] = "ok"
    THEN {<<req[c].user, o>> : o \in QuestionFor(req[c].token)}
    ELSE {}

\* The deferred unlock of either operation, and the return to the handler.
Unlock(c) ==
  /\ pc[c] = "unlock"
  /\ lock' = UnlockScript(c) \/ (MayErr /\ UNCHANGED lock)
  /\ acked' = acked \cup Ack(c)
  /\ Finish(c)
  /\ UNCHANGED <<storeVars, now, expired>>

-----------------------------------------------------------------------------
(* FinalizeMatch *)

\* leaderboard_eligible as the two Create functions write it.
LeaderboardEligible == Mode = "private_room" \/ Guests = {}

FinalizeMatch(c) ==
  /\ pc[c] = "idle"
  /\ \/ /\ Acquire(c, "load")
        /\ todo' = [todo EXCEPT ![c] = Players]
        /\ \E e \in {RowFound /\ LeaderboardEligible} \cup (IF MayErr THEN {FALSE} ELSE {}) :
             eligible' = [eligible EXCEPT ![c] = e]
     \/ Refused(c) /\ UNCHANGED <<todo, eligible>>
  /\ UNCHANGED <<storeVars, now, req, copy, final, outcome, acked, expired>>

\* GetAllPlayerStates, one GET; a key that cannot be read is skipped.
LoadState(c, u) ==
  /\ pc[c] = "load"
  /\ u \in todo[c]
  /\ copy' = [copy EXCEPT ![c][u] = pstate[u]] \/ (MayErr /\ UNCHANGED copy)
  /\ todo' = [todo EXCEPT ![c] = @ \ {u}]
  /\ pc' = [pc EXCEPT ![c] = IF todo[c] = {u} THEN "pack" ELSE "load"]
  /\ UNCHANGED <<lock, storeVars, now, req, final, eligible, outcome, acked, expired>>

\* GetMatchQuestions; without states to finish the loop body never runs.
LoadPack(c) ==
  LET found == {u \in Players : copy[c][u] # NoState}
  IN  /\ pc[c] = "pack"
      /\ \/ /\ todo' = [todo EXCEPT ![c] = found]
            /\ pc' = [pc EXCEPT ![c] = IF found = {} THEN "status" ELSE "write"]
            /\ UNCHANGED outcome
         \/ /\ MayErr
            /\ pc' = [pc EXCEPT ![c] = "unlock"]
            /\ outcome' = [outcome EXCEPT ![c] = "error"]
            /\ UNCHANGED todo
      /\ UNCHANGED <<lock, storeVars, now, req, copy, final, eligible, acked, expired>>

\* The orders in S, ascending: a set of one sequence.
Ascending(S) ==
  {s \in [1..Cardinality(S) -> S] : /\ \A i, j \in DOMAIN s : i < j => s[i] < s[j]
                                    /\ \A o \in S : \E i \in DOMAIN s : s[i] = o}

\* Mutant: every question of the pack is added as a wrong answer.
UnansweredAll(answers) == IF cached THEN Orders ELSE {}

\* The orders the loop over the pack finds no answer for.
Unanswered(answers) == (IF cached THEN Orders ELSE {}) \ OrdersIn(answers)

\* Mutant: the unanswered questions are left out.
AnswersAlone(answers, missing) == answers

\* The answers completed with a wrong answer for every question left open.
WithMissing(answers, missing) ==
  answers \o [i \in DOMAIN missing |->
                [QuestionOrder |-> missing[i], IsCorrect |-> FALSE, SubmittedAt |-> now]]

\* Mutant: the status is updated inside the loop over the states.
StatusInLoop(c, u) == "status"

\* UpdateStatus comes after the loop.
AfterWrite(c, u) == IF todo[c] = {u} THEN "status" ELSE "write"

\* One turn of the loop over the states.  The player's row in the database is
\* updated too, but nothing reads it and its failure is only logged.
WriteFinal(c, u) ==
  /\ pc[c] = "write"
  /\ u \in todo[c]
  /\ \E missing \in Ascending(Unanswered(copy[c][u].Answers)) :
       LET s == [Answers |-> WithMissing(copy[c][u].Answers, missing), FinalAt |-> now]
       IN  /\ final' = [final EXCEPT ![c][u] = s]
           /\ pstate' = [pstate EXCEPT ![u] = s] \/ (MayErr /\ UNCHANGED pstate)
  /\ todo' = [todo EXCEPT ![c] = @ \ {u}]
  /\ pc' = [pc EXCEPT ![c] = AfterWrite(c, u)]
  /\ UNCHANGED <<lock, cached, rowStatus, recorded, now, req, copy, eligible, outcome, acked,
                 expired>>

Score(s) ==
  IF s.FinalAt = NotFinal THEN 0
  ELSE ComputeFinalScore(s.Answers, PerQuestionTimeout, s.FinalAt).totalScore

\* leaderboardReqs: registered players of an eligible match.
Reqs(c) == IF eligible[c] THEN {u \in Players \ Guests : final[c][u] # NoState} ELSE {}

\* UpdateStatus; an UPDATE that matches no row is not an error.
SetStatus(c) ==
  /\ pc[c] = "status"
  /\ \/ /\ rowStatus' = IF RowFound THEN "completed" ELSE rowStatus
        /\ todo' = [todo EXCEPT ![c] = Reqs(c)]
        /\ pc' = [pc EXCEPT ![c] = IF Reqs(c) = {} THEN "unlock" ELSE "record"]
        /\ outcome' = [outcome EXCEPT ![c] = "ok"]
     \/ /\ MayErr
        /\ pc' = [pc EXCEPT ![c] = "unlock"]
        /\ outcome' = [outcome EXCEPT ![c] = "error"]
        /\ UNCHANGED <<rowStatus, todo>>
  /\ UNCHANGED <<lock, pstate, cached, recorded, now, req, copy, final, eligible, acked, expired>>

\* Mutant: the scores are taken from the elements of states, as the payload does.
WonByCopies(c, u) == \A v \in Reqs(c) : Score(copy[c][v]) <= Score(copy[c][u])

\* Won: no other request has a higher score; ties all win.
Won(c, u) == \A v \in Reqs(c) : Score(final[c][v]) <= Score(final[c][u])

\* RecordResult, or RecordPrivateRoomResult for a private room; errors are logged.
RecordResult(c, u) ==
  /\ pc[c] = "record"
  /\ u \in todo[c]
  /\ \/ recorded' = recorded \cup {[call |-> c, user |-> u, won |-> Won(c, u)]}
     \/ MayErr /\ UNCHANGED recorded
  /\ todo' = [todo EXCEPT ![c] = @ \ {u}]
  /\ pc' = [pc EXCEPT ![c] = IF todo[c] = {u} THEN "unlock" ELSE "record"]
  /\ UNCHANGED <<lock, pstate, cached, rowStatus, now, req, copy, final, eligible, outcome,
                 acked, expired>>

\* The results of match_complete: the range loop that finalises works on a
\* copy of each element, so the elements of states are as they were read.
PayloadScores(c) ==
  [u \in {v \in Players : copy[c][v] # NoState} |-> Score(copy[c][u])]

-----------------------------------------------------------------------------

Tick == now < MaxTime /\ now' = now + 1
        /\ UNCHANGED <<lock, storeVars, pc, localVars, acked, expired>>

Submit(c) ==
  \E u \in Players, token \in Tokens, isCorrect \in Verdicts : SubmitAnswer(c, u, token, isCorrect)

\* The steps a started call takes by itself.
CallStep(c) ==
  \/ ReadState(c) \/ StoreAnswer(c) \/ Unlock(c)
  \/ LoadPack(c) \/ SetStatus(c)
  \/ \E u \in Players : LoadState(c, u) \/ WriteFinal(c, u) \/ RecordResult(c, u)

Next ==
  \/ LockExpire
  \/ Tick
  \/ \E c \in Calls : Submit(c) \/ FinalizeMatch(c) \/ CallStep(c) \/ Crash(c)

Spec == Init /\ [][Next]_vars

\* A goroutine runs on, and Redis drops an expired key.
Fairness == WF_vars(LockExpire) /\ \A c \in Calls : WF_vars(CallStep(c))

FairSpec == Spec /\ Fairness

-----------------------------------------------------------------------------
(* Properties *)

(***************************************************************************)
(* No player ever has two answers to one question, in Redis or in the copy *)
(* of any call, even when locks expire under slow calls, servers crash and *)
(* commands fail: SubmitAnswer appends to the copy it checked.             *)
(***************************************************************************)
DupFree(answers) ==
  \A i, j \in DOMAIN answers : answers[i].QuestionOrder = answers[j].QuestionOrder => i = j

AnsweredOnce == \A u \in Players : pstate[u] # NoState => DupFree(pstate[u].Answers)

(***************************************************************************)
(* The lock of a call in its critical section is not lost to another call: *)
(* only its own expiry can take it.  A call that overran its 30 seconds    *)
(* and unlocks late must not release the lock its successor holds.         *)
(***************************************************************************)
LockNotStolen == \A c \in Calls : pc[c] \in Critical /\ c \notin expired => lock = c

(***************************************************************************)
(* As long as no call outlives its lock, an acknowledged answer stays stored: no *)
(* concurrent submission or finalisation overwrites it with an older copy, *)
(* whatever crashes or fails.                                              *)
(***************************************************************************)
AckedAnswersKept ==
  expired = {} => \A a \in acked : /\ pstate[a[1]] # NoState
                                   /\ a[2] \in OrdersIn(pstate[a[1]].Answers)

(***************************************************************************)
(* A finalised player has an answer to every question of the pack, so no   *)
(* later submission can be accepted for it.                                *)
(***************************************************************************)
FinalIsComplete ==
  cached => \A u \in Players : pstate[u] # NoState /\ pstate[u].FinalAt # NotFinal
                                 => OrdersIn(pstate[u].Answers) = Orders

(***************************************************************************)
(* As long as no call outlives its lock, the answers of a finalised player never *)
(* change again, not even by a second finalisation.                        *)
(***************************************************************************)
FinalAnswersFrozen ==
  [][expired' = {} => \A u \in Players :
       pstate[u] # NoState /\ pstate[u].FinalAt # NotFinal
         => pstate'[u].Answers = pstate[u].Answers]_vars

(***************************************************************************)
(* A match is marked completed in the database only after every player's   *)
(* state is final, also when the finalising server crashes half way (with  *)
(* no Redis or database error and no overrun lock).                        *)
(***************************************************************************)
CompletedMeansFinal ==
  rowStatus = "completed" /\ expired = {} => \A u \in Players : pstate[u].FinalAt # NotFinal

(***************************************************************************)
(* What the leaderboard is told agrees with what Redis holds: as long as   *)
(* the finalisation that records a result holds the match, every stored    *)
(* state is final and the result counts a win exactly when no stored score *)
(* beats the player's, whatever was submitted or finalised before          *)
(* FinalizeMatch took its copies (random matches, where eligible means     *)
(* that both players are registered; no Redis or database error and no     *)
(* overrun lock).                                                          *)
(***************************************************************************)
ResultsMatchStates ==
  expired = {} => \A r \in recorded : pc[r.call] \in Critical =>
    /\ \A v \in Players : pstate[v].FinalAt # NotFinal
    /\ r.won <=> \A v \in Players : Score(pstate[v]) <= Score(pstate[r.user])

(***************************************************************************)
(* A crashed or failed call never blocks the match for good: the lock is   *)
(* free again and again, because the key expires.                          *)
(***************************************************************************)
LockAlwaysFreed == []<>(lock = NoCall)

(***************************************************************************)
(* What the comment on FinalizeMatch promises of the payload it returns:   *)
(* the results it broadcasts carry the final scores it computed.           *)
(***************************************************************************)
PayloadHasFinalScores ==
  \A c \in Calls : pc[c] = "unlock" /\ req[c] = NoReq /\ outcome[c] = "ok" =>
    \A u \in DOMAIN PayloadScores(c) : PayloadScores(c)[u] = Score(final[c][u])
=============================================================================
