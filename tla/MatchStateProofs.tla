-------------------------- MODULE MatchStateProofs --------------------------
(***************************************************************************)
(* Proofs about module MatchState, for any number of players, questions,   *)
(* calls and ticks and for every combination of the faults.  First the     *)
(* types, the safety of the match lock, and that no question is answered   *)
(* twice.  Then what becomes of answers once they are stored: a final      *)
(* state is complete; as long as no call outlives its lock, acknowledged   *)
(* answers stay and final answers freeze; and when no command fails, a     *)
(* completed match is final for everybody and its winners are the players  *)
(* nobody beats.                                                           *)
(***************************************************************************)
EXTENDS MatchState, FiniteSetTheorems, TLAPS

-----------------------------------------------------------------------------
(* Lemmas about the operators of the model *)

\* A token has at most one first question.
LEMMA QuestionForUnique ==
  ASSUME NEW token, NEW o \in QuestionFor(token), NEW p \in QuestionFor(token)
  PROVE  o = p
  BY MatchAssumption DEF QuestionFor, Orders

\* QuestionFor yields orders of the pack.
LEMMA QuestionForType == \A token : QuestionFor(token) \subseteq Orders
  BY DEF QuestionFor

\* The unanswered orders are orders of the pack without an answer.
LEMMA UnansweredType ==
  \A answers : Unanswered(answers) \subseteq Orders /\ Unanswered(answers) \cap OrdersIn(answers) = {}
  BY DEF Unanswered

\* A set of orders is finite, so its ascending sequence has a length.
LEMMA AscendingIsSeq ==
  ASSUME NEW S \in SUBSET Orders, NEW s \in Ascending(S)
  PROVE  /\ Cardinality(S) \in Nat
         /\ s \in [1..Cardinality(S) -> S]
         /\ \A i, j \in 1..Cardinality(S) : i < j => s[i] < s[j]
<1>1. IsFiniteSet(Orders)
  BY FS_Interval, MatchAssumption DEF Orders
<1>2. IsFiniteSet(S)
  BY <1>1, FS_Subset
<1>3. Cardinality(S) \in Nat
  BY <1>2, FS_CardinalityType
<1>4. s \in [1..Cardinality(S) -> S] /\ \A i, j \in DOMAIN s : i < j => s[i] < s[j]
  BY DEF Ascending
<1> QED
  BY <1>3, <1>4

\* A function on an initial segment of the naturals is a sequence.
LEMMA SegmentIsSeq ==
  ASSUME NEW S, NEW k \in Nat, NEW f \in [1..k -> S]
  PROVE  f \in Seq(S)
  OBVIOUS

\* Completing a player's answers keeps them a sequence of answers.
LEMMA WithMissingType ==
  ASSUME now \in 0..MaxTime, NEW answers \in Seq(Answer),
         NEW missing \in Ascending(Unanswered(answers))
  PROVE  WithMissing(answers, missing) \in Seq(Answer)
<1> DEFINE n == Cardinality(Unanswered(answers))
           added == [i \in DOMAIN missing |->
                       [QuestionOrder |-> missing[i], IsCorrect |-> FALSE, SubmittedAt |-> now]]
<1>1. n \in Nat /\ missing \in [1..n -> Unanswered(answers)]
  BY AscendingIsSeq, UnansweredType
<1>2. \A i \in 1..n : missing[i] \in Orders
  BY <1>1, UnansweredType
<1>3. added \in [1..n -> Answer]
  BY <1>1, <1>2 DEF Answer
<1>4. added \in Seq(Answer)
  BY <1>1, <1>3
<1> QED
  BY <1>4 DEF WithMissing

\* Completing answers without duplicates creates none.
LEMMA WithMissingDupFree ==
  ASSUME NEW answers \in Seq(Answer), DupFree(answers),
         NEW missing \in Ascending(Unanswered(answers))
  PROVE  DupFree(WithMissing(answers, missing))
<1> DEFINE n == Cardinality(Unanswered(answers))
           added == [i \in DOMAIN missing |->
                       [QuestionOrder |-> missing[i], IsCorrect |-> FALSE, SubmittedAt |-> now]]
           all == answers \o added
<1>1. /\ n \in Nat
      /\ missing \in [1..n -> Unanswered(answers)]
      /\ \A i, j \in 1..n : i < j => missing[i] < missing[j]
  BY AscendingIsSeq, UnansweredType
<1>2. /\ added = [i \in 1..n |-> [QuestionOrder |-> missing[i], IsCorrect |-> FALSE,
                                  SubmittedAt |-> now]]
      /\ DOMAIN added = 1..n
      /\ \A i \in 1..n : added[i].QuestionOrder = missing[i]
  BY <1>1
<1>3. \A i \in 1..n : missing[i] \in Int /\ missing[i] \notin OrdersIn(answers)
  BY <1>1, UnansweredType DEF Orders
<1>4. \A i \in 1..Len(answers) : answers[i].QuestionOrder \in OrdersIn(answers)
  BY DEF OrdersIn
<1>5. added \in Seq([QuestionOrder : Orders, IsCorrect : BOOLEAN, SubmittedAt : {now}])
  <2>1. \A i \in 1..n : missing[i] \in Orders
    BY <1>1, UnansweredType
  <2>2. added \in [1..n -> [QuestionOrder : Orders, IsCorrect : BOOLEAN, SubmittedAt : {now}]]
    BY <1>1, <2>1
  <2> QED
    BY <1>1, <2>2, SegmentIsSeq
<1>6. /\ Len(added) = n
      /\ DOMAIN all = 1..(Len(answers) + n)
      /\ \A i \in 1..Len(answers) : all[i] = answers[i]
      /\ \A i \in (Len(answers) + 1)..(Len(answers) + n) : all[i] = added[i - Len(answers)]
  BY <1>1, <1>2, <1>5
<1>7. ASSUME NEW i \in DOMAIN all, NEW j \in DOMAIN all, i < j
      PROVE  all[i].QuestionOrder # all[j].QuestionOrder
  <2>1. CASE j \in 1..Len(answers)
    BY <2>1, <1>6, <1>7 DEF DupFree
  <2>2. CASE i \in 1..Len(answers) /\ j \notin 1..Len(answers)
    <3>1. j - Len(answers) \in 1..n
      BY <2>2, <1>6, <1>1
    <3> QED
      BY <2>2, <3>1, <1>2, <1>3, <1>4, <1>6
  <2>3. CASE i \notin 1..Len(answers)
    <3>1. i - Len(answers) \in 1..n /\ j - Len(answers) \in 1..n
      BY <2>3, <1>6, <1>7, <1>1
    <3>2. missing[i - Len(answers)] < missing[j - Len(answers)]
      BY <3>1, <1>1, <1>7, <1>6
    <3>3. all[i].QuestionOrder = missing[i - Len(answers)]
          /\ all[j].QuestionOrder = missing[j - Len(answers)]
      BY <3>1, <1>2, <1>6, <1>1
    <3> QED
      BY <3>1, <3>2, <3>3, <1>3
  <2> QED
    BY <2>1, <2>2, <2>3
<1>8. DupFree(all)
  <2>1. SUFFICES ASSUME NEW i \in DOMAIN all, NEW j \in DOMAIN all,
                        all[i].QuestionOrder = all[j].QuestionOrder
                 PROVE  i = j
    BY DEF DupFree
  <2>2. i \in Int /\ j \in Int
    BY <1>6
  <2>3. ~(i < j) /\ ~(j < i)
    BY <2>1, <1>7
  <2> QED
    BY <2>2, <2>3
<1> QED
  BY <1>8 DEF WithMissing

\* Appending an answer to a question that has none creates no duplicate.
LEMMA AppendDupFree ==
  ASSUME NEW answers \in Seq(Answer), DupFree(answers),
         NEW a \in Answer, a.QuestionOrder \notin OrdersIn(answers)
  PROVE  DupFree(Append(answers, a))
  BY DEF DupFree, OrdersIn

-----------------------------------------------------------------------------
(* Types *)

\* What each step relies on of the call it belongs to: a submission has its
\* request, and a finalisation writes only states it has read.
Located ==
  /\ \A c \in Calls : pc[c] \in SubmitSteps => req[c] \in Request
  /\ \A c \in Calls : pc[c] = "store" => copy[c][req[c].user] \in PlayerState \ {NoState}
  /\ \A c \in Calls : pc[c] = "write" => \A u \in todo[c] : copy[c][u] \in PlayerState \ {NoState}

TypeInv == TypeOK /\ Located

\* Every initial state has the types.
LEMMA InitTypes == Init => TypeInv
<1> SUFFICES ASSUME Init PROVE TypeInv
  OBVIOUS
<1>1. [Answers |-> <<>>, FinalAt |-> NotFinal] \in PlayerState
  BY DEF PlayerState
<1>2. pstate \in [Players -> MaybeState]
  BY <1>1 DEF Init, MaybeState
<1>3. NoStates \in [Players -> MaybeState]
  BY DEF NoStates, MaybeState
<1>4. cached \in BOOLEAN
  BY DEF Init
<1>5. TypeOK
  BY <1>2, <1>3, <1>4, MatchAssumption DEF Init, TypeOK
<1>6. Located
  BY DEF Init, Located, SubmitSteps
<1> QED
  BY <1>5, <1>6 DEF TypeInv

\* The local variables of a call that ends go back to their initial values.
LEMMA FinishTypes ==
  ASSUME TypeInv, NEW c \in Calls, Finish(c)
  PROVE  /\ pc' \in [Calls -> Critical \cup {"idle", "done"}]
         /\ req' \in [Calls -> Request \cup {NoReq}]
         /\ copy' \in [Calls -> [Players -> MaybeState]]
         /\ final' \in [Calls -> [Players -> MaybeState]]
         /\ todo' \in [Calls -> SUBSET Players]
         /\ eligible' \in [Calls -> BOOLEAN]
         /\ outcome' \in [Calls -> {"none", "ok", "error"}]
         /\ Located'
<1>1. NoStates \in [Players -> MaybeState]
  BY DEF NoStates, MaybeState
<1>2. Located'
  BY DEF TypeInv, TypeOK, Located, Finish, SubmitSteps
<1> QED
  BY <1>1, <1>2 DEF TypeInv, TypeOK, Finish

\* SubmitAnswer, accepted or refused by the lock, keeps the types.
LEMMA SubmitAnswerTypes ==
  ASSUME TypeInv, NEW c \in Calls, NEW u \in Players, NEW token \in Tokens,
         NEW isCorrect \in Verdicts, SubmitAnswer(c, u, token, isCorrect)
  PROVE  TypeInv'
<1> DEFINE r == [user |-> u, token |-> token, correct |-> isCorrect, at |-> now]
<1>1. r \in Request
  BY MatchAssumption DEF Request, TypeInv, TypeOK
<1>2. CASE Acquire(c, "read") /\ req' = [req EXCEPT ![c] = r]
  <2>1. TypeOK'
    BY <1>1, <1>2 DEF SubmitAnswer, TypeInv, TypeOK, Acquire, storeVars, Critical, SubmitSteps
  <2>2. Located'
    BY <1>1, <1>2 DEF SubmitAnswer, TypeInv, TypeOK, Located, Acquire, storeVars, SubmitSteps
  <2> QED
    BY <2>1, <2>2 DEF TypeInv
<1>3. CASE Refused(c) /\ UNCHANGED req
  <2>1. TypeOK'
    BY <1>3 DEF SubmitAnswer, TypeInv, TypeOK, Refused, storeVars
  <2>2. Located'
    BY <1>3 DEF SubmitAnswer, TypeInv, TypeOK, Located, Refused, storeVars, SubmitSteps
  <2> QED
    BY <2>1, <2>2 DEF TypeInv
<1> QED
  BY <1>2, <1>3 DEF SubmitAnswer

\* Reading the state and the pack keeps the types.
LEMMA ReadStateTypes ==
  ASSUME TypeInv, NEW c \in Calls, ReadState(c)
  PROVE  TypeInv'
<1>1. req[c] \in Request /\ req[c].user \in Players
  BY DEF ReadState, TypeInv, Located, SubmitSteps, Request
<1>2. MayAnswer(pstate[req[c].user], req[c].token) => pstate[req[c].user] \in PlayerState \ {NoState}
  BY <1>1 DEF MayAnswer, TypeInv, TypeOK, MaybeState
<1> DEFINE u == req[c].user
<1>3. CASE /\ MayAnswer(pstate[u], req[c].token)
           /\ copy' = [copy EXCEPT ![c][u] = pstate[u]]
           /\ pc' = [pc EXCEPT ![c] = "store"]
           /\ UNCHANGED outcome
  <2>1. copy' \in [Calls -> [Players -> MaybeState]] /\ copy'[c][u] = pstate[u]
        /\ \A d \in Calls \ {c} : copy'[d] = copy[d]
    BY <1>1, <1>3 DEF TypeInv, TypeOK
  <2>2. TypeOK'
    BY <1>3, <2>1 DEF ReadState, TypeInv, TypeOK, storeVars, Critical, SubmitSteps
  <2>3. Located'
    BY <1>1, <1>2, <1>3, <2>1 DEF ReadState, TypeInv, TypeOK, Located, storeVars, SubmitSteps
  <2> QED
    BY <2>2, <2>3 DEF TypeInv
<1>4. CASE /\ pc' = [pc EXCEPT ![c] = "unlock"]
           /\ outcome' = [outcome EXCEPT ![c] = "error"]
           /\ UNCHANGED copy
  <2>1. TypeOK'
    BY <1>4 DEF ReadState, TypeInv, TypeOK, storeVars, Critical
  <2>2. Located'
    BY <1>4 DEF ReadState, TypeInv, TypeOK, Located, storeVars, SubmitSteps
  <2> QED
    BY <2>1, <2>2 DEF TypeInv
<1> QED
  BY <1>3, <1>4 DEF ReadState

\* The state StoreAnswer writes: the copy with one more answer.
LEMMA StoredState ==
  ASSUME TypeInv, NEW c \in Calls, pc[c] = "store", NEW o \in QuestionFor(req[c].token)
  PROVE  LET r == req[c]
             ans == [QuestionOrder |-> o, IsCorrect |-> r.correct, SubmittedAt |-> r.at]
             new == [copy[c][r.user] EXCEPT !.Answers = Append(@, ans)]
         IN  /\ r \in Request
             /\ ans \in Answer
             /\ copy[c][r.user] \in PlayerState
             /\ new \in PlayerState
             /\ new.Answers = Append(copy[c][r.user].Answers, ans)
<1>1. req[c] \in Request /\ copy[c][req[c].user] \in PlayerState
  BY DEF TypeInv, Located, SubmitSteps
<1>2. o \in Orders
  BY QuestionForType
<1> DEFINE ans == [QuestionOrder |-> o, IsCorrect |-> req[c].correct, SubmittedAt |-> req[c].at]
<1>3. ans \in Answer
  BY <1>1, <1>2 DEF Request, Answer
<1>4. Append(copy[c][req[c].user].Answers, ans) \in Seq(Answer)
  BY <1>1, <1>3 DEF PlayerState
<1> QED
  BY <1>1, <1>3, <1>4 DEF PlayerState

\* Storing the extended copy keeps the types.
LEMMA StoreAnswerTypes ==
  ASSUME TypeInv, NEW c \in Calls, StoreAnswer(c)
  PROVE  TypeInv'
<1>1. pc[c] = "store"
  BY DEF StoreAnswer
<1>2. req[c].user \in Players
  BY <1>1 DEF TypeInv, Located, SubmitSteps, Request
<1>3. pstate' \in [Players -> MaybeState] /\ outcome' \in [Calls -> {"none", "ok", "error"}]
  <2>1. PICK o \in QuestionFor(req[c].token) :
          LET r == req[c]
              ans == [QuestionOrder |-> o, IsCorrect |-> r.correct, SubmittedAt |-> r.at]
              new == [copy[c][r.user] EXCEPT !.Answers = Append(@, ans)]
          IN  /\ pstate' = pstate \/ pstate' = [pstate EXCEPT ![r.user] = new]
              /\ \E out \in {"ok", "error"} : outcome' = [outcome EXCEPT ![c] = out]
    BY DEF StoreAnswer
  <2> DEFINE ans == [QuestionOrder |-> o, IsCorrect |-> req[c].correct, SubmittedAt |-> req[c].at]
             new == [copy[c][req[c].user] EXCEPT !.Answers = Append(@, ans)]
  <2>2. new \in MaybeState
    BY <1>1, StoredState DEF MaybeState
  <2>3. /\ pstate' = pstate \/ pstate' = [pstate EXCEPT ![req[c].user] = new]
        /\ \E out \in {"ok", "error"} : outcome' = [outcome EXCEPT ![c] = out]
    BY <2>1
  <2> HIDE DEF new
  <2>4. pstate' \in [Players -> MaybeState]
    BY <2>2, <2>3, <1>2 DEF TypeInv, TypeOK
  <2>5. outcome' \in [Calls -> {"none", "ok", "error"}]
    BY <2>3 DEF TypeInv, TypeOK
  <2> QED
    BY <2>4, <2>5
<1>4. TypeOK'
  BY <1>3 DEF StoreAnswer, TypeInv, TypeOK, Critical
<1>5. Located'
  BY DEF StoreAnswer, TypeInv, TypeOK, Located, SubmitSteps
<1> QED
  BY <1>4, <1>5 DEF TypeInv

\* The deferred unlock keeps the types.
LEMMA UnlockTypes ==
  ASSUME TypeInv, NEW c \in Calls, Unlock(c)
  PROVE  TypeInv'
<1>1. lock' \in Calls \cup {NoCall}
  BY DEF Unlock, UnlockScript, TypeInv, TypeOK
<1>2. Ack(c) \subseteq Players \X Orders
  <2>1. CASE req[c] # NoReq
    <3>1. req[c].user \in Players
      BY <2>1 DEF TypeInv, TypeOK, Request
    <3> QED
      BY <3>1, QuestionForType DEF Ack
  <2>2. CASE req[c] = NoReq
    BY <2>2 DEF Ack
  <2> QED
    BY <2>1, <2>2
<1>3. acked' \subseteq Players \X Orders
  BY <1>2 DEF Unlock, TypeInv, TypeOK
<1>4. Finish(c)
  BY DEF Unlock
<1> QED
  BY <1>1, <1>3, <1>4, FinishTypes DEF Unlock, TypeInv, TypeOK, storeVars

\* The start of FinalizeMatch keeps the types.
LEMMA FinalizeMatchTypes ==
  ASSUME TypeInv, NEW c \in Calls, FinalizeMatch(c)
  PROVE  TypeInv'
<1>1. CASE /\ Acquire(c, "load")
           /\ todo' = [todo EXCEPT ![c] = Players]
           /\ \E e \in BOOLEAN : eligible' = [eligible EXCEPT ![c] = e]
  <2>1. TypeOK'
    BY <1>1 DEF FinalizeMatch, TypeInv, TypeOK, Acquire, storeVars, Critical, FinalizeSteps
  <2>2. Located'
    BY <1>1 DEF FinalizeMatch, TypeInv, TypeOK, Located, Acquire, storeVars, SubmitSteps
  <2> QED
    BY <2>1, <2>2 DEF TypeInv
<1>2. CASE Refused(c) /\ UNCHANGED <<todo, eligible>>
  <2>1. TypeOK'
    BY <1>2 DEF FinalizeMatch, TypeInv, TypeOK, Refused, storeVars
  <2>2. Located'
    BY <1>2 DEF FinalizeMatch, TypeInv, TypeOK, Located, Refused, storeVars, SubmitSteps
  <2> QED
    BY <2>1, <2>2 DEF TypeInv
<1>3. \A e \in {RowFound /\ LeaderboardEligible} \cup (IF MayErr THEN {FALSE} ELSE {}) : e \in BOOLEAN
  BY MatchAssumption DEF LeaderboardEligible
<1> QED
  BY <1>1, <1>2, <1>3 DEF FinalizeMatch

\* Loading one player state keeps the types.
LEMMA LoadStateTypes ==
  ASSUME TypeInv, NEW c \in Calls, NEW u \in Players, LoadState(c, u)
  PROVE  TypeInv'
<1>1. copy' \in [Calls -> [Players -> MaybeState]] /\ \A d \in Calls \ {c} : copy'[d] = copy[d]
  <2>1. CASE copy' = [copy EXCEPT ![c][u] = pstate[u]]
    BY <2>1 DEF TypeInv, TypeOK
  <2>2. CASE UNCHANGED copy
    BY <2>2 DEF TypeInv, TypeOK
  <2> QED
    BY <2>1, <2>2 DEF LoadState
<1>2. TypeOK'
  BY <1>1 DEF LoadState, TypeInv, TypeOK, storeVars, Critical, FinalizeSteps
<1>3. Located'
  BY <1>1 DEF LoadState, TypeInv, TypeOK, Located, storeVars, SubmitSteps
<1> QED
  BY <1>2, <1>3 DEF TypeInv

\* Loading the pack keeps the types: the states to finish were read.
LEMMA LoadPackTypes ==
  ASSUME TypeInv, NEW c \in Calls, LoadPack(c)
  PROVE  TypeInv'
<1> DEFINE found == {u \in Players : copy[c][u] # NoState}
<1>1. \A u \in found : copy[c][u] \in PlayerState \ {NoState}
  BY DEF TypeInv, TypeOK, MaybeState
<1>2. CASE /\ todo' = [todo EXCEPT ![c] = found]
           /\ pc' = [pc EXCEPT ![c] = IF found = {} THEN "status" ELSE "write"]
           /\ UNCHANGED outcome
  <2>1. TypeOK'
    BY <1>2 DEF LoadPack, TypeInv, TypeOK, storeVars, Critical, FinalizeSteps
  <2>2. Located'
    BY <1>1, <1>2 DEF LoadPack, TypeInv, TypeOK, Located, storeVars, SubmitSteps
  <2> QED
    BY <2>1, <2>2 DEF TypeInv
<1>3. CASE /\ pc' = [pc EXCEPT ![c] = "unlock"]
           /\ outcome' = [outcome EXCEPT ![c] = "error"]
           /\ UNCHANGED todo
  <2>1. TypeOK'
    BY <1>3 DEF LoadPack, TypeInv, TypeOK, storeVars, Critical
  <2>2. Located'
    BY <1>3 DEF LoadPack, TypeInv, TypeOK, Located, storeVars, SubmitSteps
  <2> QED
    BY <2>1, <2>2 DEF TypeInv
<1> QED
  BY <1>2, <1>3 DEF LoadPack

\* The state WriteFinal computes and (unless the command fails) stores.
LEMMA FinalState ==
  ASSUME TypeInv, NEW c \in Calls, NEW u \in Players, WriteFinal(c, u)
  PROVE  \E missing \in Ascending(Unanswered(copy[c][u].Answers)) :
           LET s == [Answers |-> WithMissing(copy[c][u].Answers, missing), FinalAt |-> now]
           IN  /\ copy[c][u] \in PlayerState
               /\ s \in PlayerState
               /\ final' = [final EXCEPT ![c][u] = s]
               /\ pstate' = [pstate EXCEPT ![u] = s] \/ (MayErr /\ pstate' = pstate)
<1>1. copy[c][u] \in PlayerState
  BY DEF WriteFinal, TypeInv, Located
<1>2. PICK missing \in Ascending(Unanswered(copy[c][u].Answers)) :
        LET s == [Answers |-> WithMissing(copy[c][u].Answers, missing), FinalAt |-> now]
        IN  /\ final' = [final EXCEPT ![c][u] = s]
            /\ pstate' = [pstate EXCEPT ![u] = s] \/ (MayErr /\ pstate' = pstate)
  BY DEF WriteFinal
<1>3. copy[c][u].Answers \in Seq(Answer) /\ now \in 0..MaxTime
  BY <1>1 DEF PlayerState, TypeInv, TypeOK
<1>4. WithMissing(copy[c][u].Answers, missing) \in Seq(Answer)
  BY <1>3, WithMissingType
<1>5. [Answers |-> WithMissing(copy[c][u].Answers, missing), FinalAt |-> now] \in PlayerState
  BY <1>3, <1>4 DEF PlayerState
<1> QED
  BY <1>1, <1>2, <1>5

\* Writing a final state keeps the types.
LEMMA WriteFinalTypes ==
  ASSUME TypeInv, NEW c \in Calls, NEW u \in Players, WriteFinal(c, u)
  PROVE  TypeInv'
<1>0. PICK missing \in Ascending(Unanswered(copy[c][u].Answers)) :
        LET s == [Answers |-> WithMissing(copy[c][u].Answers, missing), FinalAt |-> now]
        IN  /\ copy[c][u] \in PlayerState
            /\ s \in PlayerState
            /\ final' = [final EXCEPT ![c][u] = s]
            /\ pstate' = [pstate EXCEPT ![u] = s] \/ (MayErr /\ pstate' = pstate)
  BY FinalState
<1> DEFINE s == [Answers |-> WithMissing(copy[c][u].Answers, missing), FinalAt |-> now]
<1>1. /\ s \in PlayerState
      /\ final' = [final EXCEPT ![c][u] = s]
      /\ pstate' = [pstate EXCEPT ![u] = s] \/ pstate' = pstate
  BY <1>0
<1> HIDE DEF s
<1>2. s \in MaybeState
  BY <1>1 DEF MaybeState
<1>3. final' \in [Calls -> [Players -> MaybeState]]
  BY <1>1, <1>2 DEF TypeInv, TypeOK
<1>4. pstate' \in [Players -> MaybeState]
  BY <1>1, <1>2 DEF TypeInv, TypeOK
<1>5. TypeOK'
  BY <1>3, <1>4 DEF WriteFinal, AfterWrite, TypeInv, TypeOK, Critical, FinalizeSteps
<1>6. Located'
  BY DEF WriteFinal, AfterWrite, TypeInv, TypeOK, Located, SubmitSteps
<1> QED
  BY <1>5, <1>6 DEF TypeInv

\* Updating the match row keeps the types.
LEMMA SetStatusTypes ==
  ASSUME TypeInv, NEW c \in Calls, SetStatus(c)
  PROVE  TypeInv'
<1>1. Reqs(c) \subseteq Players
  BY DEF Reqs
<1>2. TypeOK'
  <2>1. CASE /\ rowStatus' = IF RowFound THEN "completed" ELSE rowStatus
             /\ todo' = [todo EXCEPT ![c] = Reqs(c)]
             /\ pc' = [pc EXCEPT ![c] = IF Reqs(c) = {} THEN "unlock" ELSE "record"]
             /\ outcome' = [outcome EXCEPT ![c] = "ok"]
    BY <1>1, <2>1 DEF SetStatus, TypeInv, TypeOK, Critical, FinalizeSteps
  <2>2. CASE /\ pc' = [pc EXCEPT ![c] = "unlock"]
             /\ outcome' = [outcome EXCEPT ![c] = "error"]
             /\ UNCHANGED <<rowStatus, todo>>
    BY <2>2 DEF SetStatus, TypeInv, TypeOK, Critical
  <2> QED
    BY <2>1, <2>2 DEF SetStatus
<1>3. Located'
  BY DEF SetStatus, TypeInv, TypeOK, Located, SubmitSteps
<1> QED
  BY <1>2, <1>3 DEF TypeInv

\* Recording a result keeps the types.
LEMMA RecordResultTypes ==
  ASSUME TypeInv, NEW c \in Calls, NEW u \in Players, RecordResult(c, u)
  PROVE  TypeInv'
<1>1. [call |-> c, user |-> u, won |-> Won(c, u)] \in Result
  BY DEF Result, Won
<1>2. TypeOK'
  BY <1>1 DEF RecordResult, TypeInv, TypeOK, Critical, FinalizeSteps
<1>3. Located'
  BY DEF RecordResult, TypeInv, TypeOK, Located, SubmitSteps
<1> QED
  BY <1>2, <1>3 DEF TypeInv

\* The expiry of the lock keeps the types.
LEMMA LockExpireTypes == TypeInv /\ LockExpire => TypeInv'
<1> SUFFICES ASSUME TypeInv, LockExpire PROVE TypeInv'
  OBVIOUS
<1>1. TypeOK'
  BY DEF LockExpire, TypeInv, TypeOK, storeVars, localVars
<1>2. Located'
  BY DEF LockExpire, TypeInv, Located, storeVars, localVars
<1> QED
  BY <1>1, <1>2 DEF TypeInv

\* A crash keeps the types.
LEMMA CrashTypes ==
  ASSUME TypeInv, NEW c \in Calls, Crash(c)
  PROVE  TypeInv'
  BY FinishTypes DEF Crash, TypeInv, TypeOK, storeVars

\* The clock keeps the types.
LEMMA TickTypes == TypeInv /\ Tick => TypeInv'
<1> SUFFICES ASSUME TypeInv, Tick PROVE TypeInv'
  OBVIOUS
<1>1. TypeOK'
  BY MatchAssumption DEF Tick, TypeInv, TypeOK, storeVars, localVars
<1>2. Located'
  BY DEF Tick, TypeInv, Located, storeVars, localVars
<1> QED
  BY <1>1, <1>2 DEF TypeInv

\* Every step keeps the types.
LEMMA StepTypes == TypeInv /\ [Next]_vars => TypeInv'
<1> SUFFICES ASSUME TypeInv, [Next]_vars PROVE TypeInv'
  OBVIOUS
<1>1. CASE UNCHANGED vars
  BY <1>1 DEF vars, storeVars, localVars, TypeInv, TypeOK, Located
<1>2. CASE LockExpire
  BY <1>2, LockExpireTypes
<1>3. CASE Tick
  BY <1>3, TickTypes
<1>4. CASE \E c \in Calls : Submit(c)
  BY <1>4, SubmitAnswerTypes DEF Submit
<1>5. CASE \E c \in Calls : FinalizeMatch(c)
  BY <1>5, FinalizeMatchTypes
<1>6. CASE \E c \in Calls : Crash(c)
  BY <1>6, CrashTypes
<1>7. CASE \E c \in Calls : CallStep(c)
  BY <1>7, ReadStateTypes, StoreAnswerTypes, UnlockTypes, LoadPackTypes, SetStatusTypes,
     LoadStateTypes, WriteFinalTypes, RecordResultTypes DEF CallStep
<1> QED
  BY <1>1, <1>2, <1>3, <1>4, <1>5, <1>6, <1>7 DEF Next

\* The program variables keep their types, and every step of a call finds the
\* request and the copies it works on.
THEOREM TypeCorrect == Spec => []TypeOK
<1>1. TypeInv => TypeOK
  BY DEF TypeInv
<1> QED
  BY <1>1, InitTypes, StepTypes, PTL DEF Spec

-----------------------------------------------------------------------------
(* The lock *)

\* Steps of a call inside its critical section leave the lock and the other
\* calls alone.
LEMMA InnerStepKeepsLock ==
  ASSUME TypeInv, LockNotStolen, NEW c \in Calls, pc[c] \in Critical, UNCHANGED <<lock, expired>>,
         \E step \in Critical \cup {"idle", "done"} : pc' = [pc EXCEPT ![c] = step]
  PROVE  LockNotStolen'
  BY DEF LockNotStolen, TypeInv, TypeOK

\* Every step keeps the lock with its holder.
LEMMA StepKeepsLock == TypeInv /\ LockNotStolen /\ [Next]_vars => LockNotStolen'
<1> SUFFICES ASSUME TypeInv, LockNotStolen, [Next]_vars PROVE LockNotStolen'
  OBVIOUS
<1>1. CASE UNCHANGED vars
  BY <1>1 DEF vars, LockNotStolen
<1>2. CASE LockExpire
  BY <1>2 DEF LockExpire, LockNotStolen, TypeInv, TypeOK
<1>3. CASE Tick
  BY <1>3 DEF Tick, LockNotStolen
<1>4. ASSUME NEW c \in Calls, Submit(c) \/ FinalizeMatch(c) PROVE LockNotStolen'
  <2>1. /\ \/ \E step \in {"read", "load"} : Acquire(c, step)
           \/ Refused(c)
        /\ UNCHANGED expired
    BY <1>4 DEF Submit, SubmitAnswer, FinalizeMatch
  <2>2. CASE \E step \in {"read", "load"} : Acquire(c, step)
    BY <2>1, <2>2, MatchAssumption DEF Acquire, LockNotStolen, TypeInv, TypeOK
  <2>3. CASE Refused(c)
    BY <2>1, <2>3, MatchAssumption DEF Refused, LockNotStolen, TypeInv, TypeOK,
       Critical, SubmitSteps, FinalizeSteps
  <2> QED
    BY <2>1, <2>2, <2>3
<1>5. ASSUME NEW c \in Calls, Crash(c) PROVE LockNotStolen'
  <2>1. pc[c] \in Critical /\ pc' = [pc EXCEPT ![c] = "done"] /\ UNCHANGED <<lock, expired>>
    BY <1>5 DEF Crash, Finish
  <2> QED
    BY <2>1, InnerStepKeepsLock
<1>6. ASSUME NEW c \in Calls, Unlock(c) PROVE LockNotStolen'
  <2>1. pc[c] = "unlock" /\ pc' = [pc EXCEPT ![c] = "done"] /\ UNCHANGED expired
    BY <1>6 DEF Unlock, Finish
  <2>2. lock' = UnlockScript(c) \/ lock' = lock
    BY <1>6 DEF Unlock
  <2> QED
    BY <2>1, <2>2 DEF UnlockScript, LockNotStolen, TypeInv, TypeOK, Critical, SubmitSteps,
       FinalizeSteps
<1>7. ASSUME NEW c \in Calls, CallStep(c), ~Unlock(c) PROVE LockNotStolen'
  <2>1. /\ pc[c] \in Critical
        /\ UNCHANGED <<lock, expired>>
        /\ \E step \in Critical : pc' = [pc EXCEPT ![c] = step]
    BY <1>7 DEF CallStep, ReadState, StoreAnswer, LoadPack, SetStatus, LoadState, WriteFinal,
       AfterWrite, RecordResult, Critical, SubmitSteps, FinalizeSteps
  <2> QED
    BY <2>1, InnerStepKeepsLock
<1> QED
  BY <1>1, <1>2, <1>3, <1>4, <1>5, <1>6, <1>7 DEF Next

\* A call in its critical section holds the match lock unless its own lock ran
\* out: the compare-and-delete of the unlock script never frees the lock of
\* another call, for any number of calls, crashes and lost replies.
THEOREM LockSafe == Spec => []LockNotStolen
<1>1. Init => LockNotStolen
  BY DEF Init, LockNotStolen, Critical, SubmitSteps, FinalizeSteps
<1> QED
  BY <1>1, InitTypes, StepTypes, StepKeepsLock, PTL DEF Spec

-----------------------------------------------------------------------------
(* One answer per question *)

\* AnsweredOnce is not inductive: what is stored next is the copy of a call.
\* So the copies are free of duplicates too, and the question a submission is
\* about to add is not in the copy it will add it to.
CopiesDupFree == \A c \in Calls, u \in Players : copy[c][u] # NoState => DupFree(copy[c][u].Answers)
TargetIsOpen ==
  \A c \in Calls : pc[c] = "store" =>
    \A o \in QuestionFor(req[c].token) : o \notin OrdersIn(copy[c][req[c].user].Answers)

AnswerInv == AnsweredOnce /\ CopiesDupFree /\ TargetIsOpen

\* No answers, no duplicates.
LEMMA InitAnswers == Init => AnswerInv
<1> SUFFICES ASSUME Init PROVE AnswerInv
  OBVIOUS
<1>1. AnsweredOnce
  BY DEF Init, AnsweredOnce, DupFree
<1>2. CopiesDupFree /\ TargetIsOpen
  BY DEF Init, CopiesDupFree, TargetIsOpen, NoStates
<1> QED
  BY <1>1, <1>2 DEF AnswerInv

\* A step that writes no player state and reads none keeps AnswerInv when it
\* does not take a call to "store".
LEMMA QuietStep ==
  ASSUME TypeInv, AnswerInv, NEW c \in Calls, NEW step, step # "store", UNCHANGED pstate,
         pc' = [pc EXCEPT ![c] = step],
         \/ UNCHANGED copy
         \/ copy' = [copy EXCEPT ![c] = NoStates],
         \A d \in Calls \ {c} : req'[d] = req[d]
  PROVE  AnswerInv'
<1>1. AnsweredOnce'
  BY DEF AnswerInv, AnsweredOnce
<1>2. CopiesDupFree'
  <2>1. CASE UNCHANGED copy
    BY <2>1 DEF AnswerInv, CopiesDupFree
  <2>2. CASE copy' = [copy EXCEPT ![c] = NoStates]
    <3>1. \A d \in Calls : copy'[d] = IF d = c THEN NoStates ELSE copy[d]
      BY <2>2 DEF TypeInv, TypeOK
    <3>2. \A u \in Players : NoStates[u] = NoState
      BY DEF NoStates
    <3> QED
      BY <3>1, <3>2 DEF AnswerInv, CopiesDupFree
  <2> QED
    BY <2>1, <2>2
<1>3. TargetIsOpen'
  <2> SUFFICES ASSUME NEW d \in Calls, pc'[d] = "store", NEW o \in QuestionFor(req'[d].token)
               PROVE  o \notin OrdersIn(copy'[d][req'[d].user].Answers)
    BY DEF TargetIsOpen, QuestionFor
  <2>1. d # c /\ pc[d] = "store" /\ req'[d] = req[d] /\ copy'[d] = copy[d]
    BY DEF TypeInv, TypeOK
  <2> QED
    BY <2>1 DEF AnswerInv, TargetIsOpen
<1> QED
  BY <1>1, <1>2, <1>3 DEF AnswerInv

\* After the checks of SubmitAnswer the target is open in the copy.
LEMMA ReadStateAnswers ==
  ASSUME TypeInv, AnswerInv, NEW c \in Calls, ReadState(c)
  PROVE  AnswerInv'
<1> DEFINE u == req[c].user
<1>1. u \in Players
  BY DEF ReadState, TypeInv, Located, SubmitSteps, Request
<1>2. CASE /\ MayAnswer(pstate[u], req[c].token)
           /\ copy' = [copy EXCEPT ![c][u] = pstate[u]]
           /\ pc' = [pc EXCEPT ![c] = "store"]
  <2>1. PICK o \in QuestionFor(req[c].token) : o \notin OrdersIn(pstate[u].Answers)
    BY <1>2 DEF MayAnswer
  <2>2. /\ copy'[c][u] = pstate[u]
        /\ \A v \in Players \ {u} : copy'[c][v] = copy[c][v]
        /\ \A d \in Calls \ {c} : copy'[d] = copy[d] /\ pc'[d] = pc[d]
    BY <1>1, <1>2 DEF TypeInv, TypeOK
  <2>3. UNCHANGED <<pstate, req>>
    BY DEF ReadState, storeVars
  <2>4. AnsweredOnce'
    BY <2>3 DEF AnswerInv, AnsweredOnce
  <2>5. CopiesDupFree'
    BY <1>1, <2>2 DEF AnswerInv, CopiesDupFree, AnsweredOnce
  <2>6. TargetIsOpen'
    <3> SUFFICES ASSUME NEW d \in Calls, pc'[d] = "store", NEW p \in QuestionFor(req[d].token)
                 PROVE  p \notin OrdersIn(copy'[d][req[d].user].Answers)
      BY <2>3 DEF TargetIsOpen, QuestionFor
    <3>1. CASE d = c
      BY <3>1, <2>1, <2>2, QuestionForUnique
    <3>2. CASE d # c
      BY <3>2, <2>2 DEF AnswerInv, TargetIsOpen
    <3> QED
      BY <3>1, <3>2
  <2> QED
    BY <2>4, <2>5, <2>6 DEF AnswerInv
<1>3. CASE pc' = [pc EXCEPT ![c] = "unlock"] /\ UNCHANGED copy
  BY <1>3, QuietStep DEF ReadState, storeVars
<1> QED
  BY <1>2, <1>3 DEF ReadState

\* StoreAnswer appends an answer to a question the copy has none for.
LEMMA StoreAnswerAnswers ==
  ASSUME TypeInv, AnswerInv, NEW c \in Calls, StoreAnswer(c)
  PROVE  AnswerInv'
<1> DEFINE u == req[c].user
           ans(o) == [QuestionOrder |-> o, IsCorrect |-> req[c].correct, SubmittedAt |-> req[c].at]
           new(o) == [copy[c][u] EXCEPT !.Answers = Append(@, ans(o))]
<1>1. pc[c] = "store" /\ pc' = [pc EXCEPT ![c] = "unlock"] /\ UNCHANGED <<req, copy>>
  BY DEF StoreAnswer
<1>2. PICK o \in QuestionFor(req[c].token) : pstate' = pstate \/ pstate' = [pstate EXCEPT ![u] = new(o)]
  BY DEF StoreAnswer
<1>3. /\ u \in Players
      /\ copy[c][u] \in PlayerState
      /\ ans(o) \in Answer
      /\ new(o).Answers = Append(copy[c][u].Answers, ans(o))
  BY <1>1, StoredState DEF Request
<1>4. DupFree(new(o).Answers)
  <2>1. copy[c][u] # NoState => DupFree(copy[c][u].Answers)
    BY <1>3 DEF AnswerInv, CopiesDupFree
  <2>2. o \notin OrdersIn(copy[c][u].Answers)
    BY <1>1 DEF AnswerInv, TargetIsOpen
  <2>3. copy[c][u].Answers \in Seq(Answer)
    BY <1>3 DEF PlayerState
  <2>4. copy[c][u] # NoState
    BY <1>1 DEF TypeInv, Located
  <2> QED
    BY <1>3, <2>1, <2>2, <2>3, <2>4, AppendDupFree
<1>5. AnsweredOnce'
  <2> HIDE DEF new
  <2> QED
    BY <1>2, <1>3, <1>4 DEF AnswerInv, AnsweredOnce, TypeInv, TypeOK
<1>6. CopiesDupFree'
  BY <1>1 DEF AnswerInv, CopiesDupFree
<1>7. TargetIsOpen'
  BY <1>1 DEF AnswerInv, TargetIsOpen, QuestionFor, TypeInv, TypeOK
<1> QED
  BY <1>5, <1>6, <1>7 DEF AnswerInv

\* A loaded copy is as free of duplicates as what is stored.
LEMMA LoadStateAnswers ==
  ASSUME TypeInv, AnswerInv, NEW c \in Calls, NEW u \in Players, LoadState(c, u)
  PROVE  AnswerInv'
<1>1. /\ pc[c] = "load"
      /\ pc' = [pc EXCEPT ![c] = IF todo[c] = {u} THEN "pack" ELSE "load"]
      /\ UNCHANGED <<pstate, req>>
  BY DEF LoadState, storeVars
<1>2. CASE UNCHANGED copy
  BY <1>1, <1>2, QuietStep
<1>3. CASE copy' = [copy EXCEPT ![c][u] = pstate[u]]
  <2>1. /\ copy'[c][u] = pstate[u]
        /\ \A v \in Players \ {u} : copy'[c][v] = copy[c][v]
        /\ \A d \in Calls \ {c} : copy'[d] = copy[d] /\ pc'[d] = pc[d]
        /\ pc'[c] # "store"
    BY <1>1, <1>3 DEF TypeInv, TypeOK
  <2>2. AnsweredOnce'
    BY <1>1 DEF AnswerInv, AnsweredOnce
  <2>3. CopiesDupFree'
    BY <2>1 DEF AnswerInv, CopiesDupFree, AnsweredOnce
  <2>4. TargetIsOpen'
    BY <1>1, <2>1 DEF AnswerInv, TargetIsOpen, QuestionFor
  <2> QED
    BY <2>2, <2>3, <2>4 DEF AnswerInv
<1> QED
  BY <1>2, <1>3 DEF LoadState

\* A final state adds only answers that were missing.
LEMMA WriteFinalAnswers ==
  ASSUME TypeInv, AnswerInv, NEW c \in Calls, NEW u \in Players, WriteFinal(c, u)
  PROVE  AnswerInv'
<1>1. /\ pc[c] = "write"
      /\ pc' = [pc EXCEPT ![c] = AfterWrite(c, u)]
      /\ UNCHANGED <<copy, req>>
  BY DEF WriteFinal
<1>2. PICK missing \in Ascending(Unanswered(copy[c][u].Answers)) :
        LET s == [Answers |-> WithMissing(copy[c][u].Answers, missing), FinalAt |-> now]
        IN  /\ copy[c][u] \in PlayerState
            /\ s \in PlayerState
            /\ final' = [final EXCEPT ![c][u] = s]
            /\ pstate' = [pstate EXCEPT ![u] = s] \/ (MayErr /\ pstate' = pstate)
  BY FinalState
<1> DEFINE s == [Answers |-> WithMissing(copy[c][u].Answers, missing), FinalAt |-> now]
<1>3. copy[c][u].Answers \in Seq(Answer) /\ DupFree(copy[c][u].Answers)
  <2>1. u \in todo[c]
    BY DEF WriteFinal
  <2>2. copy[c][u] # NoState
    BY <1>1, <2>1 DEF TypeInv, Located
  <2> QED
    BY <1>2, <2>2 DEF PlayerState, AnswerInv, CopiesDupFree
<1>4. DupFree(s.Answers)
  BY <1>3, WithMissingDupFree
<1>5. pstate' = [pstate EXCEPT ![u] = s] \/ pstate' = pstate
  BY <1>2
<1>6. AnsweredOnce'
  <2> HIDE DEF s
  <2> QED
    BY <1>4, <1>5 DEF AnswerInv, AnsweredOnce, TypeInv, TypeOK
<1>7. CopiesDupFree'
  BY <1>1 DEF AnswerInv, CopiesDupFree
<1>8. TargetIsOpen'
  BY <1>1 DEF AfterWrite, AnswerInv, TargetIsOpen, QuestionFor, TypeInv, TypeOK
<1> QED
  BY <1>6, <1>7, <1>8 DEF AnswerInv

\* Every step keeps the answers free of duplicates.
LEMMA StepAnswers == TypeInv /\ AnswerInv /\ [Next]_vars => AnswerInv'
<1> SUFFICES ASSUME TypeInv, AnswerInv, [Next]_vars PROVE AnswerInv'
  OBVIOUS
<1>1. CASE UNCHANGED vars \/ LockExpire \/ Tick
  <2>1. UNCHANGED <<pstate, pc, req, copy>>
    BY <1>1 DEF vars, storeVars, localVars, LockExpire, Tick
  <2> QED
    BY <2>1 DEF AnswerInv, AnsweredOnce, CopiesDupFree, TargetIsOpen
<1>2. ASSUME NEW c \in Calls, Submit(c) \/ FinalizeMatch(c) PROVE AnswerInv'
  <2>1. /\ \E step \in {"read", "load", "done"} : pc' = [pc EXCEPT ![c] = step]
        /\ UNCHANGED <<pstate, copy>>
        /\ \A d \in Calls \ {c} : req'[d] = req[d]
    BY <1>2 DEF Submit, SubmitAnswer, FinalizeMatch, Acquire, Refused, storeVars, TypeInv, TypeOK
  <2> QED
    BY <2>1, QuietStep
<1>3. ASSUME NEW c \in Calls, Crash(c) \/ Unlock(c) PROVE AnswerInv'
  <2>1. /\ pc' = [pc EXCEPT ![c] = "done"]
        /\ copy' = [copy EXCEPT ![c] = NoStates]
        /\ UNCHANGED pstate
        /\ \A d \in Calls \ {c} : req'[d] = req[d]
    BY <1>3 DEF Crash, Unlock, Finish, storeVars, TypeInv, TypeOK
  <2> QED
    BY <2>1, QuietStep
<1>4. ASSUME NEW c \in Calls, NEW u \in Players, RecordResult(c, u) PROVE AnswerInv'
  <2>1. /\ \E step \in {"unlock", "record"} : pc' = [pc EXCEPT ![c] = step]
        /\ UNCHANGED <<pstate, copy, req>>
    BY <1>4 DEF RecordResult
  <2> QED
    BY <2>1, QuietStep
<1>5. ASSUME NEW c \in Calls, LoadPack(c) \/ SetStatus(c) PROVE AnswerInv'
  <2>1. /\ \E step \in {"write", "status", "unlock", "record"} : pc' = [pc EXCEPT ![c] = step]
        /\ UNCHANGED <<pstate, copy, req>>
    BY <1>5 DEF LoadPack, SetStatus, storeVars
  <2> QED
    BY <2>1, QuietStep
<1>6. ASSUME NEW c \in Calls, CallStep(c) PROVE AnswerInv'
  BY <1>3, <1>4, <1>5, <1>6, ReadStateAnswers, StoreAnswerAnswers, LoadStateAnswers,
     WriteFinalAnswers DEF CallStep
<1> QED
  BY <1>1, <1>2, <1>3, <1>6 DEF Next

\* No player ever has two answers to one question, for every size of the match
\* and every combination of expiring locks, crashes and failing commands: the
\* check against duplicates does not depend on the lock at all.
THEOREM NoDoubleAnswers == Spec => []AnsweredOnce
<1>1. AnswerInv => AnsweredOnce
  BY DEF AnswerInv
<1> QED
  BY <1>1, InitTypes, StepTypes, InitAnswers, StepAnswers, PTL DEF Spec

-----------------------------------------------------------------------------
(* The orders a stored sheet of answers holds *)

\* A sheet has answers to questions of the pack only.
LEMMA OrdersInType ==
  ASSUME NEW answers \in Seq(Answer)
  PROVE  OrdersIn(answers) \subseteq Orders
<1>1. \A i \in DOMAIN answers : answers[i] \in Answer
  OBVIOUS
<1> QED
  BY <1>1 DEF OrdersIn, Answer

\* Appending an answer adds its order.
LEMMA OrdersInAppend ==
  ASSUME NEW answers \in Seq(Answer), NEW a \in Answer
  PROVE  OrdersIn(Append(answers, a)) = OrdersIn(answers) \cup {a.QuestionOrder}
<1> DEFINE all == Append(answers, a)
<1>1. /\ DOMAIN answers = 1..Len(answers)
      /\ Len(answers) \in Nat
      /\ DOMAIN all = 1..(Len(answers) + 1)
      /\ all[Len(answers) + 1] = a
      /\ \A i \in 1..Len(answers) : all[i] = answers[i]
  OBVIOUS
<1> HIDE DEF all
<1>2. \A i \in 1..(Len(answers) + 1) : i \in 1..Len(answers) \/ i = Len(answers) + 1
  BY <1>1
<1>3. 1..Len(answers) \subseteq 1..(Len(answers) + 1) /\ Len(answers) + 1 \in 1..(Len(answers) + 1)
  BY <1>1
<1>4. OrdersIn(all) = OrdersIn(answers) \cup {a.QuestionOrder}
  BY <1>1, <1>2, <1>3 DEF OrdersIn
<1> QED
  BY <1>4 DEF all

\* Completing answers adds every order that was left open.
LEMMA OrdersInWithMissing ==
  ASSUME NEW answers \in Seq(Answer), NEW missing \in Ascending(Unanswered(answers))
  PROVE  OrdersIn(WithMissing(answers, missing)) = OrdersIn(answers) \cup Unanswered(answers)
<1> DEFINE n == Cardinality(Unanswered(answers))
           m == Len(answers)
           added == [i \in DOMAIN missing |->
                       [QuestionOrder |-> missing[i], IsCorrect |-> FALSE, SubmittedAt |-> now]]
           all == answers \o added
<1>1. n \in Nat /\ missing \in [1..n -> Unanswered(answers)]
  BY AscendingIsSeq, UnansweredType
<1>2. \A o \in Unanswered(answers) : \E i \in 1..n : missing[i] = o
  BY <1>1 DEF Ascending
<1>3. added \in [1..n -> [QuestionOrder : Unanswered(answers), IsCorrect : BOOLEAN, SubmittedAt : {now}]]
  BY <1>1
<1>4. added \in Seq([QuestionOrder : Unanswered(answers), IsCorrect : BOOLEAN, SubmittedAt : {now}])
  BY <1>1, <1>3, SegmentIsSeq
<1>5. /\ m \in Nat
      /\ DOMAIN answers = 1..m
      /\ Len(added) = n
      /\ \A i \in 1..n : added[i].QuestionOrder = missing[i]
  BY <1>1, <1>4
<1>6. /\ DOMAIN all = 1..(m + n)
      /\ \A i \in 1..m : all[i] = answers[i]
      /\ \A i \in (m + 1)..(m + n) : all[i] = added[i - m]
  BY <1>1, <1>4, <1>5
<1> HIDE DEF n, m, added, all
<1>7. ASSUME NEW i \in DOMAIN all
      PROVE  all[i].QuestionOrder \in OrdersIn(answers) \cup Unanswered(answers)
  <2>1. CASE i \in 1..m
    BY <2>1, <1>5, <1>6 DEF OrdersIn
  <2>2. CASE i \notin 1..m
    <3>1. i \in (m + 1)..(m + n) /\ i - m \in 1..n
      BY <2>2, <1>1, <1>5, <1>6
    <3> QED
      BY <3>1, <1>1, <1>5, <1>6
  <2> QED
    BY <2>1, <2>2
<1>8. ASSUME NEW o \in OrdersIn(answers) PROVE o \in OrdersIn(all)
  <2>1. PICK i \in 1..m : o = answers[i].QuestionOrder
    BY <1>5 DEF OrdersIn
  <2>2. i \in DOMAIN all
    BY <1>1, <1>5, <1>6
  <2> QED
    BY <2>1, <2>2, <1>6 DEF OrdersIn
<1>9. ASSUME NEW o \in Unanswered(answers) PROVE o \in OrdersIn(all)
  <2>1. PICK i \in 1..n : missing[i] = o
    BY <1>2
  <2>2. m + i \in (m + 1)..(m + n) /\ (m + i) - m = i
    BY <1>1, <1>5
  <2>3. m + i \in DOMAIN all /\ all[m + i] = added[i]
    BY <2>2, <1>1, <1>5, <1>6
  <2> QED
    BY <2>1, <2>3, <1>5 DEF OrdersIn
<1> QED
  BY <1>7, <1>8, <1>9 DEF OrdersIn, WithMissing, all, added

\* A complete sheet is left as it is.
LEMMA NothingMissing ==
  ASSUME NEW answers \in Seq(Answer), Unanswered(answers) = {},
         NEW missing \in Ascending(Unanswered(answers))
  PROVE  WithMissing(answers, missing) = answers
<1> DEFINE added == [i \in DOMAIN missing |->
                       [QuestionOrder |-> missing[i], IsCorrect |-> FALSE, SubmittedAt |-> now]]
<1>1. Cardinality(Unanswered(answers)) = 0
  BY FS_EmptySet
<1>2. missing \in [1..0 -> {}]
  BY <1>1, AscendingIsSeq
<1>3. added \in [1..0 -> Answer]
  BY <1>2
<1>4. added \in Seq(Answer) /\ Len(added) = 0
  BY <1>3, SegmentIsSeq
<1>5. answers \o added = answers
  BY <1>4
<1> QED
  BY <1>5 DEF WithMissing

-----------------------------------------------------------------------------
(* What the two writing steps write *)

\* StoreAnswer writes the copy it checked and one order the copy did not have.
LEMMA StoredSheet ==
  ASSUME TypeInv, AnswerInv, NEW c \in Calls, StoreAnswer(c)
  PROVE  \E o \in QuestionFor(req[c].token), new \in PlayerState :
           /\ o \in Orders
           /\ req[c].user \in Players
           /\ copy[c][req[c].user] \in PlayerState \ {NoState}
           /\ o \notin OrdersIn(copy[c][req[c].user].Answers)
           /\ OrdersIn(new.Answers) = OrdersIn(copy[c][req[c].user].Answers) \cup {o}
           /\ new.FinalAt = copy[c][req[c].user].FinalAt
           /\ \/ pstate' = [pstate EXCEPT ![req[c].user] = new]
              \/ pstate' = pstate /\ outcome' = [outcome EXCEPT ![c] = "error"]
<1> DEFINE u == req[c].user
           ans(o) == [QuestionOrder |-> o, IsCorrect |-> req[c].correct, SubmittedAt |-> req[c].at]
           new(o) == [copy[c][u] EXCEPT !.Answers = Append(@, ans(o))]
<1>1. pc[c] = "store"
  BY DEF StoreAnswer
<1>2. PICK o \in QuestionFor(req[c].token) :
        \/ pstate' = [pstate EXCEPT ![u] = new(o)]
        \/ pstate' = pstate /\ outcome' = [outcome EXCEPT ![c] = "error"]
  BY DEF StoreAnswer
<1>3. /\ u \in Players
      /\ copy[c][u] \in PlayerState \ {NoState}
      /\ ans(o) \in Answer
      /\ new(o) \in PlayerState
      /\ new(o).Answers = Append(copy[c][u].Answers, ans(o))
  BY <1>1, StoredState DEF Request, TypeInv, Located
<1>4. o \in Orders
  BY QuestionForType
<1>5. o \notin OrdersIn(copy[c][u].Answers)
  BY <1>1 DEF AnswerInv, TargetIsOpen
<1>6. copy[c][u].Answers \in Seq(Answer)
  BY <1>3 DEF PlayerState
<1>7. OrdersIn(new(o).Answers) = OrdersIn(copy[c][u].Answers) \cup {o}
  BY <1>3, <1>6, OrdersInAppend
<1>8. new(o).FinalAt = copy[c][u].FinalAt
  BY <1>3 DEF PlayerState
<1> HIDE DEF new
<1> QED
  BY <1>2, <1>3, <1>4, <1>5, <1>7, <1>8

\* WriteFinal writes the copy it read with every open order added, and nothing
\* else if none is open.
LEMMA FinalSheet ==
  ASSUME TypeInv, NEW c \in Calls, NEW u \in Players, WriteFinal(c, u)
  PROVE  \E new \in PlayerState :
           /\ copy[c][u] \in PlayerState \ {NoState}
           /\ OrdersIn(new.Answers) = OrdersIn(copy[c][u].Answers) \cup Unanswered(copy[c][u].Answers)
           /\ Unanswered(copy[c][u].Answers) = {} => new.Answers = copy[c][u].Answers
           /\ pstate' = [pstate EXCEPT ![u] = new] \/ pstate' = pstate
<1>1. PICK missing \in Ascending(Unanswered(copy[c][u].Answers)) :
        LET s == [Answers |-> WithMissing(copy[c][u].Answers, missing), FinalAt |-> now]
        IN  /\ copy[c][u] \in PlayerState
            /\ s \in PlayerState
            /\ pstate' = [pstate EXCEPT ![u] = s] \/ pstate' = pstate
  BY FinalState
<1> DEFINE s == [Answers |-> WithMissing(copy[c][u].Answers, missing), FinalAt |-> now]
<1>2. copy[c][u] # NoState
  BY DEF WriteFinal, TypeInv, Located
<1>3. copy[c][u].Answers \in Seq(Answer)
  BY <1>1 DEF PlayerState
<1>4. s.Answers = WithMissing(copy[c][u].Answers, missing)
  OBVIOUS
<1>5. OrdersIn(s.Answers) = OrdersIn(copy[c][u].Answers) \cup Unanswered(copy[c][u].Answers)
  BY <1>3, <1>4, OrdersInWithMissing
<1>6. Unanswered(copy[c][u].Answers) = {} => s.Answers = copy[c][u].Answers
  BY <1>3, <1>4, NothingMissing
<1>7. s \in PlayerState /\ (pstate' = [pstate EXCEPT ![u] = s] \/ pstate' = pstate)
  BY <1>1
<1> HIDE DEF s
<1> QED
  BY <1>1, <1>2, <1>5, <1>6, <1>7

\* No other step writes a player's state, and none stores or loses the pack.
LEMMA WritingSteps ==
  ASSUME [Next]_vars
  PROVE  /\ UNCHANGED cached
         /\ \/ UNCHANGED pstate
            \/ \E c \in Calls : StoreAnswer(c)
            \/ \E c \in Calls, u \in Players : WriteFinal(c, u)
<1>1. CASE UNCHANGED vars \/ LockExpire \/ Tick
  BY <1>1 DEF vars, storeVars, LockExpire, Tick
<1>2. ASSUME NEW c \in Calls, Submit(c) \/ FinalizeMatch(c) \/ Crash(c)
      PROVE  UNCHANGED <<cached, pstate>>
  BY <1>2 DEF Submit, SubmitAnswer, FinalizeMatch, Crash, storeVars
<1>3. ASSUME NEW c \in Calls, CallStep(c)
      PROVE  /\ UNCHANGED cached
             /\ \/ UNCHANGED pstate
                \/ StoreAnswer(c)
                \/ \E u \in Players : WriteFinal(c, u)
  <2>1. ASSUME ReadState(c) \/ Unlock(c) \/ LoadPack(c) \/ SetStatus(c)
        PROVE  UNCHANGED <<cached, pstate>>
    BY <2>1 DEF ReadState, Unlock, LoadPack, SetStatus, storeVars
  <2>2. ASSUME StoreAnswer(c) PROVE UNCHANGED cached
    BY <2>2 DEF StoreAnswer
  <2>3. ASSUME NEW u \in Players, LoadState(c, u) \/ RecordResult(c, u)
        PROVE  UNCHANGED <<cached, pstate>>
    BY <2>3 DEF LoadState, RecordResult, storeVars
  <2>4. ASSUME NEW u \in Players, WriteFinal(c, u) PROVE UNCHANGED cached
    BY <2>4 DEF WriteFinal
  <2> QED
    BY <1>3, <2>1, <2>2, <2>3, <2>4 DEF CallStep
<1> QED
  BY <1>1, <1>2, <1>3 DEF Next

\* How a step may change the copies: a call that ends drops its own, and a call
\* may copy a stored state.
LEMMA CopyingSteps ==
  ASSUME TypeInv, [Next]_vars, NEW c \in Calls, NEW u \in Players
  PROVE  copy'[c][u] \in {copy[c][u], pstate[u], NoState}
<1>1. CASE UNCHANGED copy
  BY <1>1
<1>2. ASSUME NEW d \in Calls, copy' = [copy EXCEPT ![d] = NoStates]
      PROVE  copy'[c][u] \in {copy[c][u], NoState}
  BY <1>2 DEF TypeInv, TypeOK, NoStates
<1>3. ASSUME NEW d \in Calls, NEW v \in Players, copy' = [copy EXCEPT ![d][v] = pstate[v]]
      PROVE  copy'[c][u] \in {copy[c][u], pstate[u]}
  BY <1>3 DEF TypeInv, TypeOK
<1>4. \/ UNCHANGED copy
      \/ \E d \in Calls : copy' = [copy EXCEPT ![d] = NoStates]
      \/ \E d \in Calls, v \in Players : copy' = [copy EXCEPT ![d][v] = pstate[v]]
  <2>1. CASE UNCHANGED vars \/ LockExpire \/ Tick
    BY <2>1 DEF vars, localVars, LockExpire, Tick
  <2>2. ASSUME NEW d \in Calls, Submit(d) \/ FinalizeMatch(d) PROVE UNCHANGED copy
    BY <2>2 DEF Submit, SubmitAnswer, FinalizeMatch
  <2>3. ASSUME NEW d \in Calls, Crash(d) \/ Unlock(d)
        PROVE  copy' = [copy EXCEPT ![d] = NoStates]
    BY <2>3 DEF Crash, Unlock, Finish
  <2>4. ASSUME NEW d \in Calls, StoreAnswer(d) \/ LoadPack(d) \/ SetStatus(d) PROVE UNCHANGED copy
    BY <2>4 DEF StoreAnswer, LoadPack, SetStatus
  <2>5. ASSUME NEW d \in Calls, NEW v \in Players, WriteFinal(d, v) \/ RecordResult(d, v)
        PROVE  UNCHANGED copy
    BY <2>5 DEF WriteFinal, RecordResult
  <2>6. ASSUME NEW d \in Calls, ReadState(d)
        PROVE  UNCHANGED copy \/ \E v \in Players : copy' = [copy EXCEPT ![d][v] = pstate[v]]
    <3>1. req[d].user \in Players
      BY <2>6 DEF ReadState, TypeInv, Located, SubmitSteps, Request
    <3> QED
      BY <2>6, <3>1 DEF ReadState
  <2>7. ASSUME NEW d \in Calls, NEW v \in Players, LoadState(d, v)
        PROVE  UNCHANGED copy \/ copy' = [copy EXCEPT ![d][v] = pstate[v]]
    BY <2>7 DEF LoadState
  <2> QED
    BY <2>1, <2>2, <2>3, <2>4, <2>5, <2>6, <2>7 DEF Next, CallStep
<1> QED
  BY <1>1, <1>2, <1>3, <1>4

-----------------------------------------------------------------------------
(* Final states are complete *)

Complete(s) == s # NoState /\ s.FinalAt # NotFinal => OrdersIn(s.Answers) = Orders

\* A call may store its copy long after it read it, so copies are complete too.
CompleteInv ==
  cached => \A u \in Players : Complete(pstate[u]) /\ \A c \in Calls : Complete(copy[c][u])

\* Nothing is final yet.
LEMMA InitComplete == Init => CompleteInv
  BY DEF Init, CompleteInv, Complete, NoStates

\* What is written is complete if it is final.
LEMMA StepComplete ==
  ASSUME TypeInv, AnswerInv, CompleteInv, [Next]_vars
  PROVE  CompleteInv'
<1>1. SUFFICES ASSUME cached
               PROVE  \A u \in Players : Complete(pstate'[u]) /\ \A c \in Calls : Complete(copy'[c][u])
  BY WritingSteps DEF CompleteInv, Complete, OrdersIn
<1>2. ASSUME NEW c \in Calls, NEW u \in Players PROVE Complete(copy'[c][u])
  BY <1>1, CopyingSteps DEF CompleteInv, Complete
<1>3. ASSUME NEW c \in Calls, StoreAnswer(c), NEW u \in Players PROVE Complete(pstate'[u])
  <2> DEFINE v == req[c].user
  <2>1. PICK o \in Orders, new \in PlayerState :
          /\ v \in Players
          /\ copy[c][v] \in PlayerState \ {NoState}
          /\ o \notin OrdersIn(copy[c][v].Answers)
          /\ new.FinalAt = copy[c][v].FinalAt
          /\ pstate' = [pstate EXCEPT ![v] = new] \/ pstate' = pstate
    BY <1>3, StoredSheet
  <2>2. Complete(copy[c][v])
    BY <1>1, <2>1 DEF CompleteInv
  <2>3. new.FinalAt = NotFinal
    BY <2>1, <2>2 DEF Complete
  <2> QED
    BY <1>1, <2>1, <2>3 DEF CompleteInv, Complete, TypeInv, TypeOK
<1>4. ASSUME NEW c \in Calls, NEW v \in Players, WriteFinal(c, v), NEW u \in Players
      PROVE  Complete(pstate'[u])
  <2>1. PICK new \in PlayerState :
          /\ copy[c][v] \in PlayerState
          /\ OrdersIn(new.Answers) = OrdersIn(copy[c][v].Answers) \cup Unanswered(copy[c][v].Answers)
          /\ pstate' = [pstate EXCEPT ![v] = new] \/ pstate' = pstate
    BY <1>4, FinalSheet
  <2>2. OrdersIn(copy[c][v].Answers) \subseteq Orders
    BY <2>1, OrdersInType DEF PlayerState
  <2>3. OrdersIn(new.Answers) = Orders
    BY <1>1, <2>1, <2>2 DEF Unanswered
  <2> QED
    BY <1>1, <2>1, <2>3 DEF CompleteInv, Complete, TypeInv, TypeOK
<1>5. ASSUME UNCHANGED pstate, NEW u \in Players PROVE Complete(pstate'[u])
  BY <1>1, <1>5 DEF CompleteInv
<1> QED
  BY <1>2, <1>3, <1>4, <1>5, WritingSteps

\* A finalised player has an answer to every question of the pack, for any number
\* of players, questions and calls and under every combination of the faults, the
\* overrun of a lock included.
THEOREM FinalStatesComplete == Spec => []FinalIsComplete
<1>1. CompleteInv => FinalIsComplete
  BY DEF CompleteInv, Complete, FinalIsComplete
<1> QED
  BY <1>1, InitTypes, StepTypes, InitAnswers, StepAnswers, InitComplete, StepComplete, PTL DEF Spec

-----------------------------------------------------------------------------
(* Copies are fresh as long as no lock runs out *)

\* A call that has not begun has read nothing, and only a submission has a request.
Blank ==
  /\ \A c \in Calls : pc[c] = "idle" => copy[c] = NoStates
  /\ \A c \in Calls : pc[c] \in FinalizeSteps \cup {"idle"} => req[c] = NoReq
  /\ \A c \in Calls : pc[c] = "store" => cached

\* What a call is about to write is what is stored: the other calls are kept out
\* by the lock, until the call has done its own writing.
Fresh(c) ==
  /\ pc[c] = "store" => copy[c][req[c].user] = pstate[req[c].user]
  /\ pc[c] \in {"load", "pack"} =>
       \A u \in Players : copy[c][u] # NoState => copy[c][u] = pstate[u]
  /\ pc[c] = "write" => \A u \in todo[c] : copy[c][u] = pstate[u]

FreshInv == Blank /\ (expired = {} => \A c \in Calls : Fresh(c))

\* No call has begun.
LEMMA InitFresh == Init => FreshInv
  BY DEF Init, FreshInv, Blank, Fresh, FinalizeSteps

\* Calls read after they begin, and submissions alone carry a request.
LEMMA StepBlank ==
  ASSUME TypeInv, Blank, [Next]_vars
  PROVE  Blank'
<1> USE DEF Blank, FinalizeSteps
<1>1. CASE UNCHANGED vars \/ LockExpire \/ Tick
  BY <1>1 DEF vars, storeVars, localVars, LockExpire, Tick
<1>2. ASSUME NEW c \in Calls, Submit(c) PROVE Blank'
  BY <1>2 DEF Submit, SubmitAnswer, Acquire, Refused, storeVars, TypeInv, TypeOK
<1>3. ASSUME NEW c \in Calls, FinalizeMatch(c) PROVE Blank'
  BY <1>3 DEF FinalizeMatch, Acquire, Refused, storeVars, TypeInv, TypeOK
<1>4. ASSUME NEW c \in Calls, Crash(c) \/ Unlock(c) PROVE Blank'
  <2>1. UNCHANGED cached /\ pc'[c] = "done"
    BY <1>4 DEF Crash, Unlock, Finish, storeVars, TypeInv, TypeOK
  <2>2. \A d \in Calls \ {c} : pc'[d] = pc[d] /\ req'[d] = req[d] /\ copy'[d] = copy[d]
    BY <1>4 DEF Crash, Unlock, Finish, TypeInv, TypeOK
  <2> QED
    BY <2>1, <2>2 DEF NoStates
<1>5. ASSUME NEW c \in Calls, ReadState(c) PROVE Blank'
  <2>1. /\ pc[c] = "read"
        /\ \/ pc' = [pc EXCEPT ![c] = "store"] /\ cached
           \/ pc' = [pc EXCEPT ![c] = "unlock"]
        /\ UNCHANGED <<req, cached>>
    BY <1>5 DEF ReadState, MayAnswer, storeVars
  <2>2. \A d \in Calls \ {c} : copy'[d] = copy[d]
    BY <1>5 DEF ReadState, TypeInv, TypeOK
  <2> QED
    BY <2>1, <2>2 DEF TypeInv, TypeOK
<1>6. ASSUME NEW c \in Calls, StoreAnswer(c) PROVE Blank'
  BY <1>6 DEF StoreAnswer, TypeInv, TypeOK
<1>7. ASSUME NEW c \in Calls, LoadPack(c) \/ SetStatus(c) PROVE Blank'
  BY <1>7 DEF LoadPack, SetStatus, storeVars, TypeInv, TypeOK
<1>8. ASSUME NEW c \in Calls, NEW u \in Players, LoadState(c, u) PROVE Blank'
  <2>1. /\ pc[c] = "load"
        /\ pc' = [pc EXCEPT ![c] = IF todo[c] = {u} THEN "pack" ELSE "load"]
        /\ UNCHANGED <<req, cached>>
    BY <1>8 DEF LoadState, storeVars
  <2>2. \A d \in Calls \ {c} : copy'[d] = copy[d]
    BY <1>8 DEF LoadState, TypeInv, TypeOK
  <2> QED
    BY <2>1, <2>2 DEF TypeInv, TypeOK
<1>9. ASSUME NEW c \in Calls, NEW u \in Players, WriteFinal(c, u) \/ RecordResult(c, u)
      PROVE  Blank'
  BY <1>9 DEF WriteFinal, AfterWrite, RecordResult, TypeInv, TypeOK
<1> QED
  BY <1>1, <1>2, <1>3, <1>4, <1>5, <1>6, <1>7, <1>8, <1>9 DEF Next, CallStep

\* A call whose lock has run out stays on record.
LEMMA ExpiredGrows ==
  ASSUME [Next]_vars
  PROVE  expired \subseteq expired'
<1>1. CASE UNCHANGED vars \/ LockExpire \/ Tick
  BY <1>1 DEF vars, LockExpire, Tick
<1>2. ASSUME NEW c \in Calls, Submit(c) \/ FinalizeMatch(c) \/ Crash(c) PROVE UNCHANGED expired
  BY <1>2 DEF Submit, SubmitAnswer, FinalizeMatch, Crash
<1>3. ASSUME NEW c \in Calls, ReadState(c) \/ StoreAnswer(c) \/ Unlock(c) PROVE UNCHANGED expired
  BY <1>3 DEF ReadState, StoreAnswer, Unlock
<1>4. ASSUME NEW c \in Calls, LoadPack(c) \/ SetStatus(c) PROVE UNCHANGED expired
  BY <1>4 DEF LoadPack, SetStatus
<1>5. ASSUME NEW c \in Calls, NEW u \in Players, LoadState(c, u) \/ WriteFinal(c, u) \/ RecordResult(c, u)
      PROVE  UNCHANGED expired
  BY <1>5 DEF LoadState, WriteFinal, RecordResult
<1> QED
  BY <1>1, <1>2, <1>3, <1>4, <1>5 DEF Next, CallStep

\* While no lock has run out, one call at a time is in its critical section.
LEMMA Alone ==
  ASSUME LockNotStolen, expired = {}, NEW c \in Calls, pc[c] \in Critical,
         NEW d \in Calls, pc[d] \in Critical
  PROVE  c = d
  BY DEF LockNotStolen

\* A step of one call that writes no player state keeps the other calls fresh.
LEMMA OthersFresh ==
  ASSUME NEW d \in Calls, Fresh(d), UNCHANGED pstate,
         pc'[d] = pc[d], req'[d] = req[d], copy'[d] = copy[d], todo'[d] = todo[d]
  PROVE  Fresh(d)'
  BY DEF Fresh

\* Every step of a call leaves the call with fresh copies, and the others too.
LEMMA StepFresh ==
  ASSUME TypeInv, AnswerInv, LockNotStolen, FreshInv, [Next]_vars
  PROVE  FreshInv'
<1>1. Blank'
  BY StepBlank DEF FreshInv
<1> SUFFICES ASSUME expired' = {} PROVE \A c \in Calls : Fresh(c)'
  BY <1>1 DEF FreshInv, Blank, Fresh
<1>2. expired = {} /\ Blank /\ \A c \in Calls : Fresh(c)
  BY ExpiredGrows DEF FreshInv
<1>3. CASE UNCHANGED vars \/ LockExpire \/ Tick
  BY <1>2, <1>3, OthersFresh DEF vars, storeVars, localVars, LockExpire, Tick
<1>4. ASSUME NEW c \in Calls, Submit(c) \/ FinalizeMatch(c), NEW d \in Calls PROVE Fresh(d)'
  <2>1. /\ pc[c] = "idle"
        /\ UNCHANGED <<pstate, copy>>
        /\ \A e \in Calls \ {c} : pc'[e] = pc[e] /\ req'[e] = req[e] /\ todo'[e] = todo[e]
        /\ pc'[c] \in {"read", "load", "done"}
    BY <1>4 DEF Submit, SubmitAnswer, FinalizeMatch, Acquire, Refused, storeVars, TypeInv, TypeOK
  <2>2. CASE d = c
    <3>1. copy'[c] = NoStates
      BY <1>2, <2>1 DEF Blank
    <3> QED
      BY <2>1, <2>2, <3>1 DEF Fresh, NoStates
  <2>3. CASE d # c
    BY <1>2, <2>1, <2>3, OthersFresh
  <2> QED
    BY <2>2, <2>3
<1>5. ASSUME NEW c \in Calls, Crash(c) \/ Unlock(c), NEW d \in Calls PROVE Fresh(d)'
  <2>1. /\ UNCHANGED pstate
        /\ pc'[c] = "done"
        /\ \A e \in Calls \ {c} : /\ pc'[e] = pc[e] /\ req'[e] = req[e]
                                  /\ copy'[e] = copy[e] /\ todo'[e] = todo[e]
    BY <1>5 DEF Crash, Unlock, Finish, storeVars, TypeInv, TypeOK
  <2>2. CASE d = c
    BY <2>1, <2>2 DEF Fresh
  <2> QED
    BY <1>2, <2>1, <2>2, OthersFresh
<1>6. ASSUME NEW c \in Calls, ReadState(c), NEW d \in Calls PROVE Fresh(d)'
  <2> DEFINE u == req[c].user
  <2>1. u \in Players
    BY <1>6 DEF ReadState, TypeInv, Located, SubmitSteps, Request
  <2>2. /\ UNCHANGED <<pstate, req, todo>>
        /\ \A e \in Calls \ {c} : pc'[e] = pc[e] /\ copy'[e] = copy[e]
        /\ pc'[c] = "unlock" \/ (pc'[c] = "store" /\ copy'[c][u] = pstate[u])
    BY <1>6, <2>1 DEF ReadState, storeVars, TypeInv, TypeOK
  <2>3. CASE d = c
    BY <2>2, <2>3 DEF Fresh
  <2> QED
    BY <1>2, <2>2, <2>3, OthersFresh
<1>7. ASSUME NEW c \in Calls, NEW u \in Players, LoadState(c, u), NEW d \in Calls PROVE Fresh(d)'
  <2>1. /\ UNCHANGED <<pstate, req>>
        /\ \A e \in Calls \ {c} : pc'[e] = pc[e] /\ copy'[e] = copy[e] /\ todo'[e] = todo[e]
        /\ pc[c] = "load" /\ pc'[c] \in {"load", "pack"}
        /\ \A v \in Players : copy'[c][v] \in {copy[c][v], pstate[v]}
    BY <1>7 DEF LoadState, storeVars, TypeInv, TypeOK
  <2>2. CASE d = c
    BY <1>2, <2>1, <2>2 DEF Fresh
  <2> QED
    BY <1>2, <2>1, <2>2, OthersFresh
<1>8. ASSUME NEW c \in Calls, LoadPack(c), NEW d \in Calls PROVE Fresh(d)'
  <2>1. /\ UNCHANGED <<pstate, req, copy>>
        /\ \A e \in Calls \ {c} : pc'[e] = pc[e] /\ todo'[e] = todo[e]
        /\ pc[c] = "pack"
        /\ \/ pc'[c] \in {"write", "status"} /\ todo'[c] = {u \in Players : copy[c][u] # NoState}
           \/ pc'[c] = "unlock"
    BY <1>8 DEF LoadPack, storeVars, TypeInv, TypeOK
  <2>2. CASE d = c
    BY <1>2, <2>1, <2>2 DEF Fresh
  <2> QED
    BY <1>2, <2>1, <2>2, OthersFresh
<1>9. ASSUME NEW c \in Calls, SetStatus(c) \/ \E u \in Players : RecordResult(c, u), NEW d \in Calls
      PROVE  Fresh(d)'
  <2>1. /\ UNCHANGED <<pstate, req, copy>>
        /\ \A e \in Calls \ {c} : pc'[e] = pc[e] /\ todo'[e] = todo[e]
        /\ pc'[c] \in {"unlock", "record"}
    BY <1>9 DEF SetStatus, RecordResult, TypeInv, TypeOK
  <2>2. CASE d = c
    BY <2>1, <2>2 DEF Fresh
  <2> QED
    BY <1>2, <2>1, <2>2, OthersFresh
<1>10. ASSUME NEW c \in Calls, StoreAnswer(c), NEW d \in Calls PROVE Fresh(d)'
  <2>1. pc[c] = "store" /\ pc' = [pc EXCEPT ![c] = "unlock"]
    BY <1>10 DEF StoreAnswer
  <2>2. d # c => pc[d] \notin Critical
    BY <1>2, <2>1, Alone DEF Critical, SubmitSteps
  <2> QED
    BY <2>1, <2>2 DEF Fresh, TypeInv, TypeOK, Critical, SubmitSteps, FinalizeSteps
<1>11. ASSUME NEW c \in Calls, NEW u \in Players, WriteFinal(c, u), NEW d \in Calls PROVE Fresh(d)'
  <2>1. /\ pc[c] = "write" /\ pc' = [pc EXCEPT ![c] = AfterWrite(c, u)]
        /\ pc'[c] \in {"write", "status"}
        /\ todo' = [todo EXCEPT ![c] = @ \ {u}]
        /\ UNCHANGED <<req, copy>>
    BY <1>11 DEF WriteFinal, AfterWrite, TypeInv, TypeOK
  <2>2. CASE d = c
    <3>1. \A v \in todo'[c] : v \in todo[c] /\ v # u /\ v \in Players
      BY <2>1 DEF TypeInv, TypeOK
    <3>2. \A v \in Players \ {u} : pstate'[v] = pstate[v]
      <4>1. \E new \in PlayerState : pstate' = [pstate EXCEPT ![u] = new] \/ pstate' = pstate
        BY <1>11, FinalSheet
      <4> QED
        BY <4>1 DEF TypeInv, TypeOK
    <3> QED
      BY <1>2, <2>1, <2>2, <3>1, <3>2 DEF Fresh
  <2>3. CASE d # c
    <3>1. pc[d] \notin Critical
      BY <1>2, <2>1, <2>3, Alone DEF Critical, FinalizeSteps
    <3> QED
      BY <2>1, <2>3, <3>1 DEF Fresh, TypeInv, TypeOK, Critical, SubmitSteps, FinalizeSteps
  <2> QED
    BY <2>2, <2>3
<1> QED
  BY <1>3, <1>4, <1>5, <1>6, <1>7, <1>8, <1>9, <1>10, <1>11 DEF Next, CallStep

-----------------------------------------------------------------------------
(* Acknowledged answers stay *)

Holds(s, o) == s # NoState /\ o \in OrdersIn(s.Answers)

\* An answer that will be acknowledged when its call unlocks is stored.
AckIsDue ==
  \A c \in Calls : pc[c] = "unlock" /\ req[c] # NoReq /\ outcome[c] = "ok" =>
    \A o \in QuestionFor(req[c].token) : Holds(pstate[req[c].user], o)

AckInv == expired = {} => AckIsDue /\ \A a \in acked : Holds(pstate[a[1]], a[2])

\* No stored answer is lost while no lock has run out: a fresh copy has it.
LEMMA StoredStays ==
  ASSUME TypeInv, AnswerInv, FreshInv, [Next]_vars, expired' = {},
         NEW u \in Players, NEW o, Holds(pstate[u], o)
  PROVE  Holds(pstate'[u], o)
<1>1. \A c \in Calls : Fresh(c)
  BY ExpiredGrows DEF FreshInv
<1>2. CASE UNCHANGED pstate
  BY <1>2
<1>3. ASSUME NEW c \in Calls, StoreAnswer(c) PROVE Holds(pstate'[u], o)
  <2> DEFINE v == req[c].user
  <2>1. PICK p \in Orders, new \in PlayerState :
          /\ v \in Players
          /\ OrdersIn(new.Answers) = OrdersIn(copy[c][v].Answers) \cup {p}
          /\ pstate' = [pstate EXCEPT ![v] = new] \/ pstate' = pstate
    BY <1>3, StoredSheet
  <2>2. copy[c][v] = pstate[v]
    BY <1>1, <1>3 DEF StoreAnswer, Fresh
  <2> QED
    BY <2>1, <2>2, StateAssumption DEF Holds, TypeInv, TypeOK
<1>4. ASSUME NEW c \in Calls, NEW v \in Players, WriteFinal(c, v) PROVE Holds(pstate'[u], o)
  <2>1. PICK new \in PlayerState :
          /\ OrdersIn(new.Answers) = OrdersIn(copy[c][v].Answers) \cup Unanswered(copy[c][v].Answers)
          /\ pstate' = [pstate EXCEPT ![v] = new] \/ pstate' = pstate
    BY <1>4, FinalSheet
  <2>2. copy[c][v] = pstate[v]
    BY <1>1, <1>4 DEF WriteFinal, Fresh
  <2>3. OrdersIn(pstate[v].Answers) \subseteq OrdersIn(new.Answers)
    BY <2>1, <2>2
  <2> QED
    BY <2>1, <2>3, StateAssumption DEF Holds, TypeInv, TypeOK
<1> QED
  BY <1>2, <1>3, <1>4, WritingSteps

\* Nothing is acknowledged yet.
LEMMA InitAck == Init => AckInv
  BY DEF Init, AckInv, AckIsDue

\* A call that is about to unlock with an accepted answer has stored it.
LEMMA StepAckIsDue ==
  ASSUME TypeInv, AnswerInv, FreshInv, AckIsDue, [Next]_vars, expired' = {}
  PROVE  AckIsDue'
<1>1. SUFFICES ASSUME NEW d \in Calls, pc'[d] = "unlock", req'[d] # NoReq, outcome'[d] = "ok",
                      NEW o \in QuestionFor(req'[d].token)
               PROVE  Holds(pstate'[req'[d].user], o)
  BY DEF AckIsDue, Holds, OrdersIn, QuestionFor
<1>2. CASE UNCHANGED <<pc, req, outcome>>
  <2>1. Holds(pstate[req[d].user], o) /\ req[d].user \in Players
    BY <1>1, <1>2 DEF AckIsDue, TypeInv, TypeOK, Request
  <2>2. Holds(pstate'[req[d].user], o)
    BY <2>1, StoredStays
  <2> QED
    BY <1>2, <2>2
<1>3. ASSUME NEW c \in Calls, d # c, pc'[d] = pc[d], req'[d] = req[d], outcome'[d] = outcome[d]
      PROVE  Holds(pstate'[req'[d].user], o)
  <2>1. Holds(pstate[req[d].user], o) /\ req[d].user \in Players
    BY <1>1, <1>3 DEF AckIsDue, TypeInv, TypeOK, Request
  <2>2. Holds(pstate'[req[d].user], o)
    BY <2>1, StoredStays
  <2> QED
    BY <1>3, <2>2
<1>4. CASE LockExpire \/ Tick \/ UNCHANGED vars
  BY <1>2, <1>4 DEF LockExpire, Tick, vars, localVars
<1>5. ASSUME NEW c \in Calls, Submit(c) \/ FinalizeMatch(c) PROVE Holds(pstate'[req'[d].user], o)
  <2>1. /\ pc'[c] # "unlock"
        /\ d # c => pc'[d] = pc[d] /\ req'[d] = req[d] /\ outcome'[d] = outcome[d]
    BY <1>5 DEF Submit, SubmitAnswer, FinalizeMatch, Acquire, Refused, TypeInv, TypeOK
  <2> QED
    BY <1>1, <1>3, <2>1
<1>6. ASSUME NEW c \in Calls, Crash(c) \/ Unlock(c) PROVE Holds(pstate'[req'[d].user], o)
  <2>1. /\ pc'[c] # "unlock"
        /\ d # c => pc'[d] = pc[d] /\ req'[d] = req[d] /\ outcome'[d] = outcome[d]
    BY <1>6 DEF Crash, Unlock, Finish, TypeInv, TypeOK
  <2> QED
    BY <1>1, <1>3, <2>1
<1>7. ASSUME NEW c \in Calls, ReadState(c) PROVE Holds(pstate'[req'[d].user], o)
  <2>1. /\ pc'[c] = "unlock" => outcome'[c] # "ok"
        /\ d # c => pc'[d] = pc[d] /\ req'[d] = req[d] /\ outcome'[d] = outcome[d]
    BY <1>7 DEF ReadState, TypeInv, TypeOK
  <2> QED
    BY <1>1, <1>3, <2>1
<1>8. ASSUME NEW c \in Calls, LoadPack(c) \/ SetStatus(c) PROVE Holds(pstate'[req'[d].user], o)
  <2>1. /\ req'[c] = NoReq
        /\ d # c => pc'[d] = pc[d] /\ req'[d] = req[d] /\ outcome'[d] = outcome[d]
    BY <1>8 DEF LoadPack, SetStatus, TypeInv, TypeOK, FreshInv, Blank, FinalizeSteps
  <2> QED
    BY <1>1, <1>3, <2>1
<1>9. ASSUME NEW c \in Calls, NEW u \in Players, LoadState(c, u) \/ RecordResult(c, u)
      PROVE  Holds(pstate'[req'[d].user], o)
  <2>1. /\ req'[c] = NoReq
        /\ d # c => pc'[d] = pc[d] /\ req'[d] = req[d] /\ outcome'[d] = outcome[d]
    BY <1>9 DEF LoadState, RecordResult, TypeInv, TypeOK, FreshInv, Blank, FinalizeSteps
  <2> QED
    BY <1>1, <1>3, <2>1
<1>10. ASSUME NEW c \in Calls, NEW u \in Players, WriteFinal(c, u) PROVE Holds(pstate'[req'[d].user], o)
  <2>1. /\ req'[c] = NoReq
        /\ d # c => pc'[d] = pc[d] /\ req'[d] = req[d] /\ outcome'[d] = outcome[d]
    BY <1>10 DEF WriteFinal, TypeInv, TypeOK, FreshInv, Blank, FinalizeSteps
  <2> QED
    BY <1>1, <1>3, <2>1
<1>11. ASSUME NEW c \in Calls, StoreAnswer(c) PROVE Holds(pstate'[req'[d].user], o)
  <2>1. /\ UNCHANGED req
        /\ d # c => pc'[d] = pc[d] /\ outcome'[d] = outcome[d]
    BY <1>11 DEF StoreAnswer, TypeInv, TypeOK
  <2>2. CASE d # c
    BY <1>3, <2>1, <2>2
  <2>3. CASE d = c
    <3> DEFINE u == req[c].user
    <3>1. PICK p \in QuestionFor(req[c].token), new \in PlayerState :
            /\ u \in Players
            /\ OrdersIn(new.Answers) = OrdersIn(copy[c][u].Answers) \cup {p}
            /\ \/ pstate' = [pstate EXCEPT ![u] = new]
               \/ outcome' = [outcome EXCEPT ![c] = "error"]
      BY <1>11, StoredSheet
    <3>2. o = p
      BY <1>1, <2>1, <2>3, <3>1, QuestionForUnique
    <3>3. pstate'[u] = new
      BY <1>1, <2>3, <3>1 DEF TypeInv, TypeOK
    <3> QED
      BY <2>1, <2>3, <3>1, <3>2, <3>3, StateAssumption DEF Holds
  <2> QED
    BY <2>2, <2>3
<1> QED
  BY <1>4, <1>5, <1>6, <1>7, <1>8, <1>9, <1>10, <1>11 DEF Next, CallStep

\* Acknowledging happens in the unlock step alone.
LEMMA AckingSteps ==
  ASSUME [Next]_vars
  PROVE  acked' = acked \/ \E c \in Calls : pc[c] = "unlock" /\ acked' = acked \cup Ack(c)
<1>1. CASE UNCHANGED vars \/ LockExpire \/ Tick
  BY <1>1 DEF vars, LockExpire, Tick
<1>2. ASSUME NEW c \in Calls, Submit(c) \/ FinalizeMatch(c) \/ Crash(c) PROVE UNCHANGED acked
  BY <1>2 DEF Submit, SubmitAnswer, FinalizeMatch, Crash
<1>3. ASSUME NEW c \in Calls, Unlock(c) PROVE pc[c] = "unlock" /\ acked' = acked \cup Ack(c)
  BY <1>3 DEF Unlock
<1>4. ASSUME NEW c \in Calls, ReadState(c) \/ StoreAnswer(c) \/ LoadPack(c) \/ SetStatus(c)
      PROVE  UNCHANGED acked
  BY <1>4 DEF ReadState, StoreAnswer, LoadPack, SetStatus
<1>5. ASSUME NEW c \in Calls, NEW u \in Players, LoadState(c, u) \/ WriteFinal(c, u) \/ RecordResult(c, u)
      PROVE  UNCHANGED acked
  BY <1>5 DEF LoadState, WriteFinal, RecordResult
<1> QED
  BY <1>1, <1>2, <1>3, <1>4, <1>5 DEF Next, CallStep

\* Every acknowledged answer was due, and no step loses it.
LEMMA StepAck ==
  ASSUME TypeInv, AnswerInv, FreshInv, AckInv, [Next]_vars
  PROVE  AckInv'
<1>1. SUFFICES ASSUME expired' = {} PROVE AckIsDue' /\ \A a \in acked' : Holds(pstate'[a[1]], a[2])
  BY DEF AckInv, Holds, OrdersIn
<1>2. AckIsDue /\ \A a \in acked : Holds(pstate[a[1]], a[2])
  BY <1>1, ExpiredGrows DEF AckInv
<1>3. AckIsDue'
  BY <1>1, <1>2, StepAckIsDue
<1>4. ASSUME NEW a \in acked' PROVE a[1] \in Players /\ Holds(pstate[a[1]], a[2])
  <2>1. CASE a \in acked
    BY <1>2, <2>1 DEF TypeInv, TypeOK
  <2>2. CASE a \notin acked
    <3>1. PICK c \in Calls : pc[c] = "unlock" /\ a \in Ack(c)
      BY <2>2, AckingSteps
    <3>2. req[c] # NoReq /\ outcome[c] = "ok"
      BY <3>1 DEF Ack
    <3>3. PICK o \in QuestionFor(req[c].token) : a = <<req[c].user, o>>
      BY <3>1, <3>2 DEF Ack
    <3>4. req[c].user \in Players /\ Holds(pstate[req[c].user], o)
      BY <1>2, <3>1, <3>2 DEF AckIsDue, TypeInv, TypeOK, Request
    <3> QED
      BY <3>3, <3>4
  <2> QED
    BY <2>1, <2>2
<1> QED
  BY <1>1, <1>3, <1>4, StoredStays

\* As long as no call outlives its lock an acknowledged answer stays stored, for
\* every size of the match and whatever crashes or fails: every write puts back at
\* least what is stored, because the lock keeps the copy it comes from fresh.
THEOREM AnswersAreKept == Spec => []AckedAnswersKept
<1>1. AckInv => AckedAnswersKept
  BY DEF AckInv, AckedAnswersKept, Holds
<1> QED
  BY <1>1, InitTypes, StepTypes, InitAnswers, StepAnswers, LockSafe, InitFresh, StepFresh,
     InitAck, StepAck, PTL DEF Spec

-----------------------------------------------------------------------------
(* Final answers are frozen *)

\* A final player takes no more answers, and finalising it again adds none.
LEMMA StepFrozen ==
  ASSUME TypeInv, AnswerInv, CompleteInv, FreshInv, [Next]_vars, expired' = {},
         NEW u \in Players, pstate[u] # NoState, pstate[u].FinalAt # NotFinal
  PROVE  pstate'[u].Answers = pstate[u].Answers
<1>1. Blank /\ \A c \in Calls : Fresh(c)
  BY ExpiredGrows DEF FreshInv
<1>2. cached => OrdersIn(pstate[u].Answers) = Orders
  BY DEF CompleteInv, Complete
<1>3. ASSUME NEW c \in Calls, StoreAnswer(c) PROVE pstate'[u].Answers = pstate[u].Answers
  <2> DEFINE v == req[c].user
  <2>1. PICK o \in Orders, new \in PlayerState :
          /\ v \in Players
          /\ o \notin OrdersIn(copy[c][v].Answers)
          /\ pstate' = [pstate EXCEPT ![v] = new] \/ pstate' = pstate
    BY <1>3, StoredSheet
  <2>2. copy[c][v] = pstate[v] /\ cached
    BY <1>1, <1>3 DEF StoreAnswer, Fresh, Blank
  <2>3. u # v
    BY <1>2, <2>1, <2>2
  <2> QED
    BY <2>1, <2>3 DEF TypeInv, TypeOK
<1>4. ASSUME NEW c \in Calls, NEW v \in Players, WriteFinal(c, v)
      PROVE  pstate'[u].Answers = pstate[u].Answers
  <2>1. PICK new \in PlayerState :
          /\ Unanswered(copy[c][v].Answers) = {} => new.Answers = copy[c][v].Answers
          /\ pstate' = [pstate EXCEPT ![v] = new] \/ pstate' = pstate
    BY <1>4, FinalSheet
  <2>2. copy[c][v] = pstate[v]
    BY <1>1, <1>4 DEF WriteFinal, Fresh
  <2>3. CASE u = v
    <3>1. Unanswered(copy[c][v].Answers) = {}
      BY <1>2, <2>2, <2>3 DEF Unanswered
    <3> QED
      BY <2>1, <2>2, <2>3, <3>1 DEF TypeInv, TypeOK
  <2>4. CASE u # v
    BY <2>1, <2>4 DEF TypeInv, TypeOK
  <2> QED
    BY <2>3, <2>4
<1> QED
  BY <1>3, <1>4, WritingSteps

\* As long as no call outlives its lock the answers of a finalised player never
\* change again, not by a late submission and not by a second finalisation.
THEOREM FinalAnswersStay == Spec => FinalAnswersFrozen
<1> DEFINE Frozen == expired' = {} => \A u \in Players :
                       pstate[u] # NoState /\ pstate[u].FinalAt # NotFinal
                         => pstate'[u].Answers = pstate[u].Answers
<1>1. TypeInv /\ AnswerInv /\ CompleteInv /\ FreshInv /\ [Next]_vars => [Frozen]_vars
  BY StepFrozen
<1> QED
  BY <1>1, InitTypes, StepTypes, InitAnswers, StepAnswers, LockSafe, InitFresh, StepFresh,
     InitComplete, StepComplete, PTL DEF Spec, FinalAnswersFrozen

-----------------------------------------------------------------------------
(* The outcome of a match when no command fails *)

\* Without errors WriteFinal stores the final state it has computed.
LEMMA CleanWriteFinal ==
  ASSUME TypeInv, ~MayErr, NEW c \in Calls, NEW u \in Players, WriteFinal(c, u)
  PROVE  \E s \in PlayerState \ {NoState} :
           /\ s.FinalAt # NotFinal
           /\ final' = [final EXCEPT ![c][u] = s]
           /\ pstate' = [pstate EXCEPT ![u] = s]
<1>1. PICK missing \in Ascending(Unanswered(copy[c][u].Answers)) :
        LET s == [Answers |-> WithMissing(copy[c][u].Answers, missing), FinalAt |-> now]
        IN  /\ s \in PlayerState
            /\ final' = [final EXCEPT ![c][u] = s]
            /\ pstate' = [pstate EXCEPT ![u] = s]
  BY FinalState
<1> DEFINE s == [Answers |-> WithMissing(copy[c][u].Answers, missing), FinalAt |-> now]
<1>2. s.FinalAt # NotFinal
  BY MatchAssumption DEF TypeInv, TypeOK
<1>3. s \in PlayerState \ {NoState} /\ final' = [final EXCEPT ![c][u] = s]
        /\ pstate' = [pstate EXCEPT ![u] = s]
  BY <1>1, StateAssumption
<1> HIDE DEF s
<1> QED
  BY <1>2, <1>3

\* Every player has a state from the start, and a call that got past its loop
\* over the players has one of each of them.
AllRead ==
  /\ \A u \in Players : pstate[u] # NoState
  /\ \A c \in Calls, u \in Players :
       /\ pc[c] = "load" /\ u \notin todo[c] => copy[c][u] # NoState
       /\ pc[c] \in {"pack", "write"} => copy[c][u] # NoState
       /\ pc[c] = "write" /\ u \notin todo[c] => final[c][u] # NoState
       /\ pc[c] \in {"status", "record"} => final[c][u] # NoState

\* Both players have a state, and no call has begun.
LEMMA InitAllRead == ~MayErr /\ Init => AllRead
<1> SUFFICES ASSUME ~MayErr, Init PROVE AllRead
  OBVIOUS
<1> DEFINE empty == [Answers |-> <<>>, FinalAt |-> NotFinal]
<1>1. empty \in PlayerState
  BY DEF PlayerState
<1>2. pstate \in [Players -> {empty}]
  BY DEF Init
<1>3. \A c \in Calls : pc[c] = "idle"
  BY DEF Init
<1> QED
  BY <1>1, <1>2, <1>3, StateAssumption DEF AllRead

\* A step of one call leaves what the others have read and computed.
LEMMA OthersRead ==
  ASSUME AllRead, NEW d \in Calls,
         pc'[d] = pc[d], copy'[d] = copy[d], final'[d] = final[d], todo'[d] = todo[d]
  PROVE  \A u \in Players :
           /\ pc'[d] = "load" /\ u \notin todo'[d] => copy'[d][u] # NoState
           /\ pc'[d] \in {"pack", "write"} => copy'[d][u] # NoState
           /\ pc'[d] = "write" /\ u \notin todo'[d] => final'[d][u] # NoState
           /\ pc'[d] \in {"status", "record"} => final'[d][u] # NoState
  BY DEF AllRead

\* Without errors no state is missed by the loops of FinalizeMatch.
LEMMA StepAllRead ==
  ASSUME TypeInv, AnswerInv, ~MayErr, AllRead, [Next]_vars
  PROVE  AllRead'
<1> DEFINE Good(d) == \A u \in Players :
             /\ pc'[d] = "load" /\ u \notin todo'[d] => copy'[d][u] # NoState
             /\ pc'[d] \in {"pack", "write"} => copy'[d][u] # NoState
             /\ pc'[d] = "write" /\ u \notin todo'[d] => final'[d][u] # NoState
             /\ pc'[d] \in {"status", "record"} => final'[d][u] # NoState
           Kept(d) == pc'[d] = pc[d] /\ copy'[d] = copy[d] /\ final'[d] = final[d] /\ todo'[d] = todo[d]
<1>1. \A d \in Calls : Kept(d) => Good(d)
  BY OthersRead
<1>2. \A u \in Players : pstate'[u] # NoState
  <2>1. ASSUME NEW c \in Calls, StoreAnswer(c), NEW u \in Players PROVE pstate'[u] # NoState
    <3>1. PICK new \in PlayerState :
            pstate' = [pstate EXCEPT ![req[c].user] = new] \/ pstate' = pstate
      BY <2>1, StoredSheet
    <3> QED
      BY <3>1, StateAssumption DEF AllRead, TypeInv, TypeOK
  <2>2. ASSUME NEW c \in Calls, NEW v \in Players, WriteFinal(c, v), NEW u \in Players
        PROVE  pstate'[u] # NoState
    <3>1. PICK new \in PlayerState \ {NoState} : pstate' = [pstate EXCEPT ![v] = new]
      BY <2>2, CleanWriteFinal
    <3> QED
      BY <3>1 DEF AllRead, TypeInv, TypeOK
  <2> QED
    BY <2>1, <2>2, WritingSteps DEF AllRead
<1> SUFFICES \A d \in Calls : Good(d)
  BY <1>2 DEF AllRead
<1>3. CASE UNCHANGED vars \/ LockExpire \/ Tick
  <2>1. \A d \in Calls : Kept(d)
    BY <1>3 DEF vars, localVars, LockExpire, Tick
  <2> QED
    BY <1>1, <2>1
<1>4. ASSUME NEW c \in Calls, Submit(c) \/ FinalizeMatch(c), NEW d \in Calls PROVE Good(d)
  <2>1. /\ d # c => Kept(d)
        /\ pc'[c] \in {"read", "done"} \/ (pc'[c] = "load" /\ todo'[c] = Players)
    BY <1>4 DEF Submit, SubmitAnswer, FinalizeMatch, Acquire, Refused, TypeInv, TypeOK
  <2>2. Good(c)
    BY <2>1
  <2> QED
    BY <1>1, <2>1, <2>2
<1>5. ASSUME NEW c \in Calls, Crash(c) \/ Unlock(c), NEW d \in Calls PROVE Good(d)
  <2>1. (d # c => Kept(d)) /\ pc'[c] = "done"
    BY <1>5 DEF Crash, Unlock, Finish, TypeInv, TypeOK
  <2> QED
    BY <1>1, <2>1
<1>6. ASSUME NEW c \in Calls, ReadState(c), NEW d \in Calls PROVE Good(d)
  <2>1. (d # c => Kept(d)) /\ pc'[c] \in {"store", "unlock"}
    BY <1>6 DEF ReadState, TypeInv, TypeOK
  <2> QED
    BY <1>1, <2>1
<1>7. ASSUME NEW c \in Calls, StoreAnswer(c), NEW d \in Calls PROVE Good(d)
  <2>1. (d # c => Kept(d)) /\ pc'[c] = "unlock"
    BY <1>7 DEF StoreAnswer, TypeInv, TypeOK
  <2> QED
    BY <1>1, <2>1
<1>8. ASSUME NEW c \in Calls, NEW v \in Players, LoadState(c, v), NEW d \in Calls PROVE Good(d)
  <2>1. /\ d # c => Kept(d)
        /\ pc[c] = "load"
        /\ pc'[c] = IF todo[c] = {v} THEN "pack" ELSE "load"
        /\ todo'[c] = todo[c] \ {v}
        /\ copy'[c][v] = pstate[v]
        /\ \A u \in Players \ {v} : copy'[c][u] = copy[c][u]
    BY <1>8 DEF LoadState, TypeInv, TypeOK
  <2>2. Good(c)
    BY <2>1 DEF AllRead
  <2> QED
    BY <1>1, <2>1, <2>2
<1>9. ASSUME NEW c \in Calls, LoadPack(c), NEW d \in Calls PROVE Good(d)
  <2>1. /\ d # c => Kept(d)
        /\ pc[c] = "pack"
        /\ UNCHANGED copy
        /\ todo'[c] = {u \in Players : copy[c][u] # NoState}
        /\ pc'[c] = IF todo'[c] = {} THEN "status" ELSE "write"
    BY <1>9 DEF LoadPack, TypeInv, TypeOK
  <2>2. todo'[c] = Players
    BY <2>1 DEF AllRead
  <2>3. Good(c)
    BY <2>1, <2>2 DEF AllRead
  <2> QED
    BY <1>1, <2>1, <2>3
<1>10. ASSUME NEW c \in Calls, NEW v \in Players, WriteFinal(c, v), NEW d \in Calls PROVE Good(d)
  <2>1. PICK s \in PlayerState \ {NoState} : final' = [final EXCEPT ![c][v] = s]
    BY <1>10, CleanWriteFinal
  <2>2. /\ d # c => Kept(d)
        /\ pc[c] = "write"
        /\ pc'[c] = IF todo[c] = {v} THEN "status" ELSE "write"
        /\ todo'[c] = todo[c] \ {v}
        /\ UNCHANGED copy
        /\ final'[c][v] # NoState
        /\ \A u \in Players \ {v} : final'[c][u] = final[c][u]
    BY <1>10, <2>1 DEF WriteFinal, AfterWrite, TypeInv, TypeOK
  <2>3. Good(c)
    BY <2>2 DEF AllRead
  <2> QED
    BY <1>1, <2>2, <2>3
<1>11. ASSUME NEW c \in Calls, SetStatus(c) \/ \E v \in Players : RecordResult(c, v), NEW d \in Calls
       PROVE  Good(d)
  <2>1. /\ d # c => Kept(d)
        /\ pc[c] \in {"status", "record"} /\ pc'[c] \in {"record", "unlock"}
        /\ UNCHANGED final
    BY <1>11 DEF SetStatus, RecordResult, TypeInv, TypeOK
  <2>2. Good(c)
    BY <2>1 DEF AllRead
  <2> QED
    BY <1>1, <2>1, <2>2
<1> QED
  BY <1>3, <1>4, <1>5, <1>6, <1>7, <1>8, <1>9, <1>10, <1>11 DEF Next, CallStep

\* While no lock runs out a final state stays final, as its answers do.
LEMMA FinalStays ==
  ASSUME TypeInv, AnswerInv, ~MayErr, AllRead, FreshInv, [Next]_vars, expired' = {},
         NEW u \in Players, pstate[u].FinalAt # NotFinal
  PROVE  pstate'[u].FinalAt # NotFinal
<1>1. \A c \in Calls : Fresh(c)
  BY ExpiredGrows DEF FreshInv
<1>2. ASSUME NEW c \in Calls, StoreAnswer(c) PROVE pstate'[u].FinalAt # NotFinal
  <2> DEFINE v == req[c].user
  <2>1. PICK new \in PlayerState :
          /\ v \in Players
          /\ new.FinalAt = copy[c][v].FinalAt
          /\ pstate' = [pstate EXCEPT ![v] = new] \/ pstate' = pstate
    BY <1>2, StoredSheet
  <2>2. copy[c][v] = pstate[v]
    BY <1>1, <1>2 DEF StoreAnswer, Fresh
  <2> QED
    BY <2>1, <2>2 DEF TypeInv, TypeOK
<1>3. ASSUME NEW c \in Calls, NEW v \in Players, WriteFinal(c, v) PROVE pstate'[u].FinalAt # NotFinal
  <2>1. PICK new \in PlayerState : new.FinalAt # NotFinal /\ pstate' = [pstate EXCEPT ![v] = new]
    BY <1>3, CleanWriteFinal
  <2> QED
    BY <2>1 DEF TypeInv, TypeOK
<1> QED
  BY <1>2, <1>3, WritingSteps

\* The players a finalisation is done with are final, and all of them when it sets
\* the status.
DoneFinal ==
  /\ rowStatus = "completed" => \A u \in Players : pstate[u].FinalAt # NotFinal
  /\ \A c \in Calls, u \in Players :
       /\ pc[c] = "write" /\ u \notin todo[c] => pstate[u].FinalAt # NotFinal
       /\ pc[c] = "status" => pstate[u].FinalAt # NotFinal

FinalInv == expired = {} => DoneFinal

\* No match begins completed.
LEMMA InitFinal == Init => FinalInv
  BY DEF Init, FinalInv, DoneFinal

\* The status is set after the loop, and the loop misses nobody.
LEMMA StepFinal ==
  ASSUME TypeInv, AnswerInv, ~MayErr, AllRead, FreshInv, FinalInv, [Next]_vars
  PROVE  FinalInv'
<1>1. SUFFICES ASSUME expired' = {} PROVE DoneFinal'
  BY DEF FinalInv
<1>2. DoneFinal
  BY <1>1, ExpiredGrows DEF FinalInv
<1>3. \A u \in Players : pstate[u].FinalAt # NotFinal => pstate'[u].FinalAt # NotFinal
  BY <1>1, FinalStays
<1> DEFINE Good(d) == \A u \in Players :
             /\ pc'[d] = "write" /\ u \notin todo'[d] => pstate'[u].FinalAt # NotFinal
             /\ pc'[d] = "status" => pstate'[u].FinalAt # NotFinal
           Kept(d) == pc'[d] = pc[d] /\ todo'[d] = todo[d]
<1>4. \A d \in Calls : Kept(d) => Good(d)
  BY <1>2, <1>3 DEF DoneFinal
<1>5. SUFFICES /\ UNCHANGED rowStatus \/ \A u \in Players : pstate[u].FinalAt # NotFinal
               /\ \A d \in Calls : Good(d)
  BY <1>2, <1>3 DEF DoneFinal
<1>6. CASE UNCHANGED vars \/ LockExpire \/ Tick
  <2>1. UNCHANGED rowStatus /\ \A d \in Calls : Kept(d)
    BY <1>6 DEF vars, storeVars, localVars, LockExpire, Tick
  <2> QED
    BY <1>4, <2>1
<1>7. ASSUME NEW c \in Calls, Submit(c) \/ FinalizeMatch(c)
      PROVE  UNCHANGED rowStatus /\ \A d \in Calls : Good(d)
  <2>1. UNCHANGED rowStatus /\ \A d \in Calls \ {c} : Kept(d)
    BY <1>7 DEF Submit, SubmitAnswer, FinalizeMatch, Acquire, Refused, storeVars, TypeInv, TypeOK
  <2>2. pc'[c] \in {"read", "done", "load"}
    BY <1>7 DEF Submit, SubmitAnswer, FinalizeMatch, Acquire, Refused, TypeInv, TypeOK
  <2> QED
    BY <1>4, <2>1, <2>2
<1>8. ASSUME NEW c \in Calls, Crash(c) \/ Unlock(c)
      PROVE  UNCHANGED rowStatus /\ \A d \in Calls : Good(d)
  <2>1. UNCHANGED rowStatus /\ pc'[c] = "done" /\ \A d \in Calls \ {c} : Kept(d)
    BY <1>8 DEF Crash, Unlock, Finish, storeVars, TypeInv, TypeOK
  <2> QED
    BY <1>4, <2>1
<1>9. ASSUME NEW c \in Calls, ReadState(c) \/ StoreAnswer(c)
      PROVE  UNCHANGED rowStatus /\ \A d \in Calls : Good(d)
  <2>1. /\ UNCHANGED rowStatus
        /\ pc'[c] \in {"store", "unlock"}
        /\ \A d \in Calls \ {c} : Kept(d)
    BY <1>9 DEF ReadState, StoreAnswer, storeVars, TypeInv, TypeOK
  <2> QED
    BY <1>4, <2>1
<1>10. ASSUME NEW c \in Calls, NEW v \in Players, LoadState(c, v) \/ RecordResult(c, v)
       PROVE  UNCHANGED rowStatus /\ \A d \in Calls : Good(d)
  <2>1. /\ UNCHANGED rowStatus
        /\ pc'[c] \in {"pack", "load", "unlock", "record"}
        /\ \A d \in Calls \ {c} : Kept(d)
    BY <1>10 DEF LoadState, RecordResult, storeVars, TypeInv, TypeOK
  <2> QED
    BY <1>4, <2>1
<1>11. ASSUME NEW c \in Calls, LoadPack(c)
       PROVE  UNCHANGED rowStatus /\ \A d \in Calls : Good(d)
  <2>1. /\ UNCHANGED rowStatus
        /\ \A d \in Calls \ {c} : Kept(d)
        /\ todo'[c] = {u \in Players : copy[c][u] # NoState}
        /\ pc'[c] = IF todo'[c] = {} THEN "status" ELSE "write"
        /\ pc[c] = "pack"
    BY <1>11 DEF LoadPack, storeVars, TypeInv, TypeOK
  <2>2. todo'[c] = Players
    BY <2>1 DEF AllRead
  <2>3. Good(c)
    BY <2>1, <2>2
  <2> QED
    BY <1>4, <2>1, <2>3
<1>12. ASSUME NEW c \in Calls, NEW v \in Players, WriteFinal(c, v)
       PROVE  UNCHANGED rowStatus /\ \A d \in Calls : Good(d)
  <2>1. PICK s \in PlayerState : s.FinalAt # NotFinal /\ pstate' = [pstate EXCEPT ![v] = s]
    BY <1>12, CleanWriteFinal
  <2>2. /\ UNCHANGED rowStatus
        /\ \A d \in Calls \ {c} : Kept(d)
        /\ pc[c] = "write"
        /\ pc'[c] = IF todo[c] = {v} THEN "status" ELSE "write"
        /\ todo'[c] = todo[c] \ {v}
        /\ pstate'[v].FinalAt # NotFinal
    BY <1>12, <2>1 DEF WriteFinal, AfterWrite, TypeInv, TypeOK
  <2>3. Good(c)
    BY <1>2, <1>3, <2>2 DEF DoneFinal
  <2> QED
    BY <1>4, <2>2, <2>3
<1>13. ASSUME NEW c \in Calls, SetStatus(c)
       PROVE  /\ UNCHANGED rowStatus \/ \A u \in Players : pstate[u].FinalAt # NotFinal
              /\ \A d \in Calls : Good(d)
  <2>1. /\ pc[c] = "status" /\ pc'[c] \in {"record", "unlock"}
        /\ \A d \in Calls \ {c} : Kept(d)
    BY <1>13 DEF SetStatus, TypeInv, TypeOK
  <2> QED
    BY <1>2, <1>4, <2>1 DEF DoneFinal
<1> QED
  BY <1>6, <1>7, <1>8, <1>9, <1>10, <1>11, <1>12, <1>13 DEF Next, CallStep

\* When no command fails and no call outlives its lock, a match marked completed
\* has a final state for every player, wherever a server crashed.
THEOREM CompletedMatchesAreFinal ==
  ASSUME ~MayErr
  PROVE  Spec => []CompletedMeansFinal
<1>1. FinalInv => CompletedMeansFinal
  BY DEF FinalInv, DoneFinal, CompletedMeansFinal
<1>2. Init => AllRead
  BY InitAllRead
<1>3. TypeInv /\ AnswerInv /\ AllRead /\ [Next]_vars => AllRead'
  BY StepAllRead
<1>4. TypeInv /\ AnswerInv /\ AllRead /\ FreshInv /\ FinalInv /\ [Next]_vars => FinalInv'
  BY StepFinal
<1> QED
  BY <1>1, <1>2, <1>3, <1>4, InitTypes, StepTypes, InitAnswers, StepAnswers, LockSafe, InitFresh,
     StepFresh, InitFinal, PTL DEF Spec

-----------------------------------------------------------------------------
(* Winners *)

\* A finalisation that records results is of an eligible match, has a final state
\* of every player, and what it records is its own view of the winners.
WonInv ==
  /\ \A c \in Calls : eligible[c] => LeaderboardEligible
  /\ \A r \in recorded :
       /\ pc[r.call] \in {"record", "unlock", "done"}
       /\ pc[r.call] \in {"record", "unlock"} =>
            /\ eligible[r.call]
            /\ \A u \in Players : final[r.call][u] # NoState
            /\ r.won = Won(r.call, r.user)

\* Nothing is recorded yet.
LEMMA InitWon == Init => WonInv
  BY DEF Init, WonInv

\* The call has recorded, or may do so before it ends.
Past(d) == pc[d] \in {"record", "unlock", "done"}

\* The step leaves what the call has computed, or ends the call.
Stays(d) ==
  /\ pc'[d] \in {pc[d], "done"} \/ (pc[d] = "record" /\ pc'[d] = "unlock")
  /\ pc'[d] # "done" => final'[d] = final[d] /\ eligible'[d] = eligible[d]

\* A result already recorded stays true of the call it came from.
LEMMA RecordedStays ==
  ASSUME TypeInv, WonInv, NEW r \in recorded, Stays(r.call)
  PROVE  /\ pc'[r.call] \in {"record", "unlock", "done"}
         /\ pc'[r.call] \in {"record", "unlock"} =>
              /\ eligible'[r.call]
              /\ \A u \in Players : final'[r.call][u] # NoState
              /\ r.won = Won(r.call, r.user)'
<1>1. r.call \in Calls
  BY DEF TypeInv, TypeOK, Result
<1>2. ASSUME final'[r.call] = final[r.call], eligible'[r.call] = eligible[r.call]
      PROVE  Won(r.call, r.user)' = Won(r.call, r.user)
  BY <1>2 DEF Won, Reqs
<1> QED
  BY <1>1, <1>2 DEF WonInv, Stays

\* A step other than recording adds no result and disturbs no call that has recorded.
LEMMA OtherSteps ==
  ASSUME TypeInv, [Next]_vars, \A c \in Calls : eligible[c] => LeaderboardEligible
  PROVE  /\ \A c \in Calls : eligible'[c] => LeaderboardEligible
         /\ \A d \in Calls : Past(d) => Stays(d)
         /\ UNCHANGED recorded \/ \E c \in Calls, u \in Players : RecordResult(c, u)
<1> DEFINE Goal == /\ \A c \in Calls : eligible'[c] => LeaderboardEligible
                   /\ \A d \in Calls : Past(d) => Stays(d)
                   /\ UNCHANGED recorded
<1>1. CASE UNCHANGED vars \/ LockExpire \/ Tick
  BY <1>1 DEF vars, storeVars, localVars, LockExpire, Tick, Stays
<1>2. ASSUME NEW c \in Calls, Submit(c) PROVE Goal
  BY <1>2 DEF Submit, SubmitAnswer, Acquire, Refused, storeVars, TypeInv, TypeOK, Past, Stays
<1>3. ASSUME NEW c \in Calls, FinalizeMatch(c) PROVE Goal
  <2>1. UNCHANGED <<recorded, final>> /\ pc[c] = "idle"
    BY <1>3 DEF FinalizeMatch, storeVars
  <2>2. \A d \in Calls \ {c} : pc'[d] = pc[d] /\ eligible'[d] = eligible[d]
    BY <1>3 DEF FinalizeMatch, Acquire, Refused, TypeInv, TypeOK
  <2>3. eligible'[c] => eligible[c] \/ LeaderboardEligible
    BY <1>3 DEF FinalizeMatch, TypeInv, TypeOK
  <2> QED
    BY <2>1, <2>2, <2>3 DEF Past, Stays
<1>4. ASSUME NEW c \in Calls, Crash(c) \/ Unlock(c) PROVE Goal
  <2>1. UNCHANGED recorded /\ pc'[c] = "done" /\ ~eligible'[c]
    BY <1>4 DEF Crash, Unlock, Finish, storeVars, TypeInv, TypeOK
  <2>2. \A d \in Calls \ {c} : pc'[d] = pc[d] /\ eligible'[d] = eligible[d] /\ final'[d] = final[d]
    BY <1>4 DEF Crash, Unlock, Finish, TypeInv, TypeOK
  <2> QED
    BY <2>1, <2>2 DEF Stays
<1>5. ASSUME NEW c \in Calls, ReadState(c) \/ StoreAnswer(c) \/ LoadPack(c) \/ SetStatus(c) PROVE Goal
  <2>1. UNCHANGED <<recorded, final, eligible>> /\ ~Past(c)
    BY <1>5 DEF ReadState, StoreAnswer, LoadPack, SetStatus, storeVars, Past
  <2>2. \A d \in Calls \ {c} : pc'[d] = pc[d]
    BY <1>5 DEF ReadState, StoreAnswer, LoadPack, SetStatus, TypeInv, TypeOK
  <2> QED
    BY <2>1, <2>2 DEF Stays
<1>6. ASSUME NEW c \in Calls, NEW u \in Players, LoadState(c, u) \/ WriteFinal(c, u) PROVE Goal
  <2>1. UNCHANGED <<recorded, eligible>> /\ ~Past(c)
    BY <1>6 DEF LoadState, WriteFinal, storeVars, Past
  <2>2. \A d \in Calls \ {c} : pc'[d] = pc[d] /\ final'[d] = final[d]
    BY <1>6 DEF LoadState, WriteFinal, TypeInv, TypeOK
  <2> QED
    BY <2>1, <2>2 DEF Stays
<1>7. ASSUME NEW c \in Calls, NEW u \in Players, RecordResult(c, u)
      PROVE  /\ \A d \in Calls : eligible'[d] => LeaderboardEligible
             /\ \A d \in Calls : Past(d) => Stays(d)
  BY <1>7 DEF RecordResult, TypeInv, TypeOK, Stays
<1> QED
  BY <1>1, <1>2, <1>3, <1>4, <1>5, <1>6, <1>7 DEF Next, CallStep

\* What is recorded is what the call computed, and only FinalizeMatch records.
LEMMA StepWon ==
  ASSUME TypeInv, AllRead, WonInv, [Next]_vars,
         \A c \in Calls : pc[c] = "record" => eligible[c]
  PROVE  WonInv'
<1> DEFINE Good(r) == /\ pc'[r.call] \in {"record", "unlock", "done"}
                      /\ pc'[r.call] \in {"record", "unlock"} =>
                           /\ eligible'[r.call]
                           /\ \A u \in Players : final'[r.call][u] # NoState
                           /\ r.won = Won(r.call, r.user)'
<1>1. /\ \A c \in Calls : eligible'[c] => LeaderboardEligible
      /\ \A d \in Calls : Past(d) => Stays(d)
      /\ UNCHANGED recorded \/ \E c \in Calls, u \in Players : RecordResult(c, u)
  BY OtherSteps DEF WonInv
<1>2. ASSUME NEW r \in recorded PROVE Good(r)
  <2>1. r.call \in Calls /\ Past(r.call)
    BY DEF TypeInv, TypeOK, Result, WonInv, Past
  <2> QED
    BY <1>1, <2>1, RecordedStays
<1>3. ASSUME NEW c \in Calls, NEW u \in Players, RecordResult(c, u), NEW r \in recorded'
      PROVE  Good(r)
  <2>1. CASE r \in recorded
    BY <1>2, <2>1
  <2>2. CASE r \notin recorded
    <3>1. r = [call |-> c, user |-> u, won |-> Won(c, u)]
      BY <1>3, <2>2 DEF RecordResult
    <3>2. /\ pc[c] = "record" /\ pc'[c] \in {"record", "unlock"}
          /\ UNCHANGED <<final, eligible>>
      BY <1>3 DEF RecordResult, TypeInv, TypeOK
    <3>3. Won(c, u)' = Won(c, u)
      BY <3>2 DEF Won, Reqs
    <3> QED
      BY <3>1, <3>2, <3>3 DEF AllRead
  <2> QED
    BY <2>1, <2>2
<1>4. \A r \in recorded' : Good(r)
  BY <1>1, <1>2, <1>3
<1> HIDE DEF Good
<1>5. WonInv' <=> /\ \A c \in Calls : eligible'[c] => LeaderboardEligible
                  /\ \A r \in recorded' : Good(r)
  BY DEF WonInv, Good, LeaderboardEligible
<1> QED
  BY <1>1, <1>4, <1>5

\* A call records only if its match is eligible.
Recording == \A c \in Calls : pc[c] = "record" => eligible[c]

\* No call has got that far.
LEMMA InitRecording == Init => Recording
  BY DEF Init, Recording

\* Requests are made for an eligible match alone, and eligibility is read once.
LEMMA StepRecording ==
  ASSUME TypeInv, Recording, [Next]_vars
  PROVE  Recording'
<1>1. CASE UNCHANGED vars \/ LockExpire \/ Tick
  BY <1>1 DEF vars, localVars, LockExpire, Tick, Recording
<1>2. ASSUME NEW c \in Calls, Submit(c) \/ FinalizeMatch(c) PROVE Recording'
  <2>1. /\ pc'[c] # "record"
        /\ \A d \in Calls \ {c} : pc'[d] = pc[d] /\ eligible'[d] = eligible[d]
    BY <1>2 DEF Submit, SubmitAnswer, FinalizeMatch, Acquire, Refused, TypeInv, TypeOK
  <2> QED
    BY <2>1 DEF Recording
<1>3. ASSUME NEW c \in Calls, Crash(c) \/ Unlock(c) PROVE Recording'
  <2>1. /\ pc'[c] # "record"
        /\ \A d \in Calls \ {c} : pc'[d] = pc[d] /\ eligible'[d] = eligible[d]
    BY <1>3 DEF Crash, Unlock, Finish, TypeInv, TypeOK
  <2> QED
    BY <2>1 DEF Recording
<1>4. ASSUME NEW c \in Calls, ReadState(c) \/ StoreAnswer(c) \/ LoadPack(c) PROVE Recording'
  BY <1>4 DEF ReadState, StoreAnswer, LoadPack, TypeInv, TypeOK, Recording
<1>5. ASSUME NEW c \in Calls, SetStatus(c) PROVE Recording'
  <2>1. /\ UNCHANGED eligible
        /\ pc'[c] = "record" => eligible[c]
        /\ \A d \in Calls \ {c} : pc'[d] = pc[d]
    BY <1>5 DEF SetStatus, Reqs, TypeInv, TypeOK
  <2> QED
    BY <2>1 DEF Recording
<1>6. ASSUME NEW c \in Calls, NEW u \in Players, LoadState(c, u) \/ WriteFinal(c, u) \/ RecordResult(c, u)
      PROVE  Recording'
  BY <1>6 DEF LoadState, WriteFinal, AfterWrite, RecordResult, TypeInv, TypeOK, Recording
<1> QED
  BY <1>1, <1>2, <1>3, <1>4, <1>5, <1>6 DEF Next, CallStep

-----------------------------------------------------------------------------
(* What is recorded and what is stored *)

\* The call has written this player's final state, and still has to use it or has
\* told the leaderboard of it.
Settled(c, u) ==
  \/ pc[c] = "write" /\ u \notin todo[c]
  \/ pc[c] \in {"status", "record"}
  \/ pc[c] = "unlock" /\ \E r \in recorded : r.call = c

\* The call's view of the player is what is stored, and it is final.
Agrees(c, u) == final[c][u] = pstate[u] /\ pstate[u].FinalAt # NotFinal

Views == \A c \in Calls, u \in Players : Settled(c, u) => Agrees(c, u)

ViewInv == expired = {} => Views

\* No call has begun.
LEMMA InitView == Init => ViewInv
  BY DEF Init, ViewInv, Views, Settled

\* A call the step passes by keeps its view, if no state is written.
LEMMA ViewKept ==
  ASSUME Views, UNCHANGED pstate, NEW d \in Calls, NEW u \in Players,
         pc'[d] = pc[d], todo'[d] = todo[d], final'[d] = final[d],
         (\E r \in recorded' : r.call = d) => \E r \in recorded : r.call = d
  PROVE  Settled(d, u)' => Agrees(d, u)'
<1>1. Settled(d, u)' => Settled(d, u)
  BY DEF Settled
<1> QED
  BY <1>1 DEF Views, Agrees

\* Only the call that holds the match writes, and it holds it until it has recorded.
LEMMA StepView ==
  ASSUME TypeInv, AnswerInv, LockNotStolen, ~MayErr, AllRead, WonInv, ViewInv, [Next]_vars
  PROVE  ViewInv'
<1>1. SUFFICES ASSUME expired' = {}, NEW d \in Calls, NEW u \in Players
               PROVE  Settled(d, u)' => Agrees(d, u)'
  BY DEF ViewInv, Views
<1>2. expired = {} /\ Views
  BY <1>1, ExpiredGrows DEF ViewInv
<1>3. \A r \in recorded : pc[r.call] \in {"record", "unlock", "done"}
  BY DEF WonInv
<1> DEFINE Goal == Settled(d, u)' => Agrees(d, u)'
           Kept(e) == pc'[e] = pc[e] /\ todo'[e] = todo[e] /\ final'[e] = final[e]
<1>4. ASSUME UNCHANGED <<pstate, recorded>>, Kept(d) PROVE Goal
  BY <1>2, <1>4, ViewKept
<1>5. CASE UNCHANGED vars \/ LockExpire \/ Tick
  BY <1>4, <1>5 DEF vars, storeVars, localVars, LockExpire, Tick
<1>6. ASSUME NEW c \in Calls, Submit(c) \/ FinalizeMatch(c) PROVE Goal
  <2>1. /\ UNCHANGED <<pstate, recorded, final>>
        /\ pc'[c] \in {"read", "load", "done"}
        /\ \A e \in Calls \ {c} : pc'[e] = pc[e] /\ todo'[e] = todo[e]
    BY <1>6 DEF Submit, SubmitAnswer, FinalizeMatch, Acquire, Refused, storeVars, TypeInv, TypeOK
  <2>2. CASE d = c
    BY <2>1, <2>2 DEF Settled
  <2> QED
    BY <1>4, <2>1, <2>2
<1>7. ASSUME NEW c \in Calls, Crash(c) \/ Unlock(c) PROVE Goal
  <2>1. /\ UNCHANGED <<pstate, recorded>>
        /\ pc'[c] = "done"
        /\ \A e \in Calls \ {c} : Kept(e)
    BY <1>7 DEF Crash, Unlock, Finish, storeVars, TypeInv, TypeOK
  <2>2. CASE d = c
    BY <2>1, <2>2 DEF Settled
  <2> QED
    BY <1>4, <2>1, <2>2
<1>8. ASSUME NEW c \in Calls, ReadState(c) PROVE Goal
  <2>1. /\ UNCHANGED <<pstate, recorded>>
        /\ pc[c] = "read" /\ pc'[c] \in {"store", "unlock"}
        /\ \A e \in Calls \ {c} : Kept(e)
    BY <1>8 DEF ReadState, storeVars, TypeInv, TypeOK
  <2>2. CASE d = c
    BY <1>3, <2>1, <2>2 DEF Settled
  <2> QED
    BY <1>4, <2>1, <2>2
<1>9. ASSUME NEW c \in Calls, StoreAnswer(c) PROVE Goal
  <2>1. /\ UNCHANGED recorded
        /\ pc[c] = "store" /\ pc'[c] = "unlock"
        /\ \A e \in Calls \ {c} : pc'[e] = pc[e]
    BY <1>9 DEF StoreAnswer, TypeInv, TypeOK
  <2>2. CASE d = c
    BY <1>3, <2>1, <2>2 DEF Settled
  <2>3. CASE d # c
    <3>1. pc[d] \notin Critical
      BY <1>2, <2>1, <2>3, Alone DEF Critical, SubmitSteps
    <3> QED
      BY <2>1, <2>3, <3>1 DEF Settled, Critical, FinalizeSteps
  <2> QED
    BY <2>2, <2>3
<1>10. ASSUME NEW c \in Calls, NEW v \in Players, LoadState(c, v) PROVE Goal
  <2>1. /\ UNCHANGED <<pstate, recorded>>
        /\ pc'[c] \in {"pack", "load"}
        /\ \A e \in Calls \ {c} : Kept(e)
    BY <1>10 DEF LoadState, storeVars, TypeInv, TypeOK
  <2>2. CASE d = c
    BY <2>1, <2>2 DEF Settled
  <2> QED
    BY <1>4, <2>1, <2>2
<1>11. ASSUME NEW c \in Calls, LoadPack(c) PROVE Goal
  <2>1. /\ UNCHANGED <<pstate, recorded>>
        /\ \A e \in Calls \ {c} : Kept(e)
        /\ todo'[c] = {v \in Players : copy[c][v] # NoState}
        /\ pc'[c] = IF todo'[c] = {} THEN "status" ELSE "write"
        /\ pc[c] = "pack"
    BY <1>11 DEF LoadPack, storeVars, TypeInv, TypeOK
  <2>2. todo'[c] = Players
    BY <2>1 DEF AllRead
  <2>3. CASE d = c
    BY <2>1, <2>2, <2>3 DEF Settled
  <2> QED
    BY <1>4, <2>1, <2>3
<1>12. ASSUME NEW c \in Calls, NEW v \in Players, WriteFinal(c, v) PROVE Goal
  <2>1. PICK s \in PlayerState \ {NoState} :
          /\ s.FinalAt # NotFinal
          /\ final' = [final EXCEPT ![c][v] = s]
          /\ pstate' = [pstate EXCEPT ![v] = s]
    BY <1>12, CleanWriteFinal
  <2>2. /\ UNCHANGED recorded
        /\ pc[c] = "write"
        /\ pc'[c] = IF todo[c] = {v} THEN "status" ELSE "write"
        /\ todo'[c] = todo[c] \ {v}
        /\ \A e \in Calls \ {c} : pc'[e] = pc[e]
    BY <1>12 DEF WriteFinal, AfterWrite, TypeInv, TypeOK
  <2>3. CASE d = c
    <3>1. CASE u = v
      BY <2>1, <2>3, <3>1 DEF Agrees, TypeInv, TypeOK
    <3>2. ASSUME u # v, Settled(d, u)' PROVE Agrees(d, u)'
      <4>1. u \notin todo[c]
        BY <2>2, <2>3, <3>2 DEF Settled
      <4>2. Agrees(c, u)
        BY <1>2, <2>2, <4>1 DEF Views, Settled
      <4> QED
        BY <2>1, <2>3, <3>2, <4>2 DEF Agrees, TypeInv, TypeOK
    <3> QED
      BY <3>1, <3>2
  <2>4. CASE d # c
    <3>1. pc[d] \notin Critical
      BY <1>2, <2>2, <2>4, Alone DEF Critical, FinalizeSteps
    <3> QED
      BY <2>2, <2>4, <3>1 DEF Settled, Critical, FinalizeSteps
  <2> QED
    BY <2>3, <2>4
<1>13. ASSUME NEW c \in Calls, SetStatus(c) \/ \E v \in Players : RecordResult(c, v) PROVE Goal
  <2>1. /\ UNCHANGED <<pstate, final>>
        /\ pc[c] \in {"status", "record"}
        /\ \A e \in Calls \ {c} : pc'[e] = pc[e] /\ todo'[e] = todo[e]
        /\ \A r \in recorded' : r \in recorded \/ r.call = c
    BY <1>13 DEF SetStatus, RecordResult, TypeInv, TypeOK
  <2>2. CASE d = c
    BY <1>2, <2>1, <2>2 DEF Views, Settled, Agrees
  <2>3. CASE d # c
    BY <1>2, <2>1, <2>3, ViewKept
  <2> QED
    BY <2>2, <2>3
<1> QED
  BY <1>5, <1>6, <1>7, <1>8, <1>9, <1>10, <1>11, <1>12, <1>13 DEF Next, CallStep

\* In a random match, when no command fails and no call outlives its lock, what a
\* finalisation has told the leaderboard agrees with the states stored in Redis for
\* as long as it holds the match, for any number of calls beside it and whatever
\* crashes before, between and after its commands.
THEOREM ResultsAgreeWithStates ==
  ASSUME ~MayErr, Mode = "random_1v1"
  PROVE  Spec => []ResultsMatchStates
<1>1. TypeInv /\ WonInv /\ ViewInv => ResultsMatchStates
  <2> SUFFICES ASSUME TypeInv, WonInv, ViewInv, expired = {},
                      NEW r \in recorded, pc[r.call] \in Critical
               PROVE  /\ \A v \in Players : pstate[v].FinalAt # NotFinal
                      /\ r.won <=> \A v \in Players : Score(pstate[v]) <= Score(pstate[r.user])
    BY DEF ResultsMatchStates
  <2>1. r.call \in Calls /\ r.user \in Players /\ pc[r.call] \in {"record", "unlock"}
    BY DEF WonInv, TypeInv, TypeOK, Result, Critical, SubmitSteps, FinalizeSteps
  <2>2. /\ LeaderboardEligible /\ eligible[r.call]
        /\ \A u \in Players : final[r.call][u] # NoState
        /\ r.won = Won(r.call, r.user)
    BY <2>1 DEF WonInv
  <2>3. Reqs(r.call) = Players
    BY <2>2 DEF Reqs, LeaderboardEligible
  <2>4. \A u \in Players : final[r.call][u] = pstate[u] /\ pstate[u].FinalAt # NotFinal
    BY <2>1 DEF ViewInv, Views, Settled, Agrees
  <2> QED
    BY <2>1, <2>2, <2>3, <2>4 DEF Won
<1>2. Init => AllRead
  BY InitAllRead
<1>3. TypeInv /\ AnswerInv /\ AllRead /\ [Next]_vars => AllRead'
  BY StepAllRead
<1>4. TypeInv /\ AllRead /\ WonInv /\ Recording /\ [Next]_vars => WonInv'
  BY StepWon DEF Recording
<1>5. TypeInv /\ AnswerInv /\ LockNotStolen /\ AllRead /\ WonInv /\ ViewInv /\ [Next]_vars => ViewInv'
  BY StepView
<1> QED
  BY <1>1, <1>2, <1>3, <1>4, <1>5, InitTypes, StepTypes, InitAnswers, StepAnswers, LockSafe, InitWon,
     InitRecording, StepRecording, InitView, PTL DEF Spec
=============================================================================
