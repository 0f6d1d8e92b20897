----------------------------- MODULE Matchmaking -----------------------------
(***************************************************************************)
(* Random matchmaking end to end: handleJoinQueue and handleCancelQueue    *)
(* (internal/match/handler.go) on top of the queue of module MatchQueue,   *)
(* the creation of the match (CreateRandomMatch, internal/match/service.go)*)
(* and the hub through which the two players are told (pkg/http/ws/hub.go).*)
(*                                                                         *)
(* handleJoinQueue runs in the goroutine of the connection that joined     *)
(* last; the opponent is a passive entry of the queue who may disconnect,  *)
(* come back, cancel or leave at any point of it.  A call of the handler   *)
(* is named by the queue token it drew, and so is the match it creates.    *)
(*                                                                         *)
(* The members of a match are a Go slice, which a departure shifts in      *)
(* place.  A broadcast reads the slice header under the hub's lock and     *)
(* then one cell at a time without it.  Looking a connection up and        *)
(* sending on it, two steps in module Hub, are one here: a connection that *)
(* is closed in between takes nothing.  Messages to the caller alone (an   *)
(* error, its position in the queue) are not kept.                         *)
(***************************************************************************)
EXTENDS MatchQueue, Sequences

CONSTANTS MaxDrops,  \* bound: number of connections lost or replaced
          NoUser

ASSUME MatchmakingAssumption == MaxDrops \in Nat /\ NoUser \notin Users

VARIABLES
  call,     \* the calls of handleJoinQueue
  online,   \* users with an entry in Hub.connections
  members,  \* Hub.matches: the slice of each match, with the cells past its end
  inbox,    \* what the hub has sent to each user about matches
  drops     \* number of connections lost or replaced so far

vars == <<queueVars, call, online, members, inbox, drops>>

Message == [type : {"match_found", "question_batch"}, call : Tokens]

\* i, n: the loop of a broadcast is at cell i of n.  steady: the two players of
\* the pair, less those who left the match, got another connection or none, or
\* whose send queue was full since.
Call == [step : {"idle", "create", "self", "other", "fetch", "found", "refetch", "questions",
                 "position", "update", "failed", "done"},
         user : Users \cup {NoUser}, opponent : Users \cup {NoUser},
         pos : -1..(MaxEnqueues - 1), i : Nat, n : Nat, steady : SUBSET Users]

Slice == [cells : Seq(Users), len : Nat]

TypeOK ==
  /\ QueueTypeOK
  /\ call \in [Tokens -> Call]
  /\ online \subseteq Users
  /\ members \in [Tokens -> Slice]
  /\ inbox \in [Users -> Seq(Message)]
  /\ drops \in 0..MaxDrops

Init ==
  /\ QueueInit
  /\ call = [t \in Tokens |-> [step |-> "idle", user |-> NoUser, opponent |-> NoUser,
                               pos |-> -1, i |-> 0, n |-> 0, steady |-> {}]]
  /\ online = {}
  /\ members = [t \in Tokens |-> [cells |-> <<>>, len |-> 0]]
  /\ inbox = [u \in Users |-> <<>>]
  /\ drops = 0

-----------------------------------------------------------------------------
(* The hub *)

\* What u is no longer to be counted on for, in the matches of S.
Unsteady(u, S) == [t \in Tokens |-> [call[t] EXCEPT !.steady = IF t \in S THEN @ \ {u} ELSE @]]

\* RegisterConnection; an older connection of the user is closed.
Connect(u) ==
  /\ \/ u \notin online /\ UNCHANGED <<call, drops>>
     \/ u \in online /\ drops < MaxDrops /\ drops' = drops + 1 /\ call' = Unsteady(u, Tokens)
  /\ online' = online \cup {u}
  /\ UNCHANGED <<queueVars, members, inbox>>

\* The users in a slice.
Held(m) == {m.cells[k] : k \in 1..m.len}

\* append(users[:k], users[k+1:]...): the cells behind u move down in place.
Without(m, u) ==
  LET k == CHOOSE j \in 1..m.len : m.cells[j] = u
  IN  IF u \notin Held(m) THEN m
      ELSE [cells |-> [j \in DOMAIN m.cells |-> IF j \in k..(m.len - 1) THEN m.cells[j + 1] ELSE m.cells[j]],
            len |-> m.len - 1]

\* append(users, u), unless u is there: into the cell past the end if there is one.
With(m, u) ==
  IF u \in Held(m) THEN m
  ELSE [cells |-> IF m.len < Len(m.cells) THEN [m.cells EXCEPT ![m.len + 1] = u] ELSE Append(m.cells, u),
        len |-> m.len + 1]

\* UnregisterConnection: the user leaves every match.  Its queue entries stay.
Disconnect(u) ==
  /\ u \in online
  /\ drops < MaxDrops
  /\ drops' = drops + 1
  /\ online' = online \ {u}
  /\ members' = [t \in Tokens |-> Without(members[t], u)]
  /\ call' = Unsteady(u, Tokens)
  /\ UNCHANGED <<queueVars, inbox>>

\* handleLeaveMatch.
LeaveMatch(u, t) ==
  /\ u \in online \cap Held(members[t])
  /\ members' = [members EXCEPT ![t] = Without(members[t], u)]
  /\ call' = Unsteady(u, {t})
  /\ UNCHANGED <<queueVars, online, inbox, drops>>

\* SendToUser within call t, which goes on to the state next: the message is
\* queued, or there is no connection or no room, an error nobody looks at.
SendToUser(t, u, type, next) ==
  \/ /\ u \in online
     /\ inbox' = [inbox EXCEPT ![u] = Append(@, [type |-> type, call |-> t])]
     /\ call' = [call EXCEPT ![t] = next]
  \/ /\ call' = [call EXCEPT ![t] = [next EXCEPT !.steady = @ \ {u}]]
     /\ UNCHANGED inbox

\* BroadcastToMatch fetches the slice of the match ...
FetchSlice(t, from, loop, next) ==
  /\ call[t].step = from
  /\ call' = [call EXCEPT ![t] = IF members[t].len = 0 THEN [@ EXCEPT !.step = next]
                                 ELSE [@ EXCEPT !.step = loop, !.i = 1, !.n = members[t].len]]
  /\ UNCHANGED <<queueVars, online, members, inbox, drops>>

\* ... and sends to whoever is in the cell its loop has come to.
SendToCell(t, loop, type, next) ==
  /\ call[t].step = loop
  /\ SendToUser(t, members[t].cells[call[t].i], type,
                IF call[t].i = call[t].n THEN [call[t] EXCEPT !.step = next, !.i = 0, !.n = 0]
                ELSE [call[t] EXCEPT !.i = @ + 1])
  /\ UNCHANGED <<queueVars, online, members, drops>>

-----------------------------------------------------------------------------
(* handleJoinQueue *)

Goto(t, step) == call' = [call EXCEPT ![t].step = step]

\* The handler takes an empty category for "general" and calls Enqueue.  With
\* a pair in hand it goes on to create the match.
JoinQueue(u, c) ==
  /\ u \in online
  /\ Enqueue(u, normalizeCategory(c))
  /\ \/ /\ pairs' = pairs
        /\ call' = [call EXCEPT ![nextToken].step = "position", ![nextToken].user = u]
     \/ \E p \in pairs' \ pairs :
          call' = [call EXCEPT ![nextToken] =
                     [step |-> "create", user |-> u, opponent |-> p.Player2.UserID, pos |-> -1,
                      i |-> 0, n |-> 0, steady |-> online \cap {u, p.Player2.UserID}]]
  /\ UNCHANGED <<online, members, inbox, drops>>

\* CreateRandomMatch; on an error only the caller hears of it, if it can.
CreateRandomMatch(t) ==
  /\ call[t].step = "create"
  /\ Goto(t, "self") \/ Goto(t, "failed")
  /\ UNCHANGED <<queueVars, online, members, inbox, drops>>

\* JoinMatch for the caller, who is Player1 of the pair.
JoinSelf(t) ==
  /\ call[t].step = "self"
  /\ members' = [members EXCEPT ![t] = With(members[t], call[t].user)]
  /\ Goto(t, "other")
  /\ UNCHANGED <<queueVars, online, inbox, drops>>

\* Mutant: Player1 is joined, the caller, whoever it is.
Player1(t) == call[t].user

\* The player of the pair who is not the caller.
Opponent(t) == call[t].opponent

JoinOther(t) ==
  /\ call[t].step = "other"
  /\ members' = [members EXCEPT ![t] = With(members[t], Opponent(t))]
  /\ Goto(t, "fetch")
  /\ UNCHANGED <<queueVars, online, inbox, drops>>

BroadcastFound(t) ==
  \/ FetchSlice(t, "fetch", "found", "refetch")
  \/ SendToCell(t, "found", "match_found", "refetch")

\* sendQuestions broadcasts to the match.
SendQuestions(t) ==
  \/ FetchSlice(t, "refetch", "questions", "done")
  \/ SendToCell(t, "questions", "question_batch", "done")

\* Mutant: the count starts at one.
PositionFromOne(t) ==
  IF \E w \in waiting : w.QueueToken = t THEN 1..Cardinality(waiting) ELSE {-1}

\* What GetPosition may return: the index of the token in the iteration
\* order of the map, which Go leaves open, or -1 when it is not there.
GetPosition(t) ==
  IF \E w \in waiting : w.QueueToken = t THEN 0..(Cardinality(waiting) - 1) ELSE {-1}

\* No pair: the position is read, after Enqueue released the queue's lock.
ReadPosition(t) ==
  /\ call[t].step = "position"
  /\ \E p \in GetPosition(t) :
       call' = [call EXCEPT ![t].step = "update", ![t].pos = p]
  /\ UNCHANGED <<queueVars, online, members, inbox, drops>>

\* The caller is told its position, if it can be.
SendUpdate(t) ==
  /\ call[t].step = "update"
  /\ Goto(t, "done")
  /\ UNCHANGED <<queueVars, online, members, inbox, drops>>

\* handleCancelQueue: Dequeue of whatever token the client names.
CancelQueue(t) ==
  /\ online # {}
  /\ Dequeue(t)
  /\ UNCHANGED <<call, online, members, inbox, drops>>

-----------------------------------------------------------------------------

CallStep(t) ==
  CreateRandomMatch(t) \/ JoinSelf(t) \/ JoinOther(t) \/ BroadcastFound(t)
    \/ SendQuestions(t) \/ ReadPosition(t) \/ SendUpdate(t)

Next ==
  \/ \E u \in Users : \/ Connect(u) \/ Disconnect(u)
                      \/ \E c \in Categories : JoinQueue(u, c)
                      \/ \E t \in Tokens : LeaveMatch(u, t)
  \/ \E t \in Tokens : CallStep(t) \/ CancelQueue(t)

Spec == Init /\ [][Next]_vars

-----------------------------------------------------------------------------
(* Properties *)

\* Where u has a message of the given type about match t.
Sent(u, type, t) == {i \in DOMAIN inbox[u] : inbox[u][i] = [type |-> type, call |-> t]}

Served(u, t) == Sent(u, "match_found", t) # {} /\ Sent(u, "question_batch", t) # {}

ServedOnce(u, t) ==
  \E i, j \in DOMAIN inbox[u] :
    Sent(u, "match_found", t) = {i} /\ Sent(u, "question_batch", t) = {j}

(***************************************************************************)
(* Nobody outside a pair is sent its match_found or its questions, and     *)
(* nobody the questions before a match_found, at any point of the handler. *)
(* When the handler has finished, each player of the pair who stayed       *)
(* connected and in the match, and had room in its send queue, was sent    *)
(* both, whatever the other player, other pairings and other connections   *)
(* did meanwhile; each once if both stayed.  If the other one left while   *)
(* a broadcast was walking the members, the one who stayed may get its     *)
(* message twice.                                                          *)
(***************************************************************************)
SteadyPairIsServed ==
  \A t \in Tokens, u \in Users :
    /\ \A i \in Sent(u, "match_found", t), j \in Sent(u, "question_batch", t) : i < j
    /\ Sent(u, "match_found", t) \cup Sent(u, "question_batch", t) # {}
         => u \in {call[t].user, call[t].opponent}
    /\ call[t].step = "done" /\ u \in call[t].steady => Served(u, t)
    /\ call[t].step = "done" /\ u \in call[t].steady
         /\ call[t].steady = {call[t].user, call[t].opponent} => ServedOnce(u, t)
=============================================================================
