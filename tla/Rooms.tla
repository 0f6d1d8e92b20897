-------------------------------- MODULE Rooms --------------------------------
(***************************************************************************)
(* Private rooms: RoomManager (internal/match/room.go), the HTTP handler   *)
(* that creates a room (internal/match/http.go) and the WebSocket handler  *)
(* that joins one and starts its match (handleJoinPrivate in               *)
(* internal/match/handler.go).                                             *)
(*                                                                         *)
(* The manager's mutex makes JoinRoom and StartRoom one step each.         *)
(* CreateRoom is two: it tests a code under the read lock and inserts the  *)
(* room under the write lock later.  handleJoinPrivate keeps the pointer   *)
(* JoinRoom returned, reads the room through it without the lock, and asks *)
(* for it again by code to start it.  A room is its pointer here, and a    *)
(* match is named by the call of handleJoinPrivate that creates it.        *)
(*                                                                         *)
(* Of the hub (pkg/http/ws/hub.go) it takes who is connected and who is in *)
(* a match.  Users connect, disconnect and leave a match at any moment; a  *)
(* host makes its room by HTTP and need not be connected at all.           *)
(***************************************************************************)
EXTENDS Integers, Sequences, FiniteSets

CONSTANTS Users, Guests,   \* user ids, and those of guests
          Codes,           \* room codes (900000 in the code)
          RoomIds,         \* bound: calls of CreateRoom
          Joins,           \* bound: calls of handleJoinPrivate
          MaxDrops,        \* bound: users disconnecting or leaving a match
          DistinctDraws,   \* two rooms being created never draw the same code
          NoRoom, NoMatch, NoUser, NoCode

ASSUME RoomsAssumption ==
  /\ Guests \subseteq Users
  /\ DistinctDraws \in BOOLEAN
  /\ MaxDrops \in Nat
  /\ NoRoom \notin RoomIds
  /\ NoMatch \notin Joins
  /\ NoUser \notin Users
  /\ NoCode \notin Codes

VARIABLES
  rooms,    \* RoomManager.rooms: code -> room
  room,     \* the PrivateRoom objects
  join,     \* the calls of handleJoinPrivate
  match,    \* players each CreatePrivateMatch was given ({}: no such match)
  members,  \* Hub.matches: users in each match
  online,   \* Hub.connections: users with a connection
  drops,    \* how often a user has disconnected or left a match
  todo,     \* users the current loop of each handleJoinPrivate has left
  batch,    \* users whose connection took each match's question_batch
  told      \* [user, match] of every private_room_update a connection took

hubVars == <<members, online, drops>>
sentVars == <<batch, told>>
vars == <<rooms, room, join, match, hubVars, todo, sentVars>>

\* validateCreateRoomRequest admits no other value.
MaxPlayers == 2

Room == [step : {"none", "coded", "made"}, code : Codes \cup {NoCode}, HostID : Users \cup {NoUser},
         Players : UNION {[1..n -> Users] : n \in 0..MaxPlayers},
         Status : {"waiting", "starting"}, MatchID : Joins \cup {NoMatch}]

JoinCall == [step : {"idle", "check", "create", "start", "enter", "joining", "questions", "sending",
                    "update", "done"},
             user : Users \cup {NoUser}, code : Codes \cup {NoCode}, room : RoomIds \cup {NoRoom}]

TypeOK ==
  /\ rooms \in [Codes -> RoomIds \cup {NoRoom}]
  /\ room \in [RoomIds -> Room]
  /\ join \in [Joins -> JoinCall]
  /\ match \in [Joins -> SUBSET Users]
  /\ members \in [Joins -> SUBSET Users]
  /\ online \in SUBSET Users
  /\ drops \in 0..MaxDrops
  /\ todo \in [Joins -> SUBSET Users]
  /\ batch \in [Joins -> SUBSET Users]
  /\ told \subseteq [user : Users, match : Joins \cup {NoMatch}]

Init ==
  /\ rooms = [c \in Codes |-> NoRoom]
  /\ room = [r \in RoomIds |-> [step |-> "none", code |-> NoCode, HostID |-> NoUser,
                                Players |-> <<>>, Status |-> "waiting", MatchID |-> NoMatch]]
  /\ join = [j \in Joins |-> [step |-> "idle", user |-> NoUser, code |-> NoCode, room |-> NoRoom]]
  /\ match = [j \in Joins |-> {}]
  /\ members = [j \in Joins |-> {}]
  /\ online = {}
  /\ drops = 0
  /\ todo = [j \in Joins |-> {}]
  /\ batch = [j \in Joins |-> {}]
  /\ told = {}

-----------------------------------------------------------------------------
(* RoomManager *)

\* The test of generateRoomCode, under the read lock.
Unused(c) ==
  /\ rooms[c] = NoRoom
  /\ DistinctDraws => \A r \in RoomIds : room[r].step = "coded" => room[r].code # c

\* CreateRoom by a registered host, up to the code: an HTTP request, which needs no
\* connection to the hub.
GenerateRoomCode(r, u, c) ==
  /\ room[r].step = "none"
  /\ u \notin Guests
  /\ Unused(c)
  /\ room' = [room EXCEPT ![r] = [step |-> "coded", code |-> c, HostID |-> u, Players |-> <<u>>,
                                  Status |-> "waiting", MatchID |-> NoMatch]]
  /\ UNCHANGED <<rooms, join, match, hubVars, todo, sentVars>>

\* The rest of CreateRoom: the room goes into the map under its code.
CreateRoom(r) ==
  /\ room[r].step = "coded"
  /\ rooms' = [rooms EXCEPT ![room[r].code] = r]
  /\ room' = [room EXCEPT ![r].step = "made"]
  /\ UNCHANGED <<join, match, hubVars, todo, sentVars>>

Seated(r) == {room[r].Players[i] : i \in DOMAIN room[r].Players}

\* Mutant: JoinRoom does not count the players.
AcceptsWhenFull(r, u) == r # NoRoom /\ room[r].Status = "waiting" /\ u \notin Seated(r)

\* The checks of JoinRoom.  The host is one of the players.
Accepts(r, u) ==
  /\ r # NoRoom
  /\ room[r].Status = "waiting"
  /\ Len(room[r].Players) < MaxPlayers
  /\ u \notin Seated(r)

-----------------------------------------------------------------------------
(* handleJoinPrivate *)

Goto(j, step) == join' = [join EXCEPT ![j].step = step]

\* JoinRoom under the lock; a refusal is answered with an error message.  Calls
\* of one user may overlap: its old connection can still be in a handler.
JoinRoom(j, u, c) ==
  /\ join[j].step = "idle"
  /\ u \in online
  /\ \/ /\ Accepts(rooms[c], u)
        /\ room' = [room EXCEPT ![rooms[c]].Players = Append(@, u)]
        /\ join' = [join EXCEPT ![j] = [step |-> "check", user |-> u, code |-> c, room |-> rooms[c]]]
     \/ /\ ~Accepts(rooms[c], u)
        /\ join' = [join EXCEPT ![j] = [step |-> "done", user |-> u, code |-> c, room |-> NoRoom]]
        /\ UNCHANGED room
  /\ UNCHANGED <<rooms, match, hubVars, todo, sentVars>>

\* Whether this join is to start the match, read without the lock.
CheckRoom(j) ==
  LET r == room[join[j].room]
  IN  /\ join[j].step = "check"
      /\ Goto(j, IF Len(r.Players) = 2 /\ join[j].user # r.HostID /\ r.MatchID = NoMatch
                   THEN "create" ELSE "update")
      /\ UNCHANGED <<rooms, room, match, hubVars, todo, sentVars>>

\* Mutant: an error of CreatePrivateMatch does not end the handler.
GoOnWithoutMatch(j) == Goto(j, "start") /\ UNCHANGED match

\* CreatePrivateMatch fails (database, question service): error to the caller.
CreateFails(j) == Goto(j, "done") /\ UNCHANGED match

\* CreatePrivateMatch for the players copied from the room.
CreatePrivateMatch(j) ==
  /\ join[j].step = "create"
  /\ \/ /\ match' = [match EXCEPT ![j] = Seated(join[j].room)]
        /\ Goto(j, "start")
     \/ CreateFails(j)
  /\ UNCHANGED <<rooms, room, hubVars, todo, sentVars>>

\* The checks of StartRoom on whatever room has the code now.
Startable(r) == r # NoRoom /\ room[r].Status = "waiting" /\ Len(room[r].Players) >= 2

\* Mutant: the room keeps its waiting status.
StillWaiting(r, j) == room' = [room EXCEPT ![r].MatchID = j]

\* What StartRoom sets.
Started(r, j) == room' = [room EXCEPT ![r].MatchID = j, ![r].Status = "starting"]

StartRoom(j) ==
  LET r == rooms[join[j].code]
  IN  /\ join[j].step = "start"
      /\ \/ Startable(r) /\ Started(r, j) /\ Goto(j, "enter")
         \/ ~Startable(r) /\ Goto(j, "done") /\ UNCHANGED room
      /\ UNCHANGED <<rooms, match, hubVars, todo, sentVars>>

\* The players now in the room this call joined are to enter the match.
EnterMatch(j) ==
  /\ join[j].step = "enter"
  /\ todo' = [todo EXCEPT ![j] = Seated(join[j].room)]
  /\ Goto(j, "joining")
  /\ UNCHANGED <<rooms, room, match, hubVars, sentVars>>

\* One JoinMatch; nothing asks whether the player is connected.
JoinMatch(j, u) ==
  /\ join[j].step = "joining"
  /\ u \in todo[j]
  /\ members' = [members EXCEPT ![j] = @ \cup {u}]
  /\ todo' = [todo EXCEPT ![j] = @ \ {u}]
  /\ Goto(j, IF todo[j] = {u} THEN "questions" ELSE "joining")
  /\ UNCHANGED <<rooms, room, match, online, drops, sentVars>>

\* sendQuestions begins its broadcast with whoever is in the match by then.
SendQuestions(j) ==
  /\ join[j].step = "questions"
  /\ todo' = [todo EXCEPT ![j] = members[j]]
  /\ Goto(j, IF members[j] = {} THEN "update" ELSE "sending")
  /\ UNCHANGED <<rooms, room, match, hubVars, sentVars>>

\* SendToUser: a user without a connection gets nothing, and a closed connection
\* or a full queue takes nothing.
Deliver(u, taken) == (u \in online /\ taken) \/ UNCHANGED sentVars

\* One turn of the broadcast: a user who is gone may still have its turn or be
\* skipped (Matchmaking and Hub go through the array cell by cell).
SendBatch(j, u) ==
  /\ join[j].step = "sending"
  /\ u \in todo[j]
  /\ Deliver(u, batch' = [batch EXCEPT ![j] = @ \cup {u}] /\ UNCHANGED told)
  /\ todo' = [todo EXCEPT ![j] = @ \ {u}]
  /\ Goto(j, IF todo[j] = {u} THEN "update" ELSE "sending")
  /\ UNCHANGED <<rooms, room, match, hubVars>>

\* private_room_update, to the user who joined.
SendUpdate(j) ==
  /\ join[j].step = "update"
  /\ Deliver(join[j].user,
             /\ told' = told \cup {[user |-> join[j].user, match |-> room[join[j].room].MatchID]}
             /\ UNCHANGED batch)
  /\ Goto(j, "done")
  /\ UNCHANGED <<rooms, room, match, hubVars, todo>>

-----------------------------------------------------------------------------
(* The hub *)

\* RegisterConnection, for a user who has none.
Connect(u) ==
  /\ u \notin online
  /\ online' = online \cup {u}
  /\ UNCHANGED <<rooms, room, join, match, members, drops, todo, sentVars>>

\* UnregisterConnection: the user leaves every match too.
Disconnect(u) ==
  /\ u \in online
  /\ drops < MaxDrops
  /\ drops' = drops + 1
  /\ online' = online \ {u}
  /\ members' = [j \in Joins |-> members[j] \ {u}]
  /\ UNCHANGED <<rooms, room, join, match, todo, sentVars>>

\* handleLeaveMatch.
LeaveMatch(u, j) ==
  /\ u \in online \cap members[j]
  /\ drops < MaxDrops
  /\ drops' = drops + 1
  /\ members' = [members EXCEPT ![j] = @ \ {u}]
  /\ UNCHANGED <<rooms, room, join, match, online, todo, sentVars>>

-----------------------------------------------------------------------------

JoinStep(j) ==
  CheckRoom(j) \/ CreatePrivateMatch(j) \/ StartRoom(j) \/ EnterMatch(j)
    \/ SendQuestions(j) \/ SendUpdate(j) \/ \E u \in Users : JoinMatch(j, u) \/ SendBatch(j, u)

Next ==
  \/ \E r \in RoomIds : \/ \E u \in Users, c \in Codes : GenerateRoomCode(r, u, c)
                        \/ CreateRoom(r)
  \/ \E j \in Joins : \/ \E u \in Users, c \in Codes : JoinRoom(j, u, c)
                      \/ JoinStep(j)
  \/ \E u \in Users : Connect(u) \/ Disconnect(u) \/ \E j \in Joins : LeaveMatch(u, j)

Spec == Init /\ [][Next]_vars

\* A handler that has begun runs to its end.
FairSpec == Spec /\ \A j \in Joins : WF_vars(JoinStep(j))

-----------------------------------------------------------------------------
(* Properties *)

(***************************************************************************)
(* A started room has a match of its own, created for exactly the players  *)
(* that sit in it, although StartRoom looks the room up by code a second   *)
(* time and long after JoinRoom seated the second player.                  *)
(***************************************************************************)
StartedRoomHasItsMatch ==
  \A r \in RoomIds : room[r].Status = "starting" =>
    /\ room[r].MatchID # NoMatch
    /\ match[room[r].MatchID] = Seated(r)
    /\ Cardinality(Seated(r)) = 2
    /\ \A s \in RoomIds \ {r} : room[s].MatchID # room[r].MatchID

(***************************************************************************)
(* The questions of a match go to nobody but the players it was created    *)
(* for, and a joiner is only told of a match it plays in: the handler      *)
(* reads room.Players, room.MatchID and the match's members again after    *)
(* the lock is released, when others may have changed the room, left the   *)
(* match or lost their connection.  (That each player gets them is not so: *)
(* a host who made the room by HTTP may have no connection to get them on.)*)
(***************************************************************************)
QuestionsReachPlayersOnly ==
  /\ \A j \in Joins : batch[j] \subseteq match[j]
  /\ \A t \in told : t.match # NoMatch /\ t.user \in match[t.match]

(***************************************************************************)
(* A room whose second seat is taken does not hang on a handler: its match *)
(* starts, or the join that took the seat ends with an error.              *)
(***************************************************************************)
FullRoomResolved ==
  \A r \in RoomIds : (Len(room[r].Players) = MaxPlayers) ~>
    \/ room[r].Status = "starting"
    \/ \E j \in Joins : join[j].room = r /\ join[j].step = "done" /\ match[j] = {}
=============================================================================
