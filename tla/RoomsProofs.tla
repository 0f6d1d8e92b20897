----------------------------- MODULE RoomsProofs -----------------------------
(***************************************************************************)
(* Proofs about module Rooms, for any number of users, codes, rooms and    *)
(* overlapping joins: the types; and, as long as two rooms being created   *)
(* do not draw the same code, that a started room has a match of its own   *)
(* and that its questions and updates reach its players only.              *)
(***************************************************************************)
EXTENDS Rooms, FiniteSetTheorems, SequenceTheorems, TLAPS

-----------------------------------------------------------------------------
(* Types *)

Seats == UNION {[1..n -> Users] : n \in 0..MaxPlayers}

\* The rooms of the steps between JoinRoom and the end of the handler.
Active == {"check", "create", "start", "enter", "joining", "questions", "sending", "update"}

\* A call that goes on has its user, its code and its room; a created room has its
\* code and its host.
Begun ==
  /\ \A j \in Joins : join[j].step \in Active =>
       join[j].user \in Users /\ join[j].code \in Codes /\ join[j].room \in RoomIds
  /\ \A r \in RoomIds : room[r].step # "none" => room[r].code \in Codes /\ room[r].HostID \in Users

TypeInv == TypeOK /\ Begun

\* A list of players is a sequence of one or two users, or empty.
LEMMA SeatsAreSeqs ==
  ASSUME NEW s \in Seats
  PROVE  s \in Seq(Users) /\ Len(s) \in 0..MaxPlayers /\ DOMAIN s = 1..Len(s)
<1>1. PICK n \in 0..MaxPlayers : s \in [1..n -> Users]
  BY DEF Seats
<1>2. n \in Nat
  BY <1>1 DEF MaxPlayers
<1> QED
  BY <1>1, <1>2

\* Short sequences of users are lists of players.
LEMMA SeqsAreSeats ==
  ASSUME NEW s \in Seq(Users), Len(s) <= MaxPlayers
  PROVE  s \in Seats
<1>1. s \in [1..Len(s) -> Users]
  OBVIOUS
<1>2. Len(s) \in 0..MaxPlayers
  <2>1. Len(s) \in Nat /\ MaxPlayers \in Nat
    BY DEF MaxPlayers
  <2> QED
    BY <2>1
<1> QED
  BY <1>1, <1>2 DEF Seats

\* A seat is taken only while there is one.
LEMMA AppendSeat ==
  ASSUME NEW s \in Seats, NEW u \in Users, Len(s) < MaxPlayers
  PROVE  Append(s, u) \in Seats
<1>1. s \in Seq(Users) /\ Len(s) \in Nat
  BY SeatsAreSeqs
<1>2. Append(s, u) \in Seq(Users) /\ Len(Append(s, u)) <= MaxPlayers
  BY <1>1 DEF MaxPlayers
<1> QED
  BY <1>2, SeqsAreSeats

\* The players of a room are users.
LEMMA SeatedType ==
  ASSUME TypeOK, NEW r \in RoomIds
  PROVE  Seated(r) \subseteq Users
<1>1. room[r].Players \in Seats
  BY DEF TypeOK, Room, Seats
<1>2. room[r].Players \in Seq(Users)
  BY <1>1, SeatsAreSeqs
<1> QED
  BY <1>2 DEF Seated

\* Every initial state has the types.
LEMMA InitTypes == Init => TypeInv
<1> SUFFICES ASSUME Init PROVE TypeInv
  OBVIOUS
<1>1. <<>> \in Seats
  <2>1. <<>> \in Seq(Users) /\ Len(<<>>) <= MaxPlayers
    BY DEF MaxPlayers
  <2> QED
    BY <2>1, SeqsAreSeats
<1>2. TypeOK
  BY <1>1, RoomsAssumption DEF Init, TypeOK, Room, Seats, JoinCall
<1> QED
  BY <1>2 DEF TypeInv, Begun, Init, Active

\* The two steps of CreateRoom keep the types.
LEMMA CreateTypes ==
  ASSUME TypeInv, NEW r \in RoomIds,
         CreateRoom(r) \/ \E u \in Users, c \in Codes : GenerateRoomCode(r, u, c)
  PROVE  TypeInv'
<1>1. ASSUME NEW u \in Users, NEW c \in Codes, GenerateRoomCode(r, u, c) PROVE TypeInv'
  <2> DEFINE new == [step |-> "coded", code |-> c, HostID |-> u, Players |-> <<u>>,
                     Status |-> "waiting", MatchID |-> NoMatch]
  <2>1. <<u>> \in Seats
    <3>1. <<u>> \in Seq(Users) /\ Len(<<u>>) <= MaxPlayers
      BY DEF MaxPlayers
    <3> QED
      BY <3>1, SeqsAreSeats
  <2>2. new \in Room
    BY <2>1 DEF Room, Seats
  <2>3. room' = [room EXCEPT ![r] = new]
    BY <1>1 DEF GenerateRoomCode, hubVars, sentVars
  <2>4. room' \in [RoomIds -> Room]
    BY <2>2, <2>3 DEF TypeInv, TypeOK
  <2>5. Begun'
    BY <1>1, <2>3 DEF GenerateRoomCode, TypeInv, TypeOK, Begun, hubVars, sentVars
  <2> QED
    BY <1>1, <2>4, <2>5 DEF GenerateRoomCode, TypeInv, TypeOK, hubVars, sentVars
<1>2. CASE CreateRoom(r)
  <2>1. room[r] \in Room /\ room[r].code \in Codes
    BY <1>2 DEF CreateRoom, TypeInv, TypeOK, Begun, hubVars, sentVars
  <2>2. room' \in [RoomIds -> Room] /\ rooms' \in [Codes -> RoomIds \cup {NoRoom}]
    BY <1>2, <2>1 DEF CreateRoom, TypeInv, TypeOK, Room, hubVars, sentVars
  <2>3. Begun'
    BY <1>2, <2>1 DEF CreateRoom, TypeInv, TypeOK, Begun, Room, hubVars, sentVars
  <2> QED
    BY <1>2, <2>2, <2>3 DEF CreateRoom, TypeInv, TypeOK, hubVars, sentVars
<1> QED
  BY <1>1, <1>2

\* JoinRoom, accepted or refused, keeps the types.
LEMMA JoinRoomTypes ==
  ASSUME TypeInv, NEW j \in Joins, NEW u \in Users, NEW c \in Codes, JoinRoom(j, u, c)
  PROVE  TypeInv'
<1>1. CASE /\ Accepts(rooms[c], u)
           /\ room' = [room EXCEPT ![rooms[c]].Players = Append(@, u)]
           /\ join' = [join EXCEPT ![j] = [step |-> "check", user |-> u, code |-> c, room |-> rooms[c]]]
  <2> DEFINE r == rooms[c]
  <2>1. r \in RoomIds /\ room[r] \in Room
    BY <1>1 DEF Accepts, TypeInv, TypeOK
  <2>2. room[r].Players \in Seats
    BY <2>1 DEF Room, Seats
  <2>3. Append(room[r].Players, u) \in Seats
    BY <1>1, <2>2, AppendSeat DEF Accepts
  <2>4. room' \in [RoomIds -> Room]
    BY <1>1, <2>1, <2>3 DEF TypeInv, TypeOK, Room, Seats
  <2>5. join' \in [Joins -> JoinCall]
    BY <1>1, <2>1 DEF TypeInv, TypeOK, JoinCall
  <2>6. Begun'
    BY <1>1, <2>1 DEF TypeInv, TypeOK, Begun, Room
  <2> QED
    BY <2>4, <2>5, <2>6 DEF JoinRoom, TypeInv, TypeOK, hubVars, sentVars
<1>2. CASE /\ join' = [join EXCEPT ![j] = [step |-> "done", user |-> u, code |-> c, room |-> NoRoom]]
           /\ UNCHANGED room
  <2>1. join' \in [Joins -> JoinCall]
    BY <1>2 DEF TypeInv, TypeOK, JoinCall
  <2>2. Begun'
    BY <1>2 DEF TypeInv, TypeOK, Begun, Active
  <2> QED
    BY <1>2, <2>1, <2>2 DEF JoinRoom, TypeInv, TypeOK, hubVars, sentVars
<1> QED
  BY <1>1, <1>2 DEF JoinRoom

\* A step that only moves a call on keeps the types of the calls.
LEMMA GotoTypes ==
  ASSUME TypeInv, NEW j \in Joins, NEW step \in Active \cup {"done"}, Goto(j, step),
         join[j].step \in Active
  PROVE  /\ join' \in [Joins -> JoinCall]
         /\ \A i \in Joins : join'[i].step \in Active =>
              join'[i].user \in Users /\ join'[i].code \in Codes /\ join'[i].room \in RoomIds
<1>1. join[j] \in JoinCall
  BY DEF TypeInv, TypeOK
<1> QED
  BY <1>1 DEF Goto, TypeInv, TypeOK, Begun, JoinCall, Active

\* Moving on keeps the types when what is written has its type.
LEMMA MoveTypes ==
  ASSUME TypeInv, NEW j \in Joins, NEW step \in Active \cup {"done"}, Goto(j, step),
         join[j].step \in Active, UNCHANGED <<rooms, room, online, drops>>,
         match' \in [Joins -> SUBSET Users], members' \in [Joins -> SUBSET Users],
         todo' \in [Joins -> SUBSET Users], batch' \in [Joins -> SUBSET Users],
         told' \subseteq [user : Users, match : Joins \cup {NoMatch}]
  PROVE  TypeInv'
<1>1. TypeOK'
  BY GotoTypes DEF TypeInv, TypeOK
<1>2. Begun'
  BY GotoTypes DEF TypeInv, Begun
<1> QED
  BY <1>1, <1>2 DEF TypeInv

\* The rest of handleJoinPrivate keeps the types.
LEMMA JoinStepTypes ==
  ASSUME TypeInv, NEW j \in Joins, JoinStep(j)
  PROVE  TypeInv'
<1> USE DEF hubVars, sentVars
<1>1. join[j].step \in Active
  BY DEF JoinStep, CheckRoom, CreatePrivateMatch, StartRoom, EnterMatch, JoinMatch, SendQuestions,
     SendBatch, SendUpdate, Active
<1>2. join[j].user \in Users /\ join[j].code \in Codes /\ join[j].room \in RoomIds
  BY <1>1 DEF TypeInv, Begun
<1>3. Seated(join[j].room) \subseteq Users
  BY <1>2, SeatedType DEF TypeInv
<1>4. /\ match \in [Joins -> SUBSET Users] /\ members \in [Joins -> SUBSET Users]
      /\ todo \in [Joins -> SUBSET Users] /\ batch \in [Joins -> SUBSET Users]
      /\ told \subseteq [user : Users, match : Joins \cup {NoMatch}]
  BY DEF TypeInv, TypeOK
<1>5. CASE CheckRoom(j)
  <2>1. PICK step \in Active \cup {"done"} : Goto(j, step)
    BY <1>5 DEF CheckRoom, Active
  <2>2. UNCHANGED <<rooms, room, match, members, online, drops, todo, batch, told>>
    BY <1>5 DEF CheckRoom
  <2> QED
    BY <1>1, <1>4, <2>1, <2>2, MoveTypes
<1>6. CASE CreatePrivateMatch(j)
  <2>1. PICK step \in Active \cup {"done"} : Goto(j, step)
    BY <1>6 DEF CreatePrivateMatch, CreateFails, Active
  <2>2. UNCHANGED <<rooms, room, members, online, drops, todo, batch, told>>
    BY <1>6 DEF CreatePrivateMatch
  <2>3. match' \in [Joins -> SUBSET Users]
    BY <1>3, <1>4, <1>6 DEF CreatePrivateMatch, CreateFails
  <2> QED
    BY <1>1, <1>4, <2>1, <2>2, <2>3, MoveTypes
<1>7. CASE StartRoom(j) /\ UNCHANGED room
  <2>1. PICK step \in Active \cup {"done"} : Goto(j, step)
    BY <1>7 DEF StartRoom, Active
  <2>2. UNCHANGED <<rooms, room, match, members, online, drops, todo, batch, told>>
    BY <1>7 DEF StartRoom
  <2> QED
    BY <1>1, <1>4, <2>1, <2>2, MoveTypes
<1>8. CASE StartRoom(j) /\ Goto(j, "enter") /\ Startable(rooms[join[j].code]) /\ Started(rooms[join[j].code], j)
  <2> DEFINE r == rooms[join[j].code]
  <2>1. r \in RoomIds /\ room[r] \in Room
    BY <1>2, <1>8 DEF Startable, TypeInv, TypeOK
  <2>2. room' \in [RoomIds -> Room]
    BY <1>8, <2>1 DEF Started, TypeInv, TypeOK, Room
  <2>3. \A s \in RoomIds : /\ room'[s].step = room[s].step
                           /\ room'[s].code = room[s].code
                           /\ room'[s].HostID = room[s].HostID
    BY <1>8, <2>1 DEF Started, TypeInv, TypeOK, Room
  <2>4. /\ join' \in [Joins -> JoinCall]
        /\ \A i \in Joins : join'[i].step \in Active =>
             join'[i].user \in Users /\ join'[i].code \in Codes /\ join'[i].room \in RoomIds
    BY <1>1, <1>8, GotoTypes DEF Active
  <2> QED
    BY <1>8, <2>2, <2>3, <2>4 DEF StartRoom, TypeInv, TypeOK, Begun
<1>9. CASE EnterMatch(j) \/ SendQuestions(j)
  <2>1. PICK step \in Active \cup {"done"} : Goto(j, step)
    BY <1>9 DEF EnterMatch, SendQuestions, Active
  <2>2. UNCHANGED <<rooms, room, match, members, online, drops, batch, told>>
    BY <1>9 DEF EnterMatch, SendQuestions
  <2>3. todo' \in [Joins -> SUBSET Users]
    BY <1>3, <1>4, <1>9 DEF EnterMatch, SendQuestions
  <2> QED
    BY <1>1, <1>4, <2>1, <2>2, <2>3, MoveTypes
<1>10. ASSUME NEW u \in Users, JoinMatch(j, u) PROVE TypeInv'
  <2>1. PICK step \in Active \cup {"done"} : Goto(j, step)
    BY <1>10 DEF JoinMatch, Active
  <2>2. UNCHANGED <<rooms, room, match, online, drops, batch, told>>
    BY <1>10 DEF JoinMatch
  <2>3. members' \in [Joins -> SUBSET Users] /\ todo' \in [Joins -> SUBSET Users]
    BY <1>4, <1>10 DEF JoinMatch
  <2> QED
    BY <1>1, <1>4, <2>1, <2>2, <2>3, MoveTypes
<1>11. ASSUME NEW u \in Users, SendBatch(j, u) PROVE TypeInv'
  <2>1. PICK step \in Active \cup {"done"} : Goto(j, step)
    BY <1>11 DEF SendBatch, Active
  <2>2. UNCHANGED <<rooms, room, match, members, online, drops, told>>
    BY <1>11 DEF SendBatch, Deliver
  <2>3. batch' \in [Joins -> SUBSET Users] /\ todo' \in [Joins -> SUBSET Users]
    BY <1>4, <1>11 DEF SendBatch, Deliver
  <2> QED
    BY <1>1, <1>4, <2>1, <2>2, <2>3, MoveTypes
<1>12. CASE SendUpdate(j)
  <2>1. Goto(j, "done") /\ "done" \in Active \cup {"done"}
    BY <1>12 DEF SendUpdate
  <2>2. UNCHANGED <<rooms, room, match, members, online, drops, todo, batch>>
    BY <1>12 DEF SendUpdate, Deliver
  <2>3. room[join[j].room].MatchID \in Joins \cup {NoMatch}
    BY <1>2 DEF TypeInv, TypeOK, Room
  <2>4. told' \subseteq [user : Users, match : Joins \cup {NoMatch}]
    BY <1>2, <1>4, <1>12, <2>3 DEF SendUpdate, Deliver
  <2> QED
    BY <1>1, <1>4, <2>1, <2>2, <2>4, MoveTypes
<1>13. StartRoom(j) => \/ UNCHANGED room
                       \/ Goto(j, "enter") /\ Startable(rooms[join[j].code]) /\ Started(rooms[join[j].code], j)
  BY DEF StartRoom
<1> QED
  BY <1>5, <1>6, <1>7, <1>8, <1>9, <1>10, <1>11, <1>12, <1>13 DEF JoinStep

\* Coming, going and leaving a match keep the types.
LEMMA HubTypes ==
  ASSUME TypeInv, NEW u \in Users, Connect(u) \/ Disconnect(u) \/ \E j \in Joins : LeaveMatch(u, j)
  PROVE  TypeInv'
<1>1. UNCHANGED <<rooms, room, join, match, todo, batch, told>>
  BY DEF Connect, Disconnect, LeaveMatch, sentVars
<1>2. online' \in SUBSET Users /\ members' \in [Joins -> SUBSET Users]
  BY DEF Connect, Disconnect, LeaveMatch, TypeInv, TypeOK
<1>3. drops' \in 0..MaxDrops
  BY RoomsAssumption DEF Connect, Disconnect, LeaveMatch, TypeInv, TypeOK
<1> QED
  BY <1>1, <1>2, <1>3 DEF TypeInv, TypeOK, Begun

\* Every step keeps the types.
LEMMA StepTypes == TypeInv /\ [Next]_vars => TypeInv'
<1> SUFFICES ASSUME TypeInv, [Next]_vars PROVE TypeInv'
  OBVIOUS
<1>1. CASE UNCHANGED vars
  BY <1>1 DEF vars, hubVars, sentVars, TypeInv, TypeOK, Begun
<1>2. ASSUME NEW r \in RoomIds,
             CreateRoom(r) \/ \E u \in Users, c \in Codes : GenerateRoomCode(r, u, c)
      PROVE  TypeInv'
  BY <1>2, CreateTypes
<1>3. ASSUME NEW j \in Joins, NEW u \in Users, NEW c \in Codes, JoinRoom(j, u, c) PROVE TypeInv'
  BY <1>3, JoinRoomTypes
<1>4. ASSUME NEW j \in Joins, JoinStep(j) PROVE TypeInv'
  BY <1>4, JoinStepTypes
<1>5. ASSUME NEW u \in Users, Connect(u) \/ Disconnect(u) \/ \E j \in Joins : LeaveMatch(u, j)
      PROVE  TypeInv'
  BY <1>5, HubTypes
<1> QED
  BY <1>1, <1>2, <1>3, <1>4, <1>5 DEF Next

\* The variables keep their types: no room ever seats more than two players.
THEOREM TypeCorrect == Spec => []TypeOK
<1>1. TypeInv => TypeOK
  BY DEF TypeInv
<1> QED
  BY <1>1, InitTypes, StepTypes, PTL DEF Spec

-----------------------------------------------------------------------------
(* A room, its code, its seats and its match *)

\* The code of a room that is being created is free and no other room's, and a
\* call finds the room it joined when it asks for it by code again.
CodesHeld ==
  /\ \A r \in RoomIds : room[r].step = "coded" =>
       /\ rooms[room[r].code] = NoRoom
       /\ \A s \in RoomIds \ {r} : room[s].step = "coded" => room[s].code # room[r].code
  /\ \A c \in Codes : rooms[c] # NoRoom => room[rooms[c]].step = "made"
  /\ \A j \in Joins : join[j].step \in Active => rooms[join[j].code] = join[j].room

\* The host has the first seat and the user of a call that goes on the second.
SeatsTaken ==
  /\ \A r \in RoomIds :
       /\ room[r].step = "none" => room[r].Players = <<>> /\ room[r].Status = "waiting"
       /\ room[r].step # "none" => Len(room[r].Players) \in {1, 2}
                                     /\ room[r].Players[1] = room[r].HostID
       /\ Len(room[r].Players) = 2 => room[r].Players[1] # room[r].Players[2]
       /\ room[r].Status = "waiting" => room[r].MatchID = NoMatch
  /\ \A j \in Joins : join[j].step \in Active =>
       /\ Len(room[join[j].room].Players) = 2
       /\ join[j].user = room[join[j].room].Players[2]

Occupants(players) == {players[i] : i \in DOMAIN players}

\* The call j has created its match and started the room.
After == {"enter", "joining", "questions", "sending", "update", "done"}

CallMatch(j) ==
  /\ join[j].step \in {"start", "enter"} => match[j] = Occupants(room[join[j].room].Players)
  /\ join[j].step \in After \ {"done"} => room[join[j].room].Status = "starting"
  /\ join[j].step \in {"joining", "sending"} => todo[j] \subseteq match[j]
  /\ members[j] \cup batch[j] \subseteq match[j]
  /\ join[j].step \notin After => members[j] = {} /\ batch[j] = {}

CallsMatch == \A j \in Joins : CallMatch(j)

RoomsMatch ==
  \A r \in RoomIds : room[r].Status = "starting" =>
    LET j == room[r].MatchID
    IN  /\ j \in Joins
        /\ join[j].step \in After
        /\ join[j].room = r
        /\ match[j] = Occupants(room[r].Players)
        /\ Len(room[r].Players) = 2

ToldMatch ==
  \A t \in told : /\ t.match \in Joins
                  /\ join[t.match].step \in After
                  /\ t.user \in match[t.match]

MatchesMade == CallsMatch /\ RoomsMatch /\ ToldMatch

RoomInv == CodesHeld /\ SeatsTaken /\ MatchesMade

\* A call the step passes by keeps its match, if its room keeps its players and
\* does not go back to waiting.
LEMMA CallKept ==
  ASSUME NEW j \in Joins, CallMatch(j), UNCHANGED <<join[j], match[j], members[j], todo[j], batch[j]>>,
         join[j].step \in Active => LET r == join[j].room
                                    IN  /\ room'[r].Players = room[r].Players
                                        /\ room[r].Status = "starting" => room'[r].Status = "starting"
  PROVE  CallMatch(j)'
<1>1. join[j].step \in {"start", "enter"} \cup (After \ {"done"}) => join[j].step \in Active
  BY DEF Active, After
<1> QED
  BY <1>1 DEF CallMatch, Occupants

\* There are no rooms and no calls yet.
LEMMA InitRoom == Init => RoomInv
  BY DEF Init, RoomInv, CodesHeld, SeatsTaken, MatchesMade, CallsMatch, CallMatch, RoomsMatch, ToldMatch, Active,
     After

\* The second player of a room gets the second seat.
LEMMA SecondSeat ==
  ASSUME NEW s \in Seq(Users), Len(s) = 1, NEW u \in Users
  PROVE  Len(Append(s, u)) = 2 /\ Append(s, u)[1] = s[1] /\ Append(s, u)[2] = u
<1>1. 1 \in 1..Len(s) /\ 1 + 1 = 2
  OBVIOUS
<1>2. /\ \A i \in 1..Len(s) : Append(s, u)[i] = s[i]
      /\ Len(Append(s, u)) = Len(s) + 1
      /\ Append(s, u)[Len(s) + 1] = u
  BY AppendProperties
<1> QED
  BY <1>1, <1>2

\* A new room disturbs no other.
LEMMA GenerateRoomCodeRoom ==
  ASSUME TypeInv, RoomInv, DistinctDraws, NEW r \in RoomIds, NEW u \in Users, NEW c \in Codes,
         GenerateRoomCode(r, u, c)
  PROVE  RoomInv'
<1> DEFINE new == [step |-> "coded", code |-> c, HostID |-> u, Players |-> <<u>>,
                   Status |-> "waiting", MatchID |-> NoMatch]
<1>1. /\ room[r].step = "none"
      /\ \A s \in RoomIds : room'[s] = IF s = r THEN new ELSE room[s]
      /\ UNCHANGED <<rooms, join, match, members, todo, batch, told>>
  BY DEF GenerateRoomCode, TypeInv, TypeOK, hubVars, sentVars
<1>2. rooms[c] = NoRoom /\ \A s \in RoomIds : room[s].step = "coded" => room[s].code # c
  BY DEF GenerateRoomCode, Unused
<1>3. \A d \in Codes : rooms[d] # NoRoom => rooms[d] \in RoomIds /\ rooms[d] # r
  BY <1>1 DEF TypeInv, TypeOK, RoomInv, CodesHeld
<1>4. CodesHeld'
  BY <1>1, <1>2, <1>3 DEF RoomInv, CodesHeld
<1>5. \A j \in Joins : join[j].step \in Active => join[j].room \in RoomIds /\ join[j].room # r
  BY <1>1 DEF TypeInv, Begun, RoomInv, SeatsTaken
<1>6. SeatsTaken'
  BY <1>1, <1>5 DEF RoomInv, SeatsTaken
<1>7. \A s \in RoomIds : room'[s].Status = "starting" => s # r
  BY <1>1
<1>8. CallsMatch'
  BY <1>1, <1>5 DEF RoomInv, MatchesMade, CallsMatch, CallMatch, Occupants, Active, After
<1>9. RoomsMatch'
  BY <1>1, <1>7 DEF RoomInv, MatchesMade, RoomsMatch, Occupants
<1>10. ToldMatch'
  BY <1>1 DEF RoomInv, MatchesMade, ToldMatch, After
<1> QED
  BY <1>4, <1>6, <1>8, <1>9, <1>10 DEF RoomInv, MatchesMade

\* Entering a room under its free code disturbs no other.
LEMMA CreateRoomRoom ==
  ASSUME TypeInv, RoomInv, NEW r \in RoomIds, CreateRoom(r)
  PROVE  RoomInv'
<1> DEFINE d == room[r].code
<1>1. /\ room[r].step = "coded"
      /\ room[r] \in Room
      /\ d \in Codes
      /\ rooms[d] = NoRoom
      /\ \A c \in Codes : rooms'[c] = IF c = d THEN r ELSE rooms[c]
      /\ UNCHANGED <<join, match, members, todo, batch, told>>
  BY DEF CreateRoom, TypeInv, TypeOK, Begun, RoomInv, CodesHeld, hubVars, sentVars
<1>2. \A s \in RoomIds :
        /\ room'[s].step = IF s = r THEN "made" ELSE room[s].step
        /\ room'[s].code = room[s].code
        /\ room'[s].HostID = room[s].HostID
        /\ room'[s].Players = room[s].Players
        /\ room'[s].Status = room[s].Status
        /\ room'[s].MatchID = room[s].MatchID
  BY <1>1 DEF CreateRoom, TypeInv, TypeOK, Room, hubVars, sentVars
<1>3. \A j \in Joins : join[j].step \in Active => join[j].code \in Codes /\ join[j].room \in RoomIds
  BY DEF TypeInv, Begun
<1>4. CodesHeld'
  <2>1. \A s \in RoomIds \ {r} : room[s].step = "coded" => room[s].code \in Codes /\ room[s].code # d
    BY <1>1 DEF TypeInv, Begun, RoomInv, CodesHeld
  <2>2. \A s \in RoomIds : room'[s].step = "coded" =>
          /\ rooms'[room'[s].code] = NoRoom
          /\ \A q \in RoomIds \ {s} : room'[q].step = "coded" => room'[q].code # room'[s].code
    BY <1>1, <1>2, <2>1 DEF RoomInv, CodesHeld
  <2>3. \A c \in Codes : rooms'[c] # NoRoom => room'[rooms'[c]].step = "made"
    <3>1. \A c \in Codes : rooms[c] # NoRoom => rooms[c] \in RoomIds
      BY DEF TypeInv, TypeOK
    <3> QED
      BY <1>1, <1>2, <3>1 DEF RoomInv, CodesHeld
  <2>4. \A j \in Joins : join'[j].step \in Active => rooms'[join'[j].code] = join'[j].room
    BY <1>1, <1>3, RoomsAssumption DEF RoomInv, CodesHeld
  <2> QED
    BY <2>2, <2>3, <2>4 DEF CodesHeld
<1>5. SeatsTaken'
  BY <1>1, <1>2, <1>3 DEF RoomInv, SeatsTaken
<1>6. CallsMatch'
  <2>1. \A j \in Joins : join[j].step \in Active =>
          /\ room'[join[j].room].Players = room[join[j].room].Players
          /\ room'[join[j].room].Status = room[join[j].room].Status
    BY <1>2, <1>3
  <2> QED
    BY <1>1, <2>1, CallKept DEF RoomInv, MatchesMade, CallsMatch
<1>7. RoomsMatch' /\ ToldMatch'
  BY <1>1, <1>2 DEF RoomInv, MatchesMade, RoomsMatch, ToldMatch, Occupants, After
<1> QED
  BY <1>4, <1>5, <1>6, <1>7 DEF RoomInv, MatchesMade

\* Rooms and news stay true of their matches as long as calls past the start of
\* their room stay there.
LEMMA MatchesStay ==
  ASSUME RoomInv, UNCHANGED <<room, told>>,
         \A i \in Joins : join[i].step \in After =>
           join'[i].step \in After /\ join'[i].room = join[i].room /\ match'[i] = match[i]
  PROVE  RoomsMatch' /\ ToldMatch'
<1>1. RoomsMatch'
  <2>1. SUFFICES ASSUME NEW r \in RoomIds, room[r].Status = "starting"
                 PROVE  LET j == room[r].MatchID
                        IN  /\ j \in Joins
                            /\ join'[j].step \in After
                            /\ join'[j].room = r
                            /\ match'[j] = Occupants(room[r].Players)
                            /\ Len(room[r].Players) = 2
    BY DEF RoomsMatch, Occupants
  <2>2. LET j == room[r].MatchID
        IN  /\ j \in Joins
            /\ join[j].step \in After
            /\ join[j].room = r
            /\ match[j] = Occupants(room[r].Players)
            /\ Len(room[r].Players) = 2
    BY <2>1 DEF RoomInv, MatchesMade, RoomsMatch
  <2> QED
    BY <2>2
<1>2. ToldMatch'
  <2>1. SUFFICES ASSUME NEW t \in told
                 PROVE  t.match \in Joins /\ join'[t.match].step \in After /\ t.user \in match'[t.match]
    BY DEF ToldMatch
  <2>2. t.match \in Joins /\ join[t.match].step \in After /\ t.user \in match[t.match]
    BY DEF RoomInv, MatchesMade, ToldMatch
  <2> QED
    BY <2>2
<1> QED
  BY <1>1, <1>2

\* Taking the second seat: no other call is under way in that room yet.
LEMMA JoinRoomRoom ==
  ASSUME TypeInv, RoomInv, NEW j \in Joins, NEW u \in Users, NEW c \in Codes, JoinRoom(j, u, c)
  PROVE  RoomInv'
<1>1. join[j].step = "idle" /\ UNCHANGED <<rooms, match, members, todo, batch, told>>
  BY DEF JoinRoom, hubVars, sentVars
<1>2. \A t \in told : t.match # j
  BY <1>1 DEF RoomInv, MatchesMade, RoomsMatch, ToldMatch, After
<1>3. \A r \in RoomIds : room[r].Status = "starting" => room[r].MatchID # j
  BY <1>1 DEF RoomInv, MatchesMade, RoomsMatch, ToldMatch, After
<1>4. members[j] = {} /\ batch[j] = {}
  BY <1>1 DEF RoomInv, MatchesMade, CallsMatch, CallMatch, After
<1>5. CASE ~Accepts(rooms[c], u)
  <2>1. \A i \in Joins : join'[i] = IF i = j
          THEN [step |-> "done", user |-> u, code |-> c, room |-> NoRoom] ELSE join[i]
    BY <1>5 DEF JoinRoom, TypeInv, TypeOK, hubVars, sentVars
  <2>2. UNCHANGED room
    BY <1>5 DEF JoinRoom, hubVars, sentVars
  <2>3. CodesHeld' /\ SeatsTaken'
    BY <1>1, <2>1, <2>2 DEF RoomInv, CodesHeld, SeatsTaken, Active
  <2>4. CallsMatch'
    <3>1. ASSUME NEW i \in Joins, i # j PROVE CallMatch(i)'
      <4>1. CallMatch(i) /\ join'[i] = join[i]
        BY <2>1, <3>1 DEF RoomInv, MatchesMade, CallsMatch
      <4> QED
        BY <1>1, <2>2, <4>1, CallKept
    <3>2. join'[j].step = "done" /\ "done" \in After
      BY <2>1 DEF After
    <3>3. CallMatch(j)'
      BY <1>1, <1>4, <3>2 DEF CallMatch
    <3> QED
      BY <3>1, <3>3 DEF CallsMatch
  <2>5. RoomsMatch' /\ ToldMatch'
    <3>1. \A i \in Joins : join[i].step \in After =>
            join'[i].step \in After /\ join'[i].room = join[i].room /\ match'[i] = match[i]
      BY <1>1, <2>1 DEF After
    <3> QED
      BY <1>1, <2>2, <3>1, MatchesStay
  <2> QED
    BY <2>3, <2>4, <2>5 DEF RoomInv, MatchesMade
<1>6. CASE Accepts(rooms[c], u)
  <2> DEFINE q == rooms[c]
  <2>1. /\ q \in RoomIds
        /\ room[q] \in Room
        /\ room[q].step = "made"
        /\ room[q].Status = "waiting"
        /\ u \notin Seated(q)
    BY <1>6 DEF Accepts, TypeInv, TypeOK, RoomInv, CodesHeld
  <2>2. room[q].Players \in Seq(Users) /\ Len(room[q].Players) = 1 /\ room[q].Players[1] # u
    <3>1. room[q].Players \in Seats
      BY <2>1 DEF Room, Seats
    <3>2. room[q].Players \in Seq(Users) /\ DOMAIN room[q].Players = 1..Len(room[q].Players)
      BY <3>1, SeatsAreSeqs
    <3>3. Len(room[q].Players) = 1
      BY <1>6, <2>1 DEF Accepts, MaxPlayers, RoomInv, SeatsTaken
    <3> QED
      BY <2>1, <3>2, <3>3 DEF Seated
  <2>3. /\ room' = [room EXCEPT ![q].Players = Append(@, u)]
        /\ join' = [join EXCEPT ![j] = [step |-> "check", user |-> u, code |-> c, room |-> q]]
    BY <1>6 DEF JoinRoom, hubVars, sentVars
  <2>4. \A i \in Joins : join'[i] = IF i = j
          THEN [step |-> "check", user |-> u, code |-> c, room |-> q] ELSE join[i]
    BY <2>3 DEF TypeInv, TypeOK
  <2>5. \A s \in RoomIds :
          /\ room'[s].step = room[s].step
          /\ room'[s].code = room[s].code
          /\ room'[s].HostID = room[s].HostID
          /\ room'[s].Players = IF s = q THEN Append(room[q].Players, u) ELSE room[s].Players
          /\ room'[s].Status = room[s].Status
          /\ room'[s].MatchID = room[s].MatchID
    BY <2>1, <2>3 DEF TypeInv, TypeOK, Room
  <2>6. \A i \in Joins : join[i].step \in Active => join[i].room \in RoomIds /\ join[i].room # q
    BY <2>2 DEF TypeInv, Begun, RoomInv, SeatsTaken
  <2>7. CodesHeld'
    <3>1. \A d \in Codes : rooms[d] # NoRoom => rooms[d] \in RoomIds
      BY DEF TypeInv, TypeOK
    <3> QED
      BY <1>1, <2>4, <2>5, <3>1 DEF RoomInv, CodesHeld
  <2>8. SeatsTaken'
    <3> DEFINE seats == Append(room[q].Players, u)
    <3>1. Len(seats) = 2 /\ seats[1] = room[q].Players[1] /\ seats[2] = u
      BY <2>2, SecondSeat
    <3> HIDE DEF seats
    <3>2. \A s \in RoomIds : room'[s].Players = IF s = q THEN seats ELSE room[s].Players
      BY <2>5 DEF seats
    <3>3. ASSUME NEW s \in RoomIds
          PROVE  /\ room'[s].step = "none" => room'[s].Players = <<>> /\ room'[s].Status = "waiting"
                 /\ room'[s].step # "none" => Len(room'[s].Players) \in {1, 2}
                                                /\ room'[s].Players[1] = room'[s].HostID
                 /\ Len(room'[s].Players) = 2 => room'[s].Players[1] # room'[s].Players[2]
                 /\ room'[s].Status = "waiting" => room'[s].MatchID = NoMatch
      BY <2>1, <2>2, <2>5, <3>1, <3>2 DEF RoomInv, SeatsTaken
    <3>4. ASSUME NEW i \in Joins, join'[i].step \in Active
          PROVE  /\ Len(room'[join'[i].room].Players) = 2
                 /\ join'[i].user = room'[join'[i].room].Players[2]
      BY <2>1, <2>4, <2>6, <3>1, <3>2, <3>4 DEF RoomInv, SeatsTaken
    <3> QED
      BY <3>3, <3>4 DEF SeatsTaken
  <2>9. MatchesMade'
    <3>1. \A s \in RoomIds \ {q} : room'[s].Players = room[s].Players
      BY <2>5
    <3>2. ASSUME NEW i \in Joins, i # j
          PROVE  /\ join'[i] = join[i]
                 /\ join[i].step \in Active => room'[join[i].room].Players = room[join[i].room].Players
                                               /\ room'[join[i].room].Status = room[join[i].room].Status
      BY <2>4, <2>5, <2>6, <3>1, <3>2
    <3>3. join'[j].step = "check"
      BY <2>4
    <3>4. CallsMatch'
      <4>1. ASSUME NEW i \in Joins, i # j PROVE CallMatch(i)'
        BY <1>1, <3>2, <4>1, CallKept DEF RoomInv, MatchesMade, CallsMatch
      <4>2. CallMatch(j)'
        BY <1>1, <1>4, <3>3 DEF CallMatch, After
      <4> QED
        BY <4>1, <4>2 DEF CallsMatch
    <3>5. \A s \in RoomIds : room'[s].Status = "starting" => s # q
      BY <2>1, <2>5
    <3>6. RoomsMatch' /\ ToldMatch'
      BY <1>1, <1>2, <1>3, <2>5, <3>1, <3>2, <3>5 DEF RoomInv, MatchesMade, RoomsMatch, ToldMatch,
         Occupants, After
    <3> QED
      BY <3>4, <3>6 DEF MatchesMade
  <2> QED
    BY <2>7, <2>8, <2>9 DEF RoomInv
<1> QED
  BY <1>5, <1>6

\* Moving a call on changes its step alone.
LEMMA GotoMoves ==
  ASSUME TypeInv, NEW j \in Joins, NEW step, Goto(j, step)
  PROVE  /\ join'[j].step = step
         /\ \A i \in Joins : /\ i # j => join'[i] = join[i]
                             /\ join'[i].user = join[i].user
                             /\ join'[i].code = join[i].code
                             /\ join'[i].room = join[i].room
<1>1. join[j] \in JoinCall
  BY DEF TypeInv, TypeOK
<1> QED
  BY <1>1 DEF Goto, TypeInv, TypeOK, JoinCall

\* The room of a call that goes on is in the map, full, and its user is not the host.
LEMMA ActiveRoom ==
  ASSUME TypeInv, RoomInv, NEW j \in Joins, join[j].step \in Active
  PROVE  LET r == join[j].room
         IN  /\ r \in RoomIds
             /\ rooms[join[j].code] = r
             /\ Len(room[r].Players) = 2
             /\ join[j].user = room[r].Players[2]
             /\ join[j].user # room[r].HostID
             /\ join[j].user \in Occupants(room[r].Players)
             /\ room[r].Status = "waiting" <=> room[r].MatchID = NoMatch
             /\ room[r].Status \in {"waiting", "starting"}
<1> DEFINE r == join[j].room
<1>1. r \in RoomIds /\ join[j].code \in Codes
  BY DEF TypeInv, Begun
<1>2. rooms[join[j].code] = r /\ room[r].step = "made"
  BY <1>1, RoomsAssumption DEF RoomInv, CodesHeld
<1>3. Len(room[r].Players) = 2 /\ join[j].user = room[r].Players[2]
  BY DEF RoomInv, SeatsTaken
<1>4. join[j].user # room[r].HostID
  BY <1>1, <1>2, <1>3 DEF RoomInv, SeatsTaken
<1>5. room[r].Players \in Seats /\ room[r].Status \in {"waiting", "starting"}
  BY <1>1 DEF TypeInv, TypeOK, Room, Seats
<1>6. 2 \in DOMAIN room[r].Players
  BY <1>3, <1>5, SeatsAreSeqs
<1>7. room[r].Status = "starting" => room[r].MatchID \in Joins
  BY <1>1 DEF RoomInv, MatchesMade, RoomsMatch
<1>8. room[r].Status = "waiting" => room[r].MatchID = NoMatch
  BY <1>1 DEF RoomInv, SeatsTaken
<1> QED
  BY <1>1, <1>2, <1>3, <1>4, <1>5, <1>6, <1>7, <1>8, RoomsAssumption DEF Occupants

\* A call that goes on disturbs neither codes nor seats.
LEMMA MovingKeepsSeats ==
  ASSUME TypeInv, RoomInv, NEW j \in Joins, NEW step, Goto(j, step), join[j].step \in Active,
         UNCHANGED <<rooms, room>>
  PROVE  CodesHeld' /\ SeatsTaken'
<1>1. \A i \in Joins : join'[i].step \in Active => join[i].step \in Active
  BY GotoMoves
<1>2. CodesHeld'
  BY <1>1, GotoMoves DEF RoomInv, CodesHeld
<1>3. SeatsTaken'
  BY <1>1, GotoMoves DEF RoomInv, SeatsTaken
<1> QED
  BY <1>2, <1>3

\* A call that has not started its room yet is no room's match.
LEMMA NotAfter ==
  ASSUME RoomInv, NEW j \in Joins, join[j].step \notin After
  PROVE  /\ members[j] = {} /\ batch[j] = {}
         /\ \A r \in RoomIds : room[r].Status = "starting" => room[r].MatchID # j
         /\ \A t \in told : t.match # j
  BY DEF RoomInv, MatchesMade, CallsMatch, CallMatch, RoomsMatch, ToldMatch, After

\* CheckRoom: without a match to create, the room has been started.
LEMMA CheckRoomRoom ==
  ASSUME TypeInv, RoomInv, NEW j \in Joins, CheckRoom(j)
  PROVE  RoomInv'
<1>1. /\ join[j].step = "check"
      /\ UNCHANGED <<rooms, room, match, members, todo, batch, told>>
  BY DEF CheckRoom, hubVars, sentVars
<1>2. join[j].step \in Active /\ join[j].step \notin After
  BY <1>1 DEF Active, After
<1>3. PICK step \in {"create", "update"} :
        Goto(j, step) /\ (step = "update" => room[join[j].room].Status = "starting")
  BY <1>2, ActiveRoom DEF CheckRoom
<1>4. CodesHeld' /\ SeatsTaken'
  BY <1>1, <1>2, <1>3, MovingKeepsSeats
<1>5. CallsMatch'
  <2>1. ASSUME NEW i \in Joins, i # j PROVE join'[i] = join[i]
    BY <1>3, <2>1, GotoMoves
  <2>2. /\ join'[j].step = "create" \/ (join'[j].step = "update" /\ room[join[j].room].Status = "starting")
        /\ join'[j].room = join[j].room
        /\ batch[j] = {}
    BY <1>2, <1>3, GotoMoves, NotAfter
  <2> QED
    BY <1>1, <2>1, <2>2 DEF RoomInv, MatchesMade, CallsMatch, CallMatch, Occupants, After
<1>6. RoomsMatch' /\ ToldMatch'
  <2>1. \A i \in Joins : join[i].step \in After =>
        join'[i].step \in After /\ join'[i].room = join[i].room /\ match'[i] = match[i]
    BY <1>1, <1>2, <1>3, GotoMoves
  <2> QED
    BY <1>1, <2>1, MatchesStay
<1> QED
  BY <1>4, <1>5, <1>6 DEF RoomInv, MatchesMade

\* CreatePrivateMatch: a match for the two players seated.
LEMMA CreatePrivateMatchRoom ==
  ASSUME TypeInv, RoomInv, NEW j \in Joins, CreatePrivateMatch(j)
  PROVE  RoomInv'
<1>1. join[j].step = "create" /\ UNCHANGED <<rooms, room, members, todo, batch, told>>
  BY DEF CreatePrivateMatch, hubVars, sentVars
<1>2. join[j].step \in Active /\ join[j].step \notin After
  BY <1>1 DEF Active, After
<1>3. PICK step \in {"start", "done"} :
        /\ Goto(j, step)
        /\ match' = [match EXCEPT ![j] = Seated(join[j].room)] \/ (step = "done" /\ match' = match)
  BY DEF CreatePrivateMatch, CreateFails, hubVars, sentVars
<1>4. /\ step = "start" => match'[j] = Occupants(room[join[j].room].Players)
      /\ \A i \in Joins \ {j} : match'[i] = match[i]
  BY <1>3 DEF TypeInv, TypeOK, Seated, Occupants
<1>5. CodesHeld' /\ SeatsTaken'
  BY <1>1, <1>2, <1>3, MovingKeepsSeats
<1>6. CallsMatch'
  BY <1>1, <1>2, <1>3, <1>4, GotoMoves, NotAfter DEF RoomInv, MatchesMade, CallsMatch, CallMatch, Occupants, After
<1>7. RoomsMatch' /\ ToldMatch'
  <2>1. \A i \in Joins : join[i].step \in After =>
        join'[i].step \in After /\ join'[i].room = join[i].room /\ match'[i] = match[i]
    BY <1>2, <1>3, <1>4, GotoMoves
  <2> QED
    BY <1>1, <2>1, MatchesStay
<1> QED
  BY <1>5, <1>6, <1>7 DEF RoomInv, MatchesMade

\* StartRoom finds the room this call joined and gives it this call's match.
LEMMA StartRoomRoom ==
  ASSUME TypeInv, RoomInv, NEW j \in Joins, StartRoom(j)
  PROVE  RoomInv'
<1> DEFINE r == join[j].room
<1>1. join[j].step = "start" /\ UNCHANGED <<rooms, match, members, todo, batch, told>>
  BY DEF StartRoom, hubVars, sentVars
<1>2. join[j].step \in Active /\ join[j].step \notin After
  BY <1>1 DEF Active, After
<1>3. r \in RoomIds /\ rooms[join[j].code] = r /\ Len(room[r].Players) = 2
  BY <1>2, ActiveRoom
<1>4. CASE Goto(j, "done") /\ UNCHANGED room
  <2>1. CodesHeld' /\ SeatsTaken'
    BY <1>1, <1>2, <1>4, MovingKeepsSeats
  <2>2. CallsMatch'
    BY <1>1, <1>2, <1>4, GotoMoves, NotAfter DEF RoomInv, MatchesMade, CallsMatch, CallMatch, Occupants
  <2>3. RoomsMatch' /\ ToldMatch'
    <3>1. \A i \in Joins : join[i].step \in After =>
          join'[i].step \in After /\ join'[i].room = join[i].room /\ match'[i] = match[i]
      BY <1>1, <1>2, <1>4, GotoMoves
    <3> QED
      BY <1>1, <1>4, <3>1, MatchesStay
  <2> QED
    BY <2>1, <2>2, <2>3 DEF RoomInv, MatchesMade
<1>5. CASE Started(r, j) /\ Goto(j, "enter")
  <2>1. room[r] \in Room
    BY <1>3 DEF TypeInv, TypeOK
  <2>2. \A s \in RoomIds :
          /\ room'[s].step = room[s].step
          /\ room'[s].code = room[s].code
          /\ room'[s].HostID = room[s].HostID
          /\ room'[s].Players = room[s].Players
          /\ room'[s].Status = IF s = r THEN "starting" ELSE room[s].Status
          /\ room'[s].MatchID = IF s = r THEN j ELSE room[s].MatchID
    BY <1>3, <1>5, <2>1 DEF Started, TypeInv, TypeOK, Room
  <2>3. \A i \in Joins : join'[i].step \in Active =>
          join[i].step \in Active /\ join[i].room \in RoomIds
    BY <1>2, <1>5, GotoMoves DEF TypeInv, Begun
  <2>4. CodesHeld'
    <3>1. \A c \in Codes : rooms[c] # NoRoom => rooms[c] \in RoomIds
      BY DEF TypeInv, TypeOK
    <3> QED
      BY <1>1, <1>5, <2>2, <2>3, <3>1, GotoMoves DEF RoomInv, CodesHeld
  <2>5. SeatsTaken'
    <3>1. room[r].step # "none"
      BY <1>3 DEF RoomInv, SeatsTaken
    <3> QED
      BY <1>3, <1>5, <2>2, <2>3, <3>1, GotoMoves DEF RoomInv, SeatsTaken
  <2>6. match[j] = Occupants(room[r].Players)
    BY <1>1 DEF RoomInv, MatchesMade, CallsMatch, CallMatch
  <2>7. CallsMatch'
    <3>1. ASSUME NEW i \in Joins, i # j, join[i].step \in Active
          PROVE  /\ room'[join[i].room].Players = room[join[i].room].Players
                 /\ room[join[i].room].Status = "starting" => room'[join[i].room].Status = "starting"
      BY <2>2, <3>1 DEF TypeInv, Begun
    <3>2. join'[j].step = "enter" /\ join'[j].room = r /\ \A i \in Joins \ {j} : join'[i] = join[i]
      BY <1>5, GotoMoves
    <3>3. ASSUME NEW i \in Joins, i # j PROVE CallMatch(i)'
      BY <1>1, <3>1, <3>2, <3>3, CallKept DEF RoomInv, MatchesMade, CallsMatch
    <3>4. members[j] = {} /\ batch[j] = {}
      BY <1>2, NotAfter
    <3>5. room'[r].Status = "starting" /\ Occupants(room'[r].Players) = match[j]
      BY <1>3, <2>2, <2>6
    <3>6. CallMatch(j)'
      BY <1>1, <3>2, <3>4, <3>5 DEF CallMatch, Occupants, After
    <3> QED
      BY <3>3, <3>6 DEF CallsMatch
  <2>8. RoomsMatch'
    <3>1. SUFFICES ASSUME NEW s \in RoomIds, room'[s].Status = "starting"
                   PROVE  LET i == room'[s].MatchID
                          IN  /\ i \in Joins
                              /\ join'[i].step \in After
                              /\ join'[i].room = s
                              /\ match[i] = Occupants(room[s].Players)
                              /\ Len(room[s].Players) = 2
      BY <1>1, <2>2 DEF RoomsMatch, Occupants
    <3>2. CASE s = r
      <4>1. room'[s].MatchID = j
        BY <2>2, <3>2
      <4>2. join'[j].step = "enter" /\ join'[j].room = r /\ "enter" \in After
        BY <1>5, GotoMoves DEF After
      <4> QED
        BY <1>3, <2>6, <3>2, <4>1, <4>2
    <3>3. CASE s # r
      <4>1. room[s].Status = "starting" /\ room'[s].MatchID = room[s].MatchID
        BY <2>2, <3>1, <3>3
      <4>2. LET i == room[s].MatchID
            IN  /\ i \in Joins /\ i # j
                /\ join[i].step \in After
                /\ join[i].room = s
                /\ match[i] = Occupants(room[s].Players)
                /\ Len(room[s].Players) = 2
        BY <1>2, <4>1, NotAfter DEF RoomInv, MatchesMade, RoomsMatch
      <4> QED
        BY <1>5, <4>1, <4>2, GotoMoves
    <3> QED
      BY <3>2, <3>3
  <2>9. ToldMatch'
    <3>1. \A t \in told : /\ t.match \in Joins /\ t.match # j
                          /\ join[t.match].step \in After /\ t.user \in match[t.match]
      BY <1>2, NotAfter DEF RoomInv, MatchesMade, ToldMatch
    <3> QED
      BY <1>1, <1>5, <3>1, GotoMoves DEF ToldMatch
  <2> QED
    BY <2>4, <2>5, <2>7, <2>8, <2>9 DEF RoomInv, MatchesMade
<1> QED
  BY <1>3, <1>4, <1>5 DEF StartRoom

\* A call past the start of its room goes on, with its match's players only.
LEMMA PlaysOn ==
  ASSUME TypeInv, RoomInv, NEW j \in Joins, join[j].step \in Active \cap After,
         NEW step \in After \ {"enter", "done"}, Goto(j, step),
         UNCHANGED <<rooms, room, match, told>>,
         \A i \in Joins \ {j} : /\ members'[i] = members[i] /\ todo'[i] = todo[i]
                                /\ batch'[i] = batch[i],
         members'[j] \cup batch'[j] \subseteq match[j],
         step \in {"joining", "sending"} => todo'[j] \subseteq match[j]
  PROVE  RoomInv'
<1>1. CodesHeld' /\ SeatsTaken'
  BY MovingKeepsSeats
<1>2. /\ join'[j].step = step /\ join'[j].room = join[j].room
      /\ \A i \in Joins \ {j} : join'[i] = join[i]
  BY GotoMoves
<1>3. room[join[j].room].Status = "starting"
  BY DEF RoomInv, MatchesMade, CallsMatch, CallMatch, Active, After
<1>4. CallsMatch'
  <2>1. ASSUME NEW i \in Joins, i # j PROVE CallMatch(i)'
    <3>1. CallMatch(i) /\ UNCHANGED <<join[i], match[i], members[i], todo[i], batch[i], room>>
      BY <1>2, <2>1 DEF RoomInv, MatchesMade, CallsMatch
    <3> QED
      BY <3>1, CallKept
  <2>2. /\ join'[j].step \in After \ {"done", "enter", "start"}
        /\ room'[join'[j].room].Status = "starting"
        /\ join'[j].step \in {"joining", "sending"} => todo'[j] \subseteq match'[j]
        /\ members'[j] \cup batch'[j] \subseteq match'[j]
    BY <1>2, <1>3 DEF After
  <2> QED
    BY <2>1, <2>2 DEF CallsMatch, CallMatch, Occupants
<1>5. RoomsMatch' /\ ToldMatch'
  <2>1. \A i \in Joins : join[i].step \in After =>
          join'[i].step \in After /\ join'[i].room = join[i].room /\ match'[i] = match[i]
    BY <1>2
  <2> QED
    BY <2>1, MatchesStay
<1> QED
  BY <1>1, <1>4, <1>5 DEF RoomInv, MatchesMade

\* The players enter and the questions go out: the room has not changed since its
\* match was made, and whoever has left since is missing at most.
LEMMA PlayRoom ==
  ASSUME TypeInv, RoomInv, NEW j \in Joins,
         \/ EnterMatch(j) \/ SendQuestions(j)
         \/ \E u \in Users : JoinMatch(j, u) \/ SendBatch(j, u)
  PROVE  RoomInv'
<1> USE DEF hubVars, sentVars
<1>1. UNCHANGED <<rooms, room, match, told>>
  BY DEF EnterMatch, JoinMatch, SendQuestions, SendBatch, Deliver
<1>2. join[j].step \in Active \cap After
  BY DEF EnterMatch, JoinMatch, SendQuestions, SendBatch, Active, After
<1>3. /\ members[j] \cup batch[j] \subseteq match[j]
      /\ join[j].step \in {"joining", "sending"} => todo[j] \subseteq match[j]
      /\ join[j].step = "enter" => match[j] = Seated(join[j].room)
  BY DEF RoomInv, MatchesMade, CallsMatch, CallMatch, Seated, Occupants
<1>4. CASE EnterMatch(j)
  <2>1. /\ todo' = [todo EXCEPT ![j] = Seated(join[j].room)] /\ UNCHANGED <<members, batch>>
        /\ Goto(j, "joining") /\ join[j].step = "enter"
    BY <1>4 DEF EnterMatch
  <2>2. todo'[j] \subseteq match[j] /\ \A i \in Joins \ {j} : todo'[i] = todo[i]
    BY <1>3, <2>1 DEF TypeInv, TypeOK
  <2>3. "joining" \in After \ {"enter", "done"}
    BY DEF After
  <2> QED
    BY <1>1, <1>2, <1>3, <2>1, <2>2, <2>3, PlaysOn
<1>5. CASE SendQuestions(j)
  <2>1. /\ todo' = [todo EXCEPT ![j] = members[j]] /\ UNCHANGED <<members, batch>>
        /\ Goto(j, IF members[j] = {} THEN "update" ELSE "sending")
    BY <1>5 DEF SendQuestions
  <2>2. todo'[j] \subseteq match[j] /\ \A i \in Joins \ {j} : todo'[i] = todo[i]
    BY <1>3, <2>1 DEF TypeInv, TypeOK
  <2>3. PICK step \in After \ {"enter", "done"} : Goto(j, step)
    BY <2>1 DEF After
  <2> QED
    BY <1>1, <1>2, <1>3, <2>1, <2>2, <2>3, PlaysOn
<1>6. ASSUME NEW u \in Users, JoinMatch(j, u) PROVE RoomInv'
  <2>1. /\ join[j].step = "joining" /\ u \in todo[j]
        /\ members' = [members EXCEPT ![j] = members[j] \cup {u}]
        /\ todo' = [todo EXCEPT ![j] = todo[j] \ {u}]
        /\ UNCHANGED batch
        /\ Goto(j, IF todo[j] = {u} THEN "questions" ELSE "joining")
    BY <1>6 DEF JoinMatch
  <2>2. /\ members'[j] = members[j] \cup {u} /\ todo'[j] = todo[j] \ {u}
        /\ \A i \in Joins \ {j} : members'[i] = members[i] /\ todo'[i] = todo[i]
    BY <2>1 DEF TypeInv, TypeOK
  <2>3. PICK step \in After \ {"enter", "done"} : Goto(j, step)
    BY <2>1 DEF After
  <2>4. members'[j] \cup batch'[j] \subseteq match[j] /\ todo'[j] \subseteq match[j]
    BY <1>3, <2>1, <2>2
  <2> QED
    BY <1>1, <1>2, <2>1, <2>2, <2>3, <2>4, PlaysOn
<1>7. ASSUME NEW u \in Users, SendBatch(j, u) PROVE RoomInv'
  <2>1. /\ join[j].step = "sending" /\ u \in todo[j]
        /\ batch' = [batch EXCEPT ![j] = batch[j] \cup {u}] \/ batch' = batch
        /\ todo' = [todo EXCEPT ![j] = todo[j] \ {u}]
        /\ UNCHANGED members
        /\ Goto(j, IF todo[j] = {u} THEN "update" ELSE "sending")
    BY <1>7 DEF SendBatch, Deliver
  <2>2. /\ batch'[j] \subseteq batch[j] \cup {u} /\ todo'[j] = todo[j] \ {u}
        /\ \A i \in Joins \ {j} : batch'[i] = batch[i] /\ todo'[i] = todo[i]
    BY <2>1 DEF TypeInv, TypeOK
  <2>3. PICK step \in After \ {"enter", "done"} : Goto(j, step)
    BY <2>1 DEF After
  <2>4. members'[j] \cup batch'[j] \subseteq match[j] /\ todo'[j] \subseteq match[j]
    BY <1>3, <2>1, <2>2
  <2> QED
    BY <1>1, <1>2, <2>1, <2>2, <2>3, <2>4, PlaysOn
<1> QED
  BY <1>4, <1>5, <1>6, <1>7

\* Whoever comes, goes or leaves a match takes nothing from a room, and a match
\* gets nobody new by it.
LEMMA HubRoom ==
  ASSUME TypeInv, RoomInv, NEW u \in Users,
         Connect(u) \/ Disconnect(u) \/ \E j \in Joins : LeaveMatch(u, j)
  PROVE  RoomInv'
<1>1. UNCHANGED <<rooms, room, join, match, todo, batch, told>>
  BY DEF Connect, Disconnect, LeaveMatch, sentVars
<1>2. \A j \in Joins : members'[j] \subseteq members[j]
  BY DEF Connect, Disconnect, LeaveMatch, TypeInv, TypeOK
<1>3. CodesHeld' /\ SeatsTaken'
  BY <1>1 DEF RoomInv, CodesHeld, SeatsTaken
<1>4. CallsMatch'
  BY <1>1, <1>2 DEF RoomInv, MatchesMade, CallsMatch, CallMatch, Occupants
<1>5. RoomsMatch' /\ ToldMatch'
  BY <1>1, MatchesStay
<1> QED
  BY <1>3, <1>4, <1>5 DEF RoomInv, MatchesMade

\* SendUpdate: whatever match the room has by now, the joiner is one of its players.
LEMMA SendUpdateRoom ==
  ASSUME TypeInv, RoomInv, NEW j \in Joins, SendUpdate(j)
  PROVE  RoomInv'
<1> DEFINE r == join[j].room
<1>1. /\ join[j].step = "update"
      /\ Goto(j, "done")
      /\ UNCHANGED <<rooms, room, match, members, todo, batch>>
      /\ told' \subseteq told \cup {[user |-> join[j].user, match |-> room[r].MatchID]}
  BY DEF SendUpdate, Deliver, hubVars, sentVars
<1>2. join[j].step \in Active \cap After
  BY <1>1 DEF Active, After
<1>3. r \in RoomIds /\ room[r].Status = "starting" /\ join[j].user \in Occupants(room[r].Players)
  BY <1>1, <1>2, ActiveRoom DEF RoomInv, MatchesMade, CallsMatch, CallMatch
<1>4. /\ room[r].MatchID \in Joins
      /\ join[room[r].MatchID].step \in After
      /\ join[j].user \in match[room[r].MatchID]
  BY <1>3 DEF RoomInv, MatchesMade, RoomsMatch
<1>5. \A i \in Joins : join[i].step \in After => join'[i].step \in After
  BY <1>1, GotoMoves DEF After
<1>6. CodesHeld' /\ SeatsTaken'
  BY <1>1, <1>2, MovingKeepsSeats
<1>7. CallsMatch'
  BY <1>1, <1>5, GotoMoves DEF RoomInv, MatchesMade, CallsMatch, CallMatch, Occupants, After
<1>8. RoomsMatch'
  BY <1>1, <1>5, GotoMoves DEF RoomInv, MatchesMade, RoomsMatch, Occupants
<1>9. ToldMatch'
  BY <1>1, <1>4, <1>5 DEF RoomInv, MatchesMade, ToldMatch
<1> QED
  BY <1>6, <1>7, <1>8, <1>9 DEF RoomInv, MatchesMade

\* Every step keeps rooms, seats and matches together.
LEMMA StepRoom ==
  ASSUME DistinctDraws, TypeInv, RoomInv, [Next]_vars
  PROVE  RoomInv'
<1>1. CASE UNCHANGED vars
  <2>1. UNCHANGED <<rooms, room, join, match, members, todo, batch, told>>
    BY <1>1 DEF vars, hubVars, sentVars
  <2>2. CodesHeld' /\ SeatsTaken'
    BY <2>1 DEF RoomInv, CodesHeld, SeatsTaken
  <2>3. CallsMatch'
    BY <2>1 DEF RoomInv, MatchesMade, CallsMatch, CallMatch, Occupants
  <2>4. RoomsMatch' /\ ToldMatch'
    BY <2>1 DEF RoomInv, MatchesMade, RoomsMatch, ToldMatch, Occupants
  <2> QED
    BY <2>2, <2>3, <2>4 DEF RoomInv, MatchesMade
<1>2. ASSUME NEW r \in RoomIds, NEW u \in Users, NEW c \in Codes, GenerateRoomCode(r, u, c)
      PROVE  RoomInv'
  BY <1>2, GenerateRoomCodeRoom
<1>3. ASSUME NEW r \in RoomIds, CreateRoom(r) PROVE RoomInv'
  BY <1>3, CreateRoomRoom
<1>4. ASSUME NEW j \in Joins, NEW u \in Users, NEW c \in Codes, JoinRoom(j, u, c) PROVE RoomInv'
  BY <1>4, JoinRoomRoom
<1>5. ASSUME NEW j \in Joins, JoinStep(j) PROVE RoomInv'
  BY <1>5, CheckRoomRoom, CreatePrivateMatchRoom, StartRoomRoom, PlayRoom, SendUpdateRoom DEF JoinStep
<1>6. ASSUME NEW u \in Users, Connect(u) \/ Disconnect(u) \/ \E j \in Joins : LeaveMatch(u, j)
      PROVE  RoomInv'
  BY <1>6, HubRoom
<1> QED
  BY <1>1, <1>2, <1>3, <1>4, <1>5, <1>6 DEF Next

\* Two different players sit in a full room.
LEMMA FullRoom ==
  ASSUME TypeInv, RoomInv, NEW r \in RoomIds, Len(room[r].Players) = 2
  PROVE  Cardinality(Seated(r)) = 2
<1>1. room[r].Players \in Seats
  BY DEF TypeInv, TypeOK, Room, Seats
<1>2. DOMAIN room[r].Players = {1, 2}
  BY <1>1, SeatsAreSeqs
<1>3. Seated(r) = {room[r].Players[1], room[r].Players[2]}
  BY <1>2 DEF Seated
<1>4. room[r].Players[1] # room[r].Players[2]
  BY DEF RoomInv, SeatsTaken
<1> QED
  <2> DEFINE host == room[r].Players[1]
             guest == room[r].Players[2]
  <2>1. Cardinality({host}) = 1 /\ IsFiniteSet({host})
    BY FS_Singleton
  <2>2. guest \notin {host}
    BY <1>4
  <2>3. Cardinality({host} \cup {guest}) = 2
    <3> HIDE DEF host, guest
    <3>1. Cardinality({host} \cup {guest})
            = IF guest \in {host} THEN Cardinality({host}) ELSE Cardinality({host}) + 1
      BY <2>1, FS_AddElement
    <3> QED
      BY <2>1, <2>2, <3>1
  <2>4. Seated(r) = {host} \cup {guest}
    BY <1>3
  <2> QED
    BY <2>3, <2>4

\* As long as no two rooms being created draw one code, a started room has a match
\* of its own, made for its two players, for any number of rooms and joins: the
\* code still names the room when StartRoom looks it up again.
THEOREM StartedRoomsHaveMatches ==
  ASSUME DistinctDraws
  PROVE  Spec => []StartedRoomHasItsMatch
<1>1. TypeInv /\ RoomInv => StartedRoomHasItsMatch
  <2> SUFFICES ASSUME TypeInv, RoomInv, NEW r \in RoomIds, room[r].Status = "starting"
               PROVE  /\ room[r].MatchID # NoMatch
                      /\ match[room[r].MatchID] = Seated(r)
                      /\ Cardinality(Seated(r)) = 2
                      /\ \A s \in RoomIds \ {r} : room[s].MatchID # room[r].MatchID
    BY DEF StartedRoomHasItsMatch
  <2>1. /\ room[r].MatchID \in Joins
        /\ join[room[r].MatchID].room = r
        /\ match[room[r].MatchID] = Seated(r)
        /\ Len(room[r].Players) = 2
    BY DEF RoomInv, MatchesMade, RoomsMatch, Seated, Occupants
  <2>2. ASSUME NEW s \in RoomIds \ {r} PROVE room[s].MatchID # room[r].MatchID
    <3>1. room[s].Status \in {"waiting", "starting"}
      BY DEF TypeInv, TypeOK, Room
    <3> QED
      BY <2>1, <3>1, RoomsAssumption DEF RoomInv, MatchesMade, RoomsMatch, SeatsTaken
  <2> QED
    BY <2>1, <2>2, FullRoom, RoomsAssumption
<1>2. TypeInv /\ RoomInv /\ [Next]_vars => RoomInv'
  BY StepRoom
<1> QED
  BY <1>1, <1>2, InitTypes, StepTypes, InitRoom, PTL DEF Spec

\* Under the same assumption the questions of a match and the news of it reach
\* nobody but its players, although the handler reads the room again without the
\* lock, whoever connects, disconnects or leaves the match in between.
THEOREM QuestionsStayInTheMatch ==
  ASSUME DistinctDraws
  PROVE  Spec => []QuestionsReachPlayersOnly
<1>1. RoomInv => QuestionsReachPlayersOnly
  BY RoomsAssumption DEF RoomInv, MatchesMade, CallsMatch, CallMatch, ToldMatch, QuestionsReachPlayersOnly
<1>2. TypeInv /\ RoomInv /\ [Next]_vars => RoomInv'
  BY StepRoom
<1> QED
  BY <1>1, <1>2, InitTypes, StepTypes, InitRoom, PTL DEF Spec
=============================================================================
