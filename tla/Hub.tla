--------------------------------- MODULE Hub ---------------------------------
(***************************************************************************)
(* The WebSocket hub (pkg/http/ws/hub.go) and the life of a connection     *)
(* around it: HandleConnection (internal/match/handler.go) registers a     *)
(* connection, starts its write pump, reads until the socket fails, and    *)
(* unregisters the user.                                                   *)
(*                                                                         *)
(* Methods that hold the hub's mutex throughout are one step.              *)
(* BroadcastToMatch holds it only to fetch the slice header of the match,  *)
(* and SendToUser only to look the connection up, so a broadcast is many   *)
(* steps.  Match membership is a Go slice: removing an element shifts the  *)
(* shared backing array in place, and a broadcast that fetched the header  *)
(* before sees the shifted array.  The model keeps the arrays.             *)
(***************************************************************************)
EXTENDS Integers, Sequences, FiniteSets

CONSTANTS Users,      \* user ids
          Conns,      \* bound: Connection objects, numbered as they are opened
          Matches,    \* match ids
          Casts,      \* bound: calls of BroadcastToMatch
          SendCap,    \* capacity of a send queue (256 in the code)
          MaxAll,     \* bound: calls of BroadcastAll
          NoConn, NoUser

ASSUME HubAssumption ==
  /\ SendCap \in Nat \ {0}
  /\ MaxAll \in Nat
  /\ Conns \subseteq Nat
  /\ NoConn \notin Conns
  /\ NoUser \notin Users
  /\ Matches # {}

VARIABLES
  connections,  \* Hub.connections: user -> connection
  owner,        \* the user a connection was opened for
  closed,       \* Connection.closed (the send channel is closed with it)
  sock,         \* the WebSocket itself: "open" or "closed"
  sendCh,       \* Connection.sendCh
  reader,       \* the goroutine of HandleConnection
  writer,       \* the goroutine of WritePump
  slice,        \* Hub.matches: the slice header of each match
  arrays,       \* the backing arrays each match has had, oldest first
  joined,       \* <<match, user>> of every JoinMatch so far
  cast,         \* the calls of BroadcastToMatch
  alls          \* number of BroadcastAll calls so far

connVars == <<connections, owner, closed, sock, sendCh>>
pumpVars == <<reader, writer>>
matchVars == <<slice, arrays, joined>>
vars == <<connVars, pumpVars, matchVars, cast, alls>>

Slice == [arr : Nat, len : Nat]
CastState == [step : {"idle", "lookup", "send", "done"}, match : Matches, from : Slice,
              i : Nat, conn : Conns \cup {NoConn}, stayers : SUBSET Users, tried : SUBSET Users]

TypeOK ==
  /\ connections \in [Users -> Conns \cup {NoConn}]
  /\ owner \in [Conns -> Users \cup {NoUser}]
  /\ closed \in [Conns -> BOOLEAN]
  /\ sock \in [Conns -> {"open", "closed"}]
  /\ sendCh \in [Conns -> Seq(Casts \cup {"all"})]
  /\ \A c \in Conns : Len(sendCh[c]) <= SendCap
  /\ reader \in [Conns -> {"none", "reading", "cleanup", "done"}]
  /\ writer \in [Conns -> {"none", "running", "done"}]
  /\ slice \in [Matches -> Slice]
  /\ arrays \in [Matches -> Seq(Seq(Users \cup {NoUser}))]
  /\ joined \subseteq Matches \X Users
  /\ cast \in [Casts -> CastState]
  /\ alls \in 0..MaxAll

Init ==
  /\ connections = [u \in Users |-> NoConn]
  /\ owner = [c \in Conns |-> NoUser]
  /\ closed = [c \in Conns |-> FALSE]
  /\ sock = [c \in Conns |-> "open"]
  /\ sendCh = [c \in Conns |-> <<>>]
  /\ reader = [c \in Conns |-> "none"]
  /\ writer = [c \in Conns |-> "none"]
  /\ slice = [m \in Matches |-> [arr |-> 0, len |-> 0]]
  /\ arrays = [m \in Matches |-> <<>>]
  /\ joined = {}
  /\ cast = [k \in Casts |-> [step |-> "idle", match |-> CHOOSE m \in Matches : TRUE,
                              from |-> [arr |-> 0, len |-> 0], i |-> 0, conn |-> NoConn,
                              stayers |-> {}, tried |-> {}]]
  /\ alls = 0

-----------------------------------------------------------------------------
(* Connections *)

\* Connection.Close of the connections in S: the flag, the channel, the socket.
Close(S) ==
  /\ closed' = [c \in Conns |-> closed[c] \/ c \in S]
  /\ sock' = [c \in Conns |-> IF c \in S THEN "closed" ELSE sock[c]]

\* A user stops being continuously reachable for the broadcasts under way.
Departs(u, ms) ==
  cast' = [k \in Casts |-> [cast[k] EXCEPT !.stayers = IF cast[k].match \in ms THEN @ \ {u} ELSE @]]

\* The connection RegisterConnection finds for the user and closes.
Replaced(u) == {connections[u]} \ {NoConn}

\* HandleConnection: NewConnection, RegisterConnection, go WritePump.
Connect(c, u) ==
  /\ \A d \in Conns : reader[d] = "none" <=> d >= c
  /\ Close(Replaced(u))
  /\ connections' = [connections EXCEPT ![u] = c]
  /\ owner' = [owner EXCEPT ![c] = u]
  /\ reader' = [reader EXCEPT ![c] = "reading"]
  /\ writer' = [writer EXCEPT ![c] = "running"]
  /\ Departs(u, Matches)
  /\ UNCHANGED <<sendCh, matchVars, alls>>

\* The peer goes away, or nothing is heard for the 60 s of the read deadline.
PeerGone(c) ==
  /\ reader[c] = "reading"
  /\ sock[c] = "open"
  /\ sock' = [sock EXCEPT ![c] = "closed"]
  /\ UNCHANGED <<connections, owner, closed, sendCh, pumpVars, matchVars, cast, alls>>

\* ReadPump returns.
ReadFails(c) ==
  /\ reader[c] = "reading"
  /\ sock[c] = "closed"
  /\ reader' = [reader EXCEPT ![c] = "cleanup"]
  /\ UNCHANGED <<connVars, writer, matchVars, cast, alls>>

Members(m) == {arrays[m][slice[m].arr][i] : i \in 1..slice[m].len}

\* append(users[:i], users[i+1:]...): the tail moves down in the same array,
\* the last cell keeps its value, the header gets shorter.
Removed(a, len, i) == [j \in DOMAIN a |-> IF j \in i..(len - 1) THEN a[j + 1] ELSE a[j]]

\* Mutant: the last cell is cut off without a search for the user.
RemoveLast(u, ms) ==
  /\ slice' = [m \in Matches |-> IF m \in ms THEN [slice[m] EXCEPT !.len = @ - 1] ELSE slice[m]]
  /\ UNCHANGED arrays

\* The loop that finds the user in each of the matches ms and cuts it out.
RemoveFrom(u, ms) ==
  LET at(m) == CHOOSE i \in 1..slice[m].len : arrays[m][slice[m].arr][i] = u
      in == {m \in ms : u \in Members(m)}
  IN  /\ slice' = [m \in Matches |-> IF m \in in THEN [slice[m] EXCEPT !.len = @ - 1] ELSE slice[m]]
      /\ arrays' = [m \in Matches |->
                      IF m \in in
                        THEN [arrays[m] EXCEPT ![slice[m].arr] = Removed(@, slice[m].len, at(m))]
                        ELSE arrays[m]]

\* Mutant: the entry is deleted from the map but its connection left open.
ForgetConnection(u) ==
  /\ connections' = [connections EXCEPT ![u] = NoConn]
  /\ UNCHANGED <<closed, sock>>

\* Mutant: the connection is closed but its entry not deleted from the map.
CloseOnly(u) == Close({connections[u]} \ {NoConn}) /\ UNCHANGED connections

\* The first half of UnregisterConnection: whatever connection the user has.
DropConnection(u) ==
  /\ Close({connections[u]} \ {NoConn})
  /\ connections' = [connections EXCEPT ![u] = NoConn]

\* The cleanup of HandleConnection: UnregisterConnection(userID).
Unregister(c) ==
  /\ reader[c] = "cleanup"
  /\ reader' = [reader EXCEPT ![c] = "done"]
  /\ DropConnection(owner[c])
  /\ RemoveFrom(owner[c], Matches)
  /\ Departs(owner[c], Matches)
  /\ UNCHANGED <<owner, sendCh, writer, joined, alls>>

\* One turn of WritePump: write the next message, fail on a dead socket and
\* close it, or end when the channel is closed and drained.
WritePump(c) ==
  /\ writer[c] = "running"
  /\ \/ /\ sendCh[c] # <<>> /\ sock[c] = "open"
        /\ sendCh' = [sendCh EXCEPT ![c] = Tail(@)]
        /\ UNCHANGED <<writer, sock>>
     \/ /\ sendCh[c] # <<>> \* WriteJSON fails, on a dead socket surely
        /\ sendCh' = [sendCh EXCEPT ![c] = Tail(@)]
        /\ writer' = [writer EXCEPT ![c] = "done"]
        /\ sock' = [sock EXCEPT ![c] = "closed"]
     \/ /\ sendCh[c] = <<>> /\ closed[c]
        /\ writer' = [writer EXCEPT ![c] = "done"]
        /\ sock' = [sock EXCEPT ![c] = "closed"]
        /\ UNCHANGED sendCh
  /\ UNCHANGED <<connections, owner, closed, reader, matchVars, cast, alls>>

\* Mutant: Send does not look at the closed flag.
SendBlind(c, msg) ==
  IF Len(sendCh[c]) = SendCap THEN sendCh[c] ELSE Append(sendCh[c], msg)

\* Connection.Send: nothing is queued on a closed connection or a full queue.
Send(c, msg) ==
  IF closed[c] \/ Len(sendCh[c]) = SendCap THEN sendCh[c] ELSE Append(sendCh[c], msg)

\* BroadcastAll holds the hub's lock while it sends to every connection.
BroadcastAll ==
  /\ alls < MaxAll
  /\ alls' = alls + 1
  /\ sendCh' = [c \in Conns |->
                  IF \E u \in Users : connections[u] = c THEN Send(c, "all") ELSE sendCh[c]]
  /\ UNCHANGED <<connections, owner, closed, sock, pumpVars, matchVars, cast>>

-----------------------------------------------------------------------------
(* Matches *)

\* Capacities of a growing slice of user ids: 1, 2, 4.
Grown(a) == a \o [i \in 1..(IF a = <<>> THEN 1 ELSE Len(a)) |-> NoUser]

\* The "already joined" test of JoinMatch.
IsMember(m, u) == u \in Members(m)

\* JoinMatch: append writes into spare capacity, else into a new array.
JoinMatch(m, u) ==
  LET old == slice[m]
      a == IF old.arr = 0 THEN <<>> ELSE arrays[m][old.arr]
  IN  /\ IF IsMember(m, u)
           THEN UNCHANGED <<slice, arrays>>
           ELSE /\ slice' = [slice EXCEPT
                     ![m] = [arr |-> IF old.len < Len(a) THEN old.arr ELSE Len(arrays[m]) + 1,
                             len |-> old.len + 1]]
                /\ arrays' = [arrays EXCEPT
                     ![m] = IF old.len < Len(a)
                              THEN [@ EXCEPT ![old.arr][old.len + 1] = u]
                              ELSE Append(@, [Grown(a) EXCEPT ![old.len + 1] = u])]
      /\ joined' = joined \cup {<<m, u>>}
      /\ UNCHANGED <<connVars, pumpVars, cast, alls>>

LeaveMatch(m, u) ==
  /\ u \in Members(m)
  /\ RemoveFrom(u, {m})
  /\ Departs(u, {m})
  /\ UNCHANGED <<connVars, pumpVars, joined, alls>>

\* BroadcastToMatch fetches the slice header of the match and unlocks.
BroadcastToMatch(k, m) ==
  /\ cast[k].step = "idle"
  /\ cast' = [cast EXCEPT ![k] =
       [step |-> IF slice[m].len = 0 THEN "done" ELSE "lookup", match |-> m, from |-> slice[m],
        i |-> 1, conn |-> NoConn,
        stayers |-> {u \in Members(m) : connections[u] # NoConn}, tried |-> {}]]
  /\ UNCHANGED <<connVars, pumpVars, matchVars, alls>>

\* The cell the loop of the broadcast has come to, as it is now.
Target(k) == arrays[cast[k].match][cast[k].from.arr][cast[k].i]

\* Mutant: the loop stops one cell early.
PastLastButOne(k) == cast[k].i + 1 >= cast[k].from.len

\* The end of the loop over the slice that was fetched.
PastLast(k) == cast[k].i = cast[k].from.len

\* The loop of the broadcast goes on to the next cell.
Advance(k, tried) ==
  cast' = [cast EXCEPT ![k].step = IF PastLast(k) THEN "done" ELSE "lookup",
                       ![k].i = @ + 1, ![k].conn = NoConn, ![k].tried = tried]

\* SendToUser looks the connection up under the hub's lock.
SendLookup(k) ==
  /\ cast[k].step = "lookup"
  /\ \/ /\ connections[Target(k)] # NoConn
        /\ cast' = [cast EXCEPT ![k].step = "send", ![k].conn = connections[Target(k)]]
     \/ /\ connections[Target(k)] = NoConn
        /\ Advance(k, cast[k].tried)
  /\ UNCHANGED <<connVars, pumpVars, matchVars, alls>>

\* SendToUser sends on the connection it found, after the lock is released.
SendFound(k) ==
  /\ cast[k].step = "send"
  /\ sendCh' = [sendCh EXCEPT ![cast[k].conn] = Send(cast[k].conn, k)]
  /\ Advance(k, cast[k].tried \cup {owner[cast[k].conn]})
  /\ UNCHANGED <<connections, owner, closed, sock, pumpVars, matchVars, alls>>

-----------------------------------------------------------------------------

\* The handlers join each of the two players of a match once.
Next ==
  \/ \E c \in Conns : \/ \E u \in Users : Connect(c, u)
                      \/ PeerGone(c) \/ ReadFails(c) \/ Unregister(c) \/ WritePump(c)
  \/ \E m \in Matches, u \in Users : \/ <<m, u>> \notin joined /\ JoinMatch(m, u)
                                     \/ LeaveMatch(m, u)
  \/ \E k \in Casts : \/ \E m \in Matches : BroadcastToMatch(k, m)
                      \/ SendLookup(k) \/ SendFound(k)
  \/ BroadcastAll

Spec == Init /\ [][Next]_vars

\* The goroutines of a connection are scheduled.
FairSpec ==
  Spec /\ \A c \in Conns : WF_vars(ReadFails(c)) /\ WF_vars(Unregister(c)) /\ WF_vars(WritePump(c))

-----------------------------------------------------------------------------
(* Properties *)

(***************************************************************************)
(* The hub never hands out a connection it has closed: a registered        *)
(* connection belongs to its user and its send channel is open, through    *)
(* any interleaving of reconnects and cleanups.                            *)
(***************************************************************************)
RegisteredIsOpen ==
  \A u \in Users : connections[u] # NoConn =>
    ~closed[connections[u]] /\ owner[connections[u]] = u

(***************************************************************************)
(* Nothing is ever sent on a closed channel (a panic in Go), although      *)
(* SendToUser uses a connection it looked up before the lock was released  *)
(* and Close may run in between.                                           *)
(***************************************************************************)
NoSendAfterClose ==
  [][\A c \in Conns : closed[c] => Len(sendCh'[c]) <= Len(sendCh[c])]_vars

\* No more than two users ever joined the match.
OfTwo(m) ==
  \A t, u, v \in {w \in Users : <<m, w>> \in joined} : t = u \/ u = v \/ t = v

(***************************************************************************)
(* A broadcast to a match of two players reaches (or finds the queue full  *)
(* of) everyone who was a member with the same connection from its start   *)
(* to its end, although the array it walks is shifted by others leaving.   *)
(***************************************************************************)
StayersAreReached ==
  \A k \in Casts : cast[k].step = "done" /\ OfTwo(cast[k].match) => cast[k].stayers \subseteq cast[k].tried

(***************************************************************************)
(* A connection whose socket is dead leaves the hub, and both its          *)
(* goroutines end: no path forgets to close the channel WritePump waits on.*)
(***************************************************************************)
DeadConnectionIsReaped ==
  \A c \in Conns : (reader[c] # "none" /\ sock[c] = "closed") ~>
    /\ \A u \in Users : connections[u] # c
    /\ reader[c] = "done"
    /\ writer[c] = "done"

(***************************************************************************)
(* What RegisterConnection and the cleanup in HandleConnection say: a new  *)
(* connection replaces the old one, and the cleanup is for the connection  *)
(* that disconnected.  So a connection is closed by the hub only when its  *)
(* own socket failed or a newer connection took its place.                 *)
(***************************************************************************)
OnlyOwnCleanupCloses ==
  [][\A c \in Conns : closed'[c] /\ ~closed[c] =>
       sock[c] = "closed" \/ connections'[owner[c]] # NoConn]_vars
=============================================================================
