------------------------------ MODULE HubProofs ------------------------------
(***************************************************************************)
(* Proofs about the WebSocket hub, for any number of users, connections,   *)
(* matches and broadcasts and any capacity of the send queues: the types,  *)
(* that no closed connection is handed out and nothing is sent on a closed *)
(* channel, that a broadcast stays inside the array it walks, and that a   *)
(* broadcast to a match of two players reaches those who stay.             *)
(***************************************************************************)
EXTENDS Hub, TLAPS

Queue == Seq(Casts \cup {"all"})

ConnTypes ==
  /\ connections \in [Users -> Conns \cup {NoConn}]
  /\ owner \in [Conns -> Users \cup {NoUser}]
  /\ closed \in [Conns -> BOOLEAN]
  /\ sock \in [Conns -> {"open", "closed"}]
  /\ sendCh \in [Conns -> Queue]
  /\ \A c \in Conns : Len(sendCh[c]) <= SendCap
  /\ reader \in [Conns -> {"none", "reading", "cleanup", "done"}]
  /\ writer \in [Conns -> {"none", "running", "done"}]

\* A connection has an owner as soon as it is opened, and is open until then.
Opened ==
  \A c \in Conns : /\ reader[c] # "none" => owner[c] \in Users
                   /\ reader[c] = "none" => ~closed[c]

\* A registered connection was opened for its user, and its channel is open.
Registered ==
  \A u \in Users : connections[u] # NoConn =>
    /\ reader[connections[u]] # "none"
    /\ owner[connections[u]] = u
    /\ ~closed[connections[u]]

ConnInv == ConnTypes /\ Opened /\ Registered

\* No connection has been opened.
LEMMA InitConn == Init => ConnInv
<1> SUFFICES ASSUME Init PROVE ConnInv
  OBVIOUS
<1>1. <<>> \in Queue /\ Len(<<>>) <= SendCap
  BY HubAssumption DEF Queue
<1> QED
  BY <1>1 DEF Init, ConnInv, ConnTypes, Opened, Registered

\* What Send leaves in the queue of a connection.
LEMMA SendKeepsQueue ==
  ASSUME ConnTypes, NEW c \in Conns, NEW msg \in Casts \cup {"all"}
  PROVE  /\ Send(c, msg) \in Queue
         /\ Len(Send(c, msg)) <= SendCap
         /\ closed[c] => Send(c, msg) = sendCh[c]
<1>1. sendCh[c] \in Queue /\ Len(sendCh[c]) <= SendCap /\ Len(sendCh[c]) \in Nat
  BY DEF ConnTypes, Queue
<1>2. /\ Append(sendCh[c], msg) \in Queue
      /\ Len(Append(sendCh[c], msg)) = Len(sendCh[c]) + 1
  BY <1>1 DEF Queue
<1> QED
  BY <1>1, <1>2, HubAssumption DEF Send

\* RegisterConnection closes the connection it replaces, and no other.
LEMMA ConnectConn ==
  ASSUME ConnInv, NEW c \in Conns, NEW u \in Users, Connect(c, u)
  PROVE  ConnInv'
<1>1. reader[c] = "none"
  BY HubAssumption DEF Connect
<1>2. /\ connections' = [connections EXCEPT ![u] = c]
      /\ owner' = [owner EXCEPT ![c] = u]
      /\ reader' = [reader EXCEPT ![c] = "reading"]
      /\ writer' = [writer EXCEPT ![c] = "running"]
      /\ UNCHANGED sendCh
      /\ closed' = [d \in Conns |-> closed[d] \/ d \in Replaced(u)]
      /\ sock' = [d \in Conns |-> IF d \in Replaced(u) THEN "closed" ELSE sock[d]]
  BY DEF Connect, Close
<1>3. ConnTypes'
  BY <1>2 DEF ConnInv, ConnTypes
<1>4. \A d \in Replaced(u) : d \in Conns /\ reader[d] # "none" /\ owner[d] = u
  BY DEF Replaced, ConnInv, ConnTypes, Registered
<1>5. Opened'
  BY <1>1, <1>2, <1>4 DEF ConnInv, ConnTypes, Opened
<1>6. Registered'
  <2> SUFFICES ASSUME NEW v \in Users, connections'[v] # NoConn
               PROVE  /\ reader'[connections'[v]] # "none"
                      /\ owner'[connections'[v]] = v
                      /\ ~closed'[connections'[v]]
    BY DEF Registered
  <2>1. CASE v = u
    BY <1>1, <1>2, <1>4, <2>1 DEF ConnInv, ConnTypes, Opened
  <2>2. CASE v # u
    <3>1. connections'[v] = connections[v] /\ connections[v] \in Conns \ {c}
      BY <1>1, <1>2, <2>2 DEF ConnInv, ConnTypes, Registered
    <3>2. connections[v] \notin Replaced(u)
      BY <1>4, <2>2, <3>1 DEF ConnInv, Registered
    <3> QED
      BY <1>2, <3>1, <3>2 DEF ConnInv, ConnTypes, Registered
  <2> QED
    BY <2>1, <2>2
<1> QED
  BY <1>3, <1>5, <1>6 DEF ConnInv

\* The cleanup closes the user's connection as it takes it off the map.
LEMMA UnregisterConn ==
  ASSUME ConnInv, NEW c \in Conns, Unregister(c)
  PROVE  ConnInv'
<1> DEFINE u == owner[c]
           gone == {connections[u]} \ {NoConn}
<1>1. u \in Users
  BY DEF Unregister, ConnInv, Opened
<1>2. /\ reader[c] # "none"
      /\ connections' = [connections EXCEPT ![u] = NoConn]
      /\ reader' = [reader EXCEPT ![c] = "done"]
      /\ UNCHANGED <<owner, sendCh, writer>>
      /\ closed' = [d \in Conns |-> closed[d] \/ d \in gone]
      /\ sock' = [d \in Conns |-> IF d \in gone THEN "closed" ELSE sock[d]]
  BY DEF Unregister, DropConnection, Close
<1>3. \A d \in gone : reader[d] # "none" /\ owner[d] = u
  BY <1>1 DEF ConnInv, Registered
<1>4. ConnTypes'
  BY <1>2 DEF ConnInv, ConnTypes
<1>5. Opened'
  BY <1>2, <1>3 DEF ConnInv, ConnTypes, Opened
<1>6. Registered'
  BY <1>1, <1>2, <1>3 DEF ConnInv, ConnTypes, Registered
<1> QED
  BY <1>4, <1>5, <1>6 DEF ConnInv

\* The pumps and the broadcasts register nothing and close no channel.
LEMMA QueueConn ==
  ASSUME ConnInv, UNCHANGED <<connections, owner, closed>>,
         \A d \in Conns : reader'[d] = "none" <=> reader[d] = "none",
         ConnTypes'
  PROVE  ConnInv'
  BY DEF ConnInv, ConnTypes, Opened, Registered

\* A pump step keeps the connections apart.
LEMMA PumpConn ==
  ASSUME ConnInv, NEW c \in Conns, PeerGone(c) \/ ReadFails(c) \/ WritePump(c)
  PROVE  ConnInv'
<1>1. CASE PeerGone(c)
  <2>1. ConnTypes'
    BY <1>1 DEF PeerGone, pumpVars, ConnInv, ConnTypes
  <2> QED
    BY <1>1, <2>1, QueueConn DEF PeerGone, pumpVars
<1>2. CASE ReadFails(c)
  <2>1. ConnTypes'
    BY <1>2 DEF ReadFails, connVars, ConnInv, ConnTypes
  <2> QED
    BY <1>2, <2>1, QueueConn DEF ReadFails, connVars, ConnInv, ConnTypes
<1>3. CASE WritePump(c)
  <2>1. sendCh[c] # <<>> => Tail(sendCh[c]) \in Queue /\ Len(Tail(sendCh[c])) <= SendCap
    <3>1. sendCh[c] \in Queue /\ Len(sendCh[c]) <= SendCap
      BY DEF ConnInv, ConnTypes
    <3> QED
      BY <3>1, HubAssumption DEF Queue
  <2>2. sendCh' = sendCh \/ (sendCh[c] # <<>> /\ sendCh' = [sendCh EXCEPT ![c] = Tail(@)])
    BY <1>3 DEF WritePump
  <2>3. sendCh' \in [Conns -> Queue] /\ \A d \in Conns : Len(sendCh'[d]) <= SendCap
    BY <2>1, <2>2 DEF ConnInv, ConnTypes
  <2>4. ConnTypes'
    BY <1>3, <2>3 DEF WritePump, ConnInv, ConnTypes
  <2> QED
    BY <1>3, <2>4, QueueConn DEF WritePump
<1> QED
  BY <1>1, <1>2, <1>3

\* A broadcast queues at most one message per connection.
LEMMA CastConn ==
  ASSUME ConnInv, BroadcastAll \/ \E k \in Casts : SendLookup(k) \/ SendFound(k)
  PROVE  ConnInv'
<1>1. CASE BroadcastAll
  <2>1. \A c \in Conns : Send(c, "all") \in Queue /\ Len(Send(c, "all")) <= SendCap
    BY SendKeepsQueue DEF ConnInv
  <2>2. sendCh' \in [Conns -> Queue] /\ \A c \in Conns : Len(sendCh'[c]) <= SendCap
    BY <1>1, <2>1 DEF BroadcastAll, ConnInv, ConnTypes
  <2>3. ConnTypes'
    BY <1>1, <2>2 DEF BroadcastAll, pumpVars, ConnInv, ConnTypes
  <2> QED
    BY <1>1, <2>3, QueueConn DEF BroadcastAll, pumpVars
<1>2. ASSUME NEW k \in Casts, SendLookup(k) PROVE ConnInv'
  <2>1. UNCHANGED <<connections, owner, closed, sock, sendCh, reader, writer>>
    BY <1>2 DEF SendLookup, connVars, pumpVars
  <2> QED
    BY <2>1 DEF ConnInv, ConnTypes, Opened, Registered
<1>3. ASSUME NEW k \in Casts, SendFound(k) PROVE ConnInv'
  <2> DEFINE c == cast[k].conn
  <2>1. c \in Conns => Send(c, k) \in Queue /\ Len(Send(c, k)) <= SendCap
    BY SendKeepsQueue DEF ConnInv
  <2>2. sendCh' \in [Conns -> Queue] /\ \A d \in Conns : Len(sendCh'[d]) <= SendCap
    <3>1. sendCh' = [sendCh EXCEPT ![c] = Send(c, k)]
      BY <1>3 DEF SendFound
    <3> HIDE DEF c
    <3> QED
      BY <2>1, <3>1 DEF ConnInv, ConnTypes
  <2>3. ConnTypes'
    BY <1>3, <2>2 DEF SendFound, pumpVars, ConnInv, ConnTypes
  <2> QED
    BY <1>3, <2>3, QueueConn DEF SendFound, pumpVars
<1> QED
  BY <1>1, <1>2, <1>3

\* Every step keeps registered connections open.
LEMMA StepConn == ConnInv /\ [Next]_vars => ConnInv'
<1> SUFFICES ASSUME ConnInv, [Next]_vars PROVE ConnInv'
  OBVIOUS
<1>1. CASE UNCHANGED <<connVars, pumpVars>>
  BY <1>1 DEF connVars, pumpVars, ConnInv, ConnTypes, Opened, Registered
<1>2. CASE UNCHANGED vars
  BY <1>1, <1>2 DEF vars
<1>3. ASSUME NEW m \in Matches, NEW u \in Users, JoinMatch(m, u) \/ LeaveMatch(m, u) PROVE ConnInv'
  BY <1>1, <1>3 DEF JoinMatch, LeaveMatch
<1>4. ASSUME NEW k \in Casts, NEW m \in Matches, BroadcastToMatch(k, m) PROVE ConnInv'
  BY <1>1, <1>4 DEF BroadcastToMatch
<1> QED
  BY <1>2, <1>3, <1>4, ConnectConn, UnregisterConn, PumpConn, CastConn DEF Next

\* For any number of users and connections, reconnecting and cleaning up in any
\* order, a connection the hub has in its map is its user's and is not closed.
THEOREM RegisteredStaysOpen == Spec => []RegisteredIsOpen
<1>1. ConnInv => RegisteredIsOpen
  BY DEF ConnInv, Registered, RegisteredIsOpen
<1> QED
  BY <1>1, InitConn, StepConn, PTL DEF Spec

\* Nothing is sent on a channel that has been closed, whoever closes the connection
\* between the lookup of SendToUser and its send.
THEOREM ClosedChannelsRest == Spec => NoSendAfterClose
<1>1. ConnInv /\ [Next]_vars => [\A c \in Conns : closed[c] => Len(sendCh'[c]) <= Len(sendCh[c])]_vars
  <2> SUFFICES ASSUME ConnInv, Next, NEW c \in Conns, closed[c]
               PROVE  Len(sendCh'[c]) <= Len(sendCh[c])
    OBVIOUS
  <2>1. sendCh[c] \in Queue /\ Len(sendCh[c]) \in Nat
    BY DEF ConnInv, ConnTypes, Queue
  <2>2. CASE UNCHANGED sendCh
    BY <2>1, <2>2
  <2>3. ASSUME NEW d \in Conns, WritePump(d) PROVE Len(sendCh'[c]) <= Len(sendCh[c])
    <3>1. sendCh' = sendCh \/ (sendCh[d] # <<>> /\ sendCh' = [sendCh EXCEPT ![d] = Tail(@)])
      BY <2>3 DEF WritePump
    <3>2. sendCh[c] # <<>> => Len(Tail(sendCh[c])) <= Len(sendCh[c])
      BY <2>1 DEF Queue
    <3>3. sendCh'[c] = sendCh[c] \/ (sendCh[c] # <<>> /\ sendCh'[c] = Tail(sendCh[c]))
      BY <3>1 DEF ConnInv, ConnTypes
    <3>4. CASE sendCh'[c] = sendCh[c]
      BY <2>1, <3>4
    <3>5. CASE sendCh[c] # <<>> /\ sendCh'[c] = Tail(sendCh[c])
      BY <3>2, <3>5, Zenon
    <3> QED
      BY <3>3, <3>4, <3>5
  <2>4. ASSUME BroadcastAll PROVE Len(sendCh'[c]) <= Len(sendCh[c])
    BY <2>1, <2>4, SendKeepsQueue DEF BroadcastAll, ConnInv
  <2>5. ASSUME NEW k \in Casts, SendFound(k) PROVE Len(sendCh'[c]) <= Len(sendCh[c])
    <3>1. sendCh' = [sendCh EXCEPT ![cast[k].conn] = Send(cast[k].conn, k)]
      BY <2>5 DEF SendFound
    <3>2. Send(c, k) = sendCh[c]
      BY SendKeepsQueue DEF ConnInv
    <3>3. sendCh'[c] = sendCh[c]
      <4>1. CASE cast[k].conn = c
        BY <3>1, <3>2, <4>1 DEF ConnInv, ConnTypes
      <4>2. CASE cast[k].conn # c
        BY <3>1, <4>2 DEF ConnInv, ConnTypes
      <4> QED
        BY <4>1, <4>2
    <3> QED
      BY <2>1, <3>3
  <2>6. ASSUME NEW d \in Conns, NEW u \in Users, Connect(d, u) PROVE UNCHANGED sendCh
    BY <2>6 DEF Connect
  <2>7. ASSUME NEW d \in Conns, PeerGone(d) \/ ReadFails(d) \/ Unregister(d) PROVE UNCHANGED sendCh
    BY <2>7 DEF PeerGone, ReadFails, Unregister, connVars
  <2>8. ASSUME NEW m \in Matches, NEW u \in Users, JoinMatch(m, u) \/ LeaveMatch(m, u)
        PROVE  UNCHANGED sendCh
    BY <2>8 DEF JoinMatch, LeaveMatch, connVars
  <2>9. ASSUME NEW k \in Casts, SendLookup(k) \/ \E m \in Matches : BroadcastToMatch(k, m)
        PROVE  UNCHANGED sendCh
    BY <2>9 DEF SendLookup, BroadcastToMatch, connVars
  <2> QED
    BY <2>2, <2>3, <2>4, <2>5, <2>6, <2>7, <2>8, <2>9 DEF Next
<1> QED
  BY <1>1, InitConn, StepConn, PTL DEF Spec, NoSendAfterClose

-----------------------------------------------------------------------------
(* The arrays behind the members of a match *)

Arrays == Seq(Seq(Users \cup {NoUser}))

MatchTypes ==
  /\ slice \in [Matches -> Slice]
  /\ arrays \in [Matches -> Arrays]
  /\ joined \subseteq Matches \X Users
  /\ cast \in [Casts -> CastState]
  /\ alls \in 0..MaxAll

\* A slice header that covers users only, inside its array.
Filled(m, header) ==
  /\ header.arr \in 1..Len(arrays[m])
  /\ header.len <= Len(arrays[m][header.arr])
  /\ \A j \in 1..header.len : arrays[m][header.arr][j] \in Users

\* The header of a match is that of no array, or filled.
SlicesFilled == \A m \in Matches : (slice[m].len = 0 /\ slice[m].arr = 0) \/ Filled(m, slice[m])

\* A broadcast under way walks a filled slice, and holds a connection that was opened.
CastsInside ==
  \A k \in Casts :
    /\ cast[k].step \in {"lookup", "send"} =>
         /\ Filled(cast[k].match, cast[k].from)
         /\ cast[k].i \in 1..cast[k].from.len
    /\ cast[k].step = "send" => cast[k].conn \in Conns /\ reader[cast[k].conn] # "none"

MatchInv == MatchTypes /\ SlicesFilled /\ CastsInside

\* No match has members and no broadcast is under way.
LEMMA InitMatch == Init => MatchInv
<1> SUFFICES ASSUME Init PROVE MatchInv
  OBVIOUS
<1>1. (CHOOSE m \in Matches : TRUE) \in Matches
  BY HubAssumption
<1>2. <<>> \in Arrays /\ [arr |-> 0, len |-> 0] \in Slice
  BY DEF Arrays, Slice
<1>3. cast \in [Casts -> CastState]
  BY <1>1, <1>2 DEF Init, CastState
<1>4. slice \in [Matches -> Slice] /\ arrays \in [Matches -> Arrays]
  BY <1>2 DEF Init
<1>5. MatchTypes
  BY <1>3, <1>4, HubAssumption DEF Init, MatchTypes
<1> QED
  BY <1>5 DEF Init, MatchInv, SlicesFilled, CastsInside

\* The members of a match are users.
LEMMA MembersAreUsers ==
  ASSUME MatchInv, NEW m \in Matches
  PROVE  /\ Members(m) \subseteq Users
         /\ Members(m) # {} => Filled(m, slice[m])
         /\ slice[m].len # 0 => Filled(m, slice[m])
<1>1. slice[m].len \in Nat
  BY DEF MatchInv, MatchTypes, Slice
<1>2. CASE slice[m].len = 0
  BY <1>2 DEF Members, MatchInv, SlicesFilled
<1>3. CASE slice[m].len # 0
  BY <1>3 DEF Members, MatchInv, SlicesFilled, Filled
<1> QED
  BY <1>2, <1>3

\* If arrays keep their number and their size, and their users, filled slices stay
\* filled.
LEMMA FilledStays ==
  ASSUME MatchTypes, NEW m \in Matches, NEW header \in Slice, Filled(m, header),
         Len(arrays'[m]) \in Nat, Len(arrays[m]) <= Len(arrays'[m]),
         \A n \in 1..Len(arrays[m]) :
           /\ Len(arrays'[m][n]) = Len(arrays[m][n])
           /\ \A j \in 1..Len(arrays[m][n]) : arrays[m][n][j] \in Users => arrays'[m][n][j] \in Users
  PROVE  /\ header.arr \in 1..Len(arrays'[m])
         /\ header.len <= Len(arrays'[m][header.arr])
         /\ \A j \in 1..header.len : arrays'[m][header.arr][j] \in Users
<1>1. /\ arrays[m] \in Seq(Seq(Users \cup {NoUser})) /\ Len(arrays[m]) \in Nat
      /\ header.len \in Nat /\ header.arr \in 1..Len(arrays[m])
  BY DEF MatchTypes, Arrays, Slice, Filled
<1>2. arrays[m][header.arr] \in Seq(Users \cup {NoUser}) /\ Len(arrays[m][header.arr]) \in Nat
  BY <1>1
<1>3. \A j \in 1..header.len : j \in 1..Len(arrays[m][header.arr])
  BY <1>1, <1>2 DEF Filled
<1> QED
  BY <1>1, <1>2, <1>3 DEF Filled

\* Cutting a cell out keeps the size of the array, and its users.
LEMMA RemovedKeeps ==
  ASSUME NEW a \in Seq(Users \cup {NoUser}), NEW len \in Nat, len <= Len(a),
         \A j \in 1..len : a[j] \in Users, NEW i \in 1..len
  PROVE  /\ Removed(a, len, i) \in Seq(Users \cup {NoUser})
         /\ Len(Removed(a, len, i)) = Len(a)
         /\ \A j \in 1..Len(a) : a[j] \in Users => Removed(a, len, i)[j] \in Users
<1> DEFINE b == Removed(a, len, i)
<1>1. /\ DOMAIN a = 1..Len(a) /\ Len(a) \in Nat
      /\ \A j \in 1..Len(a) : a[j] \in Users \cup {NoUser}
  OBVIOUS
<1>2. \A j \in i..(len - 1) : j + 1 \in 1..len
  OBVIOUS
<1>3. b = [j \in 1..Len(a) |-> IF j \in i..(len - 1) THEN a[j + 1] ELSE a[j]]
  BY <1>1 DEF Removed
<1>4. b \in [1..Len(a) -> Users \cup {NoUser}]
  BY <1>1, <1>2, <1>3
<1>5. b \in Seq(Users \cup {NoUser}) /\ Len(b) = Len(a)
  BY <1>1, <1>4
<1>6. \A j \in 1..Len(a) : a[j] \in Users => b[j] \in Users
  BY <1>2, <1>3
<1> QED
  BY <1>5, <1>6

\* What is asked of the arrays when a member leaves.
ArraysKept(m) ==
  /\ Len(arrays'[m]) = Len(arrays[m])
  /\ \A n \in 1..Len(arrays[m]) :
       /\ Len(arrays'[m][n]) = Len(arrays[m][n])
       /\ \A j \in 1..Len(arrays[m][n]) : arrays[m][n][j] \in Users => arrays'[m][n][j] \in Users

\* The shift in place keeps every array filled as far as some header reaches.
LEMMA RemoveFromKeeps ==
  ASSUME MatchInv, NEW u \in Users, NEW ms \in SUBSET Matches, RemoveFrom(u, ms)
  PROVE  /\ slice' \in [Matches -> Slice]
         /\ arrays' \in [Matches -> Arrays]
         /\ SlicesFilled'
         /\ \A m \in Matches : ArraysKept(m)
<1> DEFINE at(m) == CHOOSE i \in 1..slice[m].len : arrays[m][slice[m].arr][i] = u
           in == {m \in ms : u \in Members(m)}
           cut(m) == Removed(arrays[m][slice[m].arr], slice[m].len, at(m))
<1>1. /\ slice' = [m \in Matches |-> IF m \in in THEN [slice[m] EXCEPT !.len = @ - 1] ELSE slice[m]]
      /\ arrays' = [m \in Matches |-> IF m \in in THEN [arrays[m] EXCEPT ![slice[m].arr] = cut(m)]
                                                   ELSE arrays[m]]
  BY DEF RemoveFrom
<1>2. ASSUME NEW m \in in
      PROVE  /\ slice[m].len \in Nat \ {0} /\ slice[m].arr \in 1..Len(arrays[m])
             /\ arrays[m] \in Arrays
             /\ cut(m) \in Seq(Users \cup {NoUser})
             /\ Len(cut(m)) = Len(arrays[m][slice[m].arr])
             /\ slice[m].len <= Len(arrays[m][slice[m].arr])
             /\ \A j \in 1..Len(arrays[m][slice[m].arr]) :
                  arrays[m][slice[m].arr][j] \in Users => cut(m)[j] \in Users
             /\ \A j \in 1..slice[m].len : arrays[m][slice[m].arr][j] \in Users
  <2>1. m \in Matches /\ Filled(m, slice[m])
    BY MembersAreUsers
  <2>2. PICK i \in 1..slice[m].len : arrays[m][slice[m].arr][i] = u
    BY DEF Members
  <2>3. at(m) \in 1..slice[m].len
    BY <2>2
  <2>4. slice[m].len \in Nat \ {0} /\ slice[m].arr \in 1..Len(arrays[m]) /\ arrays[m] \in Arrays
    BY <2>1, <2>2 DEF Filled, MatchInv, MatchTypes, Slice
  <2>5. arrays[m][slice[m].arr] \in Seq(Users \cup {NoUser})
    BY <2>4 DEF Arrays
  <2> HIDE DEF at
  <2> QED
    BY <2>1, <2>3, <2>4, <2>5, RemovedKeeps DEF Filled
<1> HIDE DEF at, in, cut
<1>3. \A m \in Matches : arrays[m] \in Arrays /\ slice[m] \in Slice /\ Len(arrays[m]) \in Nat
  BY DEF MatchInv, MatchTypes, Arrays
<1>4. slice' \in [Matches -> Slice]
  BY <1>1, <1>2, <1>3 DEF Slice
<1>5. ASSUME NEW m \in Matches PROVE arrays'[m] \in Arrays /\ ArraysKept(m)
  <2>1. CASE m \notin in
    BY <1>1, <1>3, <2>1 DEF ArraysKept
  <2>2. CASE m \in in
    <3>1. arrays'[m] = [arrays[m] EXCEPT ![slice[m].arr] = cut(m)]
      BY <1>1, <2>2
    <3>2. arrays'[m] \in Arrays /\ Len(arrays'[m]) = Len(arrays[m])
      BY <1>2, <2>2, <3>1 DEF Arrays
    <3>3. \A n \in 1..Len(arrays[m]) :
            arrays'[m][n] = IF n = slice[m].arr THEN cut(m) ELSE arrays[m][n]
      BY <1>2, <2>2, <3>1 DEF Arrays
    <3> QED
      BY <1>2, <2>2, <3>2, <3>3 DEF ArraysKept
  <2> QED
    BY <2>1, <2>2
<1>6. arrays' \in [Matches -> Arrays]
  BY <1>1, <1>5
<1>7. ASSUME NEW m \in Matches
      PROVE  (slice'[m].len = 0 /\ slice'[m].arr = 0) \/ Filled(m, slice[m])
  BY <1>1, <1>2, MembersAreUsers DEF MatchInv, SlicesFilled, Filled
<1>8. ASSUME NEW m \in Matches, Filled(m, slice[m])
      PROVE  /\ slice'[m].arr \in 1..Len(arrays'[m])
             /\ slice'[m].len <= Len(arrays'[m][slice'[m].arr])
             /\ \A j \in 1..slice'[m].len : arrays'[m][slice'[m].arr][j] \in Users
  <2>1. /\ slice[m].arr \in 1..Len(arrays'[m])
        /\ slice[m].len <= Len(arrays'[m][slice[m].arr])
        /\ \A j \in 1..slice[m].len : arrays'[m][slice[m].arr][j] \in Users
    <3> DEFINE header == slice[m]
    <3>1. header \in Slice /\ Filled(m, header) /\ MatchTypes
      BY <1>3, <1>8 DEF MatchInv
    <3>2. /\ Len(arrays'[m]) \in Nat /\ Len(arrays[m]) <= Len(arrays'[m])
          /\ \A n \in 1..Len(arrays[m]) :
               /\ Len(arrays'[m][n]) = Len(arrays[m][n])
               /\ \A j \in 1..Len(arrays[m][n]) :
                    arrays[m][n][j] \in Users => arrays'[m][n][j] \in Users
      <4>1. ArraysKept(m)
        BY <1>5
      <4>2. Len(arrays'[m]) = Len(arrays[m]) /\ Len(arrays[m]) \in Nat
        BY <1>3, <4>1 DEF ArraysKept
      <4>3. Len(arrays'[m]) \in Nat /\ Len(arrays[m]) <= Len(arrays'[m])
        BY <4>2
      <4> QED
        BY <4>1, <4>3 DEF ArraysKept
    <3> HIDE DEF header
    <3>3. /\ header.arr \in 1..Len(arrays'[m])
          /\ header.len <= Len(arrays'[m][header.arr])
          /\ \A j \in 1..header.len : arrays'[m][header.arr][j] \in Users
      BY <3>1, <3>2, FilledStays
    <3> QED
      BY <3>3 DEF header
  <2>2. slice'[m].arr = slice[m].arr /\ slice'[m].len \in {slice[m].len, slice[m].len - 1}
    BY <1>1, <1>3 DEF Slice
  <2>3. slice[m].len \in Nat /\ slice'[m].len \in Nat
    BY <1>3, <1>4 DEF Slice
  <2>4. Len(arrays'[m][slice[m].arr]) \in Nat
    BY <1>5, <2>1 DEF Arrays
  <2> QED
    BY <2>1, <2>2, <2>3, <2>4
<1>9. SlicesFilled'
  BY <1>7, <1>8 DEF SlicesFilled, Filled
<1> QED
  BY <1>4, <1>5, <1>6, <1>9

\* Arrays are added at the end, and no array loses a user's cell.
ArraysGrow(m) ==
  /\ Len(arrays'[m]) \in Nat /\ Len(arrays[m]) <= Len(arrays'[m])
  /\ \A n \in 1..Len(arrays[m]) :
       /\ Len(arrays'[m][n]) = Len(arrays[m][n])
       /\ \A j \in 1..Len(arrays[m][n]) : arrays[m][n][j] \in Users => arrays'[m][n][j] \in Users

LEMMA KeptGrows ==
  ASSUME MatchTypes, NEW m \in Matches, ArraysKept(m)
  PROVE  ArraysGrow(m)
<1>1. Len(arrays[m]) \in Nat
  BY DEF MatchTypes, Arrays
<1>2. Len(arrays'[m]) \in Nat /\ Len(arrays[m]) <= Len(arrays'[m])
  BY <1>1 DEF ArraysKept
<1> QED
  BY <1>2 DEF ArraysKept, ArraysGrow

LEMMA SameGrows ==
  ASSUME MatchTypes, NEW m \in Matches, arrays'[m] = arrays[m]
  PROVE  ArraysGrow(m)
  BY DEF ArraysGrow, MatchTypes, Arrays

\* A broadcast that does not move stays inside its slice, whoever leaves or joins.
LEMMA CastsStay ==
  ASSUME MatchInv, \A m \in Matches : ArraysGrow(m),
         \A c \in Conns : reader[c] # "none" => reader'[c] # "none",
         NEW k \in Casts,
         cast'[k].step = cast[k].step, cast'[k].match = cast[k].match,
         cast'[k].from = cast[k].from, cast'[k].i = cast[k].i, cast'[k].conn = cast[k].conn
  PROVE  /\ cast'[k].step \in {"lookup", "send"} =>
              /\ Filled(cast[k].match, cast[k].from)'
              /\ cast'[k].i \in 1..cast'[k].from.len
         /\ cast'[k].step = "send" => cast'[k].conn \in Conns /\ reader'[cast'[k].conn] # "none"
<1> DEFINE m == cast[k].match
           header == cast[k].from
<1>1. m \in Matches /\ header \in Slice /\ MatchTypes
  BY DEF MatchInv, MatchTypes, CastState
<1>2. ASSUME Filled(m, header)
      PROVE  /\ header.arr \in 1..Len(arrays'[m])
             /\ header.len <= Len(arrays'[m][header.arr])
             /\ \A j \in 1..header.len : arrays'[m][header.arr][j] \in Users
  <2>1. ArraysGrow(m)
    BY <1>1
  <2> HIDE DEF m, header
  <2> QED
    BY <1>1, <1>2, <2>1, FilledStays DEF ArraysGrow
<1>3. CASE cast[k].step \in {"lookup", "send"}
  <2>1. Filled(m, header) /\ cast[k].i \in 1..header.len
    BY <1>3 DEF MatchInv, CastsInside
  <2>2. Filled(cast[k].match, cast[k].from)'
    BY <1>2, <2>1 DEF Filled
  <2>3. cast[k].step = "send" => cast[k].conn \in Conns /\ reader'[cast[k].conn] # "none"
    BY DEF MatchInv, CastsInside
  <2> QED
    BY <2>1, <2>2, <2>3
<1> QED
  BY <1>3

\* Departs only shortens the list of those a broadcast is bound to reach.
LEMMA DepartsCasts ==
  ASSUME MatchTypes, NEW u \in Users, NEW ms, Departs(u, ms)
  PROVE  /\ cast' \in [Casts -> CastState]
         /\ \A k \in Casts : /\ cast'[k].step = cast[k].step
                             /\ cast'[k].match = cast[k].match
                             /\ cast'[k].from = cast[k].from
                             /\ cast'[k].i = cast[k].i
                             /\ cast'[k].conn = cast[k].conn
<1>1. \A k \in Casts : cast[k] \in CastState
  BY DEF MatchTypes
<1>2. ASSUME NEW k \in Casts, NEW gone \in SUBSET Users,
             cast'[k] = [cast[k] EXCEPT !.stayers = gone]
      PROVE  /\ cast'[k] \in CastState
             /\ cast'[k].step = cast[k].step
             /\ cast'[k].match = cast[k].match
             /\ cast'[k].from = cast[k].from
             /\ cast'[k].i = cast[k].i
             /\ cast'[k].conn = cast[k].conn
  BY <1>1, <1>2 DEF CastState
<1>3. ASSUME NEW k \in Casts
      PROVE  \E gone \in SUBSET Users : cast'[k] = [cast[k] EXCEPT !.stayers = gone]
  <2>1. cast[k].stayers \in SUBSET Users /\ cast[k].stayers \ {u} \in SUBSET Users
    BY <1>1 DEF CastState
  <2>2. cast'[k] = [cast[k] EXCEPT !.stayers = IF cast[k].match \in ms THEN cast[k].stayers \ {u}
                                                                       ELSE cast[k].stayers]
    BY DEF Departs
  <2>3. CASE cast[k].match \in ms
    BY <2>1, <2>2, <2>3
  <2>4. CASE cast[k].match \notin ms
    BY <2>1, <2>2, <2>4
  <2> QED
    BY <2>3, <2>4
<1>4. cast' = [k \in Casts |-> cast'[k]]
  BY DEF Departs
<1> QED
  BY <1>2, <1>3, <1>4

\* A member leaves one match or all of them.
LEMMA LeavingMatch ==
  ASSUME MatchInv, NEW u \in Users, NEW ms \in SUBSET Matches, RemoveFrom(u, ms), Departs(u, ms),
         \A c \in Conns : reader[c] # "none" => reader'[c] # "none", UNCHANGED <<joined, alls>>
  PROVE  MatchInv'
<1>1. /\ slice' \in [Matches -> Slice]
      /\ arrays' \in [Matches -> Arrays]
      /\ SlicesFilled'
      /\ \A m \in Matches : ArraysGrow(m)
  BY RemoveFromKeeps, KeptGrows DEF MatchInv
<1>2. MatchTypes'
  BY <1>1, DepartsCasts DEF MatchInv, MatchTypes
<1>3. CastsInside'
  BY <1>1, DepartsCasts, CastsStay DEF MatchInv, CastsInside
<1> QED
  BY <1>1, <1>2, <1>3 DEF MatchInv

\* A larger copy of an array has room for one more user.
LEMMA GrownArray ==
  ASSUME NEW a \in Seq(Users \cup {NoUser}), NEW len \in Nat, len <= Len(a),
         \A j \in 1..len : a[j] \in Users, NEW u \in Users
  PROVE  LET b == [Grown(a) EXCEPT ![len + 1] = u]
         IN  /\ b \in Seq(Users \cup {NoUser})
             /\ len + 1 <= Len(b)
             /\ \A j \in 1..(len + 1) : b[j] \in Users
<1> DEFINE n == IF a = <<>> THEN 1 ELSE Len(a)
           more == [i \in 1..n |-> NoUser]
           g == a \o more
           b == [g EXCEPT ![len + 1] = u]
<1>1. Len(a) \in Nat /\ n \in Nat /\ n >= 1
  OBVIOUS
<1>2. more \in [1..n -> {NoUser}]
  OBVIOUS
<1> HIDE DEF n
<1>3. more \in Seq(Users \cup {NoUser}) /\ Len(more) = n
  BY <1>1
<1> HIDE DEF more
<1>4. /\ g \in Seq(Users \cup {NoUser})
      /\ Len(g) = Len(a) + n
      /\ \A j \in 1..Len(a) : g[j] = a[j]
  BY <1>1, <1>3
<1> HIDE DEF g
<1>5. b \in Seq(Users \cup {NoUser}) /\ Len(b) = Len(g)
  BY <1>1, <1>4
<1>6. len + 1 \in 1..Len(g)
  BY <1>1, <1>4
<1>7. \A j \in 1..(len + 1) : b[j] = IF j = len + 1 THEN u ELSE g[j]
  BY <1>4, <1>6
<1>8. \A j \in 1..(len + 1) : j = len + 1 \/ j \in 1..len
  OBVIOUS
<1>9. \A j \in 1..len : g[j] \in Users
  BY <1>1, <1>4
<1>10. \A j \in 1..(len + 1) : b[j] \in Users
  BY <1>7, <1>8, <1>9
<1> QED
  BY <1>1, <1>4, <1>5, <1>6, <1>10 DEF g, more, n, Grown

\* A user who joins is put behind the members, in their array or in a larger one.
LEMMA JoiningMatch ==
  ASSUME MatchInv, NEW m \in Matches, NEW u \in Users, JoinMatch(m, u)
  PROVE  MatchInv'
<1> DEFINE old == slice[m]
           a == IF old.arr = 0 THEN <<>> ELSE arrays[m][old.arr]
<1>1. /\ old \in Slice /\ old.len \in Nat
      /\ arrays[m] \in Arrays /\ Len(arrays[m]) \in Nat
      /\ (old.len = 0 /\ old.arr = 0) \/ Filled(m, old)
  BY DEF MatchInv, MatchTypes, SlicesFilled, Slice, Arrays
<1>2. /\ a \in Seq(Users \cup {NoUser}) /\ Len(a) \in Nat
      /\ old.len <= Len(a)
      /\ \A j \in 1..old.len : a[j] \in Users
  BY <1>1 DEF Filled, Arrays
<1>3. UNCHANGED <<cast, reader, alls>> /\ joined' \subseteq Matches \X Users
  BY DEF JoinMatch, pumpVars, MatchInv, MatchTypes
<1>4. SUFFICES /\ slice' \in [Matches -> Slice]
               /\ arrays' \in [Matches -> Arrays]
               /\ SlicesFilled'
               /\ \A p \in Matches : ArraysGrow(p)
  <2>1. ASSUME \A p \in Matches : ArraysGrow(p) PROVE CastsInside'
    BY <1>3, <2>1, CastsStay DEF CastsInside
  <2> QED
    BY <1>3, <1>4, <2>1 DEF MatchInv, MatchTypes
<1>5. CASE UNCHANGED <<slice, arrays>>
  BY <1>5, SameGrows DEF MatchInv, MatchTypes, SlicesFilled, Filled
<1>6. CASE /\ old.len < Len(a)
           /\ slice' = [slice EXCEPT ![m] = [arr |-> old.arr, len |-> old.len + 1]]
           /\ arrays' = [arrays EXCEPT ![m] = [arrays[m] EXCEPT ![old.arr][old.len + 1] = u]]
  <2>1. Filled(m, old) /\ a = arrays[m][old.arr] /\ old.arr \in 1..Len(arrays[m])
    BY <1>1, <1>6 DEF Filled
  <2> DEFINE b == [a EXCEPT ![old.len + 1] = u]
  <2>2. old.len + 1 \in 1..Len(a)
    BY <1>1, <1>2, <1>6
  <2>3. /\ b \in Seq(Users \cup {NoUser}) /\ Len(b) = Len(a)
        /\ \A j \in 1..Len(a) : b[j] = IF j = old.len + 1 THEN u ELSE a[j]
    BY <1>2, <2>2
  <2>4. arrays'[m] = [arrays[m] EXCEPT ![old.arr] = b]
    BY <1>1, <1>6, <2>1 DEF MatchInv, MatchTypes
  <2> HIDE DEF b, a, old
  <2>5. /\ arrays'[m] \in Arrays /\ Len(arrays'[m]) = Len(arrays[m])
        /\ \A n \in 1..Len(arrays[m]) : arrays'[m][n] = IF n = old.arr THEN b ELSE arrays[m][n]
    BY <1>1, <2>1, <2>3, <2>4 DEF Arrays
  <2>6. ArraysGrow(m)
    <3>1. \A n \in 1..Len(arrays[m]) : Len(arrays'[m][n]) = Len(arrays[m][n])
      BY <2>1, <2>3, <2>5
    <3>2. \A n \in 1..Len(arrays[m]) : \A j \in 1..Len(arrays[m][n]) :
            arrays[m][n][j] \in Users => arrays'[m][n][j] \in Users
      BY <2>1, <2>3, <2>5
    <3>3. Len(arrays'[m]) \in Nat /\ Len(arrays[m]) <= Len(arrays'[m])
      BY <1>1, <2>5
    <3> QED
      BY <3>1, <3>2, <3>3 DEF ArraysGrow
  <2>7. \A p \in Matches \ {m} : arrays'[p] = arrays[p] /\ slice'[p] = slice[p]
    BY <1>6 DEF MatchInv, MatchTypes
  <2>8. slice'[m] = [arr |-> old.arr, len |-> old.len + 1] /\ slice'[m] \in Slice
    BY <1>1, <1>6 DEF MatchInv, MatchTypes, Slice
  <2>9. slice'[m].arr = old.arr /\ slice'[m].len = old.len + 1
    BY <2>8
  <2>10. Filled(m, slice[m])'
    <3>1. \A j \in 1..(old.len + 1) : j = old.len + 1 \/ j \in 1..old.len
      BY <1>1
    <3>2. arrays'[m][old.arr] = b /\ old.arr \in 1..Len(arrays'[m])
      BY <2>1, <2>5
    <3>3. \A j \in 1..(old.len + 1) : b[j] \in Users
      BY <1>1, <1>2, <2>2, <2>3, <3>1
    <3>4. old.len + 1 <= Len(b)
      BY <1>2, <2>2, <2>3
    <3> QED
      BY <2>9, <3>2, <3>3, <3>4 DEF Filled
  <2>11. slice' \in [Matches -> Slice] /\ arrays' \in [Matches -> Arrays]
    BY <1>6, <2>5, <2>7, <2>8 DEF MatchInv, MatchTypes
  <2>12. SlicesFilled'
    BY <2>7, <2>10 DEF MatchInv, SlicesFilled, Filled
  <2> QED
    BY <2>6, <2>7, <2>11, <2>12, SameGrows DEF MatchInv
<1>7. CASE /\ ~(old.len < Len(a))
           /\ slice' = [slice EXCEPT ![m] = [arr |-> Len(arrays[m]) + 1, len |-> old.len + 1]]
           /\ arrays' = [arrays EXCEPT ![m] = Append(arrays[m], [Grown(a) EXCEPT ![old.len + 1] = u])]
  <2> DEFINE b == [Grown(a) EXCEPT ![old.len + 1] = u]
             n == Len(arrays[m]) + 1
  <2>1. /\ b \in Seq(Users \cup {NoUser})
        /\ old.len + 1 <= Len(b)
        /\ \A j \in 1..(old.len + 1) : b[j] \in Users
    <3> HIDE DEF a
    <3> QED
      BY <1>1, <1>2, GrownArray
  <2>2. arrays'[m] = Append(arrays[m], b)
    BY <1>7 DEF MatchInv, MatchTypes
  <2> HIDE DEF b, a, old
  <2>3. /\ arrays'[m] \in Arrays /\ Len(arrays'[m]) = n /\ n \in Nat
        /\ \A i \in 1..Len(arrays[m]) : arrays'[m][i] = arrays[m][i]
        /\ arrays'[m][n] = b
    BY <1>1, <2>1, <2>2 DEF Arrays
  <2>4. ArraysGrow(m)
    <3>1. Len(arrays'[m]) \in Nat /\ Len(arrays[m]) <= Len(arrays'[m])
      BY <1>1, <2>3
    <3> QED
      BY <2>3, <3>1 DEF ArraysGrow
  <2>5. \A p \in Matches \ {m} : arrays'[p] = arrays[p] /\ slice'[p] = slice[p]
    BY <1>7 DEF MatchInv, MatchTypes
  <2>6. slice'[m] = [arr |-> n, len |-> old.len + 1] /\ slice'[m] \in Slice
    BY <1>1, <1>7, <2>3 DEF MatchInv, MatchTypes, Slice
  <2>7. n \in 1..n
    BY <1>1
  <2>8. Filled(m, slice[m])'
    BY <2>1, <2>3, <2>6, <2>7 DEF Filled
  <2>9. slice' \in [Matches -> Slice] /\ arrays' \in [Matches -> Arrays]
    BY <1>7, <2>3, <2>5, <2>6 DEF MatchInv, MatchTypes
  <2>10. SlicesFilled'
    BY <2>5, <2>8 DEF MatchInv, SlicesFilled, Filled
  <2> QED
    BY <2>4, <2>5, <2>9, <2>10, SameGrows DEF MatchInv
<1> QED
  BY <1>5, <1>6, <1>7 DEF JoinMatch

\* A step of one broadcast, while the hub and its matches stand still.
LEMMA CastMoves ==
  ASSUME MatchInv, NEW k \in Casts, NEW new \in CastState, cast' = [cast EXCEPT ![k] = new],
         UNCHANGED <<slice, arrays, joined, alls, reader>>,
         new.step \in {"lookup", "send"} =>
           Filled(new.match, new.from) /\ new.i \in 1..new.from.len,
         new.step = "send" => new.conn \in Conns /\ reader[new.conn] # "none"
  PROVE  MatchInv'
<1>1. cast' \in [Casts -> CastState] /\ cast'[k] = new /\ \A d \in Casts \ {k} : cast'[d] = cast[d]
  BY DEF MatchInv, MatchTypes
<1>2. MatchTypes'
  BY <1>1 DEF MatchInv, MatchTypes
<1>3. SlicesFilled'
  BY DEF MatchInv, SlicesFilled, Filled
<1>4. ASSUME NEW p, NEW header, Filled(p, header)
      PROVE  /\ header.arr \in 1..Len(arrays'[p])
             /\ header.len <= Len(arrays'[p][header.arr])
             /\ \A j \in 1..header.len : arrays'[p][header.arr][j] \in Users
  BY <1>4 DEF Filled
<1>5. CastsInside'
  <2> SUFFICES ASSUME NEW d \in Casts
               PROVE  /\ cast'[d].step \in {"lookup", "send"} =>
                           /\ Filled(cast[d].match, cast[d].from)'
                           /\ cast'[d].i \in 1..cast'[d].from.len
                      /\ cast'[d].step = "send" =>
                           cast'[d].conn \in Conns /\ reader'[cast'[d].conn] # "none"
    BY DEF CastsInside
  <2>1. CASE d = k
    BY <1>1, <1>4, <2>1 DEF Filled
  <2>2. CASE d # k
    BY <1>1, <1>4, <2>2 DEF MatchInv, CastsInside, Filled
  <2> QED
    BY <2>1, <2>2
<1> QED
  BY <1>2, <1>3, <1>5 DEF MatchInv

\* BroadcastToMatch begins at the first cell of a match that has any.
LEMMA BroadcastMatch ==
  ASSUME MatchInv, NEW k \in Casts, NEW m \in Matches, BroadcastToMatch(k, m)
  PROVE  MatchInv'
<1> DEFINE new == [step |-> IF slice[m].len = 0 THEN "done" ELSE "lookup", match |-> m,
                   from |-> slice[m], i |-> 1, conn |-> NoConn,
                   stayers |-> {u \in Members(m) : connections[u] # NoConn}, tried |-> {}]
<1>1. /\ cast' = [cast EXCEPT ![k] = new]
      /\ UNCHANGED <<slice, arrays, joined, alls, reader>>
  BY DEF BroadcastToMatch, matchVars, pumpVars
<1>2. slice[m] \in Slice /\ slice[m].len \in Nat
  BY DEF MatchInv, MatchTypes, Slice
<1>3. new \in CastState
  BY <1>2, MembersAreUsers DEF CastState
<1>4. new.step = "lookup" => Filled(m, slice[m]) /\ 1 \in 1..slice[m].len
  BY <1>2, MembersAreUsers
<1>5. new.step # "send" /\ new.match = m /\ new.from = slice[m] /\ new.i = 1
  OBVIOUS
<1> HIDE DEF new
<1> QED
  BY <1>1, <1>3, <1>4, <1>5, CastMoves

\* The loop goes on inside the slice, or ends.
LEMMA AdvanceMatch ==
  ASSUME MatchInv, NEW k \in Casts, cast[k].step \in {"lookup", "send"},
         NEW tried \in SUBSET Users, Advance(k, tried),
         UNCHANGED <<slice, arrays, joined, alls, reader>>
  PROVE  MatchInv'
<1> DEFINE new == [cast[k] EXCEPT !.step = IF PastLast(k) THEN "done" ELSE "lookup",
                                  !.i = cast[k].i + 1, !.conn = NoConn, !.tried = tried]
<1>1. cast[k] \in CastState /\ cast[k].from \in Slice /\ cast[k].from.len \in Nat
  BY DEF MatchInv, MatchTypes, CastState, Slice
<1>2. cast' = [cast EXCEPT ![k] = new]
  BY <1>1 DEF Advance, MatchInv, MatchTypes
<1>3. Filled(cast[k].match, cast[k].from) /\ cast[k].i \in 1..cast[k].from.len
  BY DEF MatchInv, CastsInside
<1>4. new \in CastState
  <2> DEFINE step == IF PastLast(k) THEN "done" ELSE "lookup"
             next == cast[k].i + 1
  <2>1. step \in {"done", "lookup"} /\ next \in Nat
    BY <1>1, <1>3
  <2> HIDE DEF step, next
  <2>2. [cast[k] EXCEPT !.step = step, !.i = next, !.conn = NoConn, !.tried = tried] \in CastState
    BY <1>1, <2>1 DEF CastState
  <2> QED
    BY <2>2 DEF step, next
<1>5. /\ new.step = IF PastLast(k) THEN "done" ELSE "lookup"
      /\ new.match = cast[k].match /\ new.from = cast[k].from /\ new.i = cast[k].i + 1
  BY <1>1 DEF CastState
<1>6. ~PastLast(k) => cast[k].i + 1 \in 1..cast[k].from.len
  BY <1>1, <1>3 DEF PastLast
<1> HIDE DEF new
<1> QED
  BY <1>2, <1>3, <1>4, <1>5, <1>6, CastMoves

\* SendToUser looks up a user, and sends on a connection that was opened.
LEMMA SendMatch ==
  ASSUME ConnInv, MatchInv, NEW k \in Casts, SendLookup(k) \/ SendFound(k)
  PROVE  MatchInv'
<1>1. UNCHANGED <<slice, arrays, joined, alls, reader>>
  BY DEF SendLookup, SendFound, matchVars, pumpVars
<1>2. cast[k] \in CastState
  BY DEF MatchInv, MatchTypes
<1>3. cast[k].step \in {"lookup", "send"}
  BY DEF SendLookup, SendFound
<1>4. Filled(cast[k].match, cast[k].from) /\ cast[k].i \in 1..cast[k].from.len
  BY <1>3 DEF MatchInv, CastsInside
<1>5. CASE SendFound(k)
  <2>1. cast[k].conn \in Conns /\ owner[cast[k].conn] \in Users
    BY <1>5 DEF SendFound, MatchInv, CastsInside, ConnInv, Opened
  <2>2. cast[k].tried \cup {owner[cast[k].conn]} \in SUBSET Users
    BY <1>2, <2>1 DEF CastState
  <2> QED
    BY <1>1, <1>3, <1>5, <2>2, AdvanceMatch DEF SendFound
<1>6. CASE SendLookup(k) /\ connections[Target(k)] = NoConn
  <2>1. cast[k].tried \in SUBSET Users
    BY <1>2 DEF CastState
  <2>2. Advance(k, cast[k].tried)
    BY <1>6 DEF SendLookup
  <2> QED
    BY <1>1, <1>3, <2>1, <2>2, AdvanceMatch
<1>7. CASE SendLookup(k) /\ connections[Target(k)] # NoConn
  <2> DEFINE c == connections[Target(k)]
             new == [cast[k] EXCEPT !.step = "send", !.conn = c]
  <2>1. Target(k) \in Users
    BY <1>4 DEF Filled, Target
  <2>2. c \in Conns /\ reader[c] # "none"
    BY <1>7, <2>1 DEF ConnInv, ConnTypes, Registered
  <2>3. cast' = [cast EXCEPT ![k].step = "send", ![k].conn = c]
    BY <1>7 DEF SendLookup
  <2> HIDE DEF c
  <2>4. cast' = [cast EXCEPT ![k] = new]
    BY <1>2, <2>3 DEF MatchInv, MatchTypes
  <2>5. new \in CastState
    BY <1>2, <2>2 DEF CastState
  <2>6. /\ new.match = cast[k].match /\ new.from = cast[k].from
        /\ new.i = cast[k].i /\ new.conn = c
    BY <1>2 DEF CastState
  <2> HIDE DEF new
  <2> QED
    BY <1>1, <1>4, <2>2, <2>4, <2>5, <2>6, CastMoves
<1> QED
  BY <1>5, <1>6, <1>7

\* Every step keeps the arrays filled and the broadcasts inside them.
LEMMA StepMatch == ConnInv /\ MatchInv /\ [Next]_vars => MatchInv'
<1> SUFFICES ASSUME ConnInv, MatchInv, [Next]_vars PROVE MatchInv'
  OBVIOUS
<1>1. ASSUME UNCHANGED <<slice, arrays, joined, cast>>, alls' \in 0..MaxAll,
             \A c \in Conns : reader[c] # "none" => reader'[c] # "none"
      PROVE  MatchInv'
  <2>1. MatchTypes' /\ SlicesFilled'
    BY <1>1 DEF MatchInv, MatchTypes, SlicesFilled, Filled
  <2>2. CastsInside'
    BY <1>1, CastsStay, SameGrows DEF MatchInv, CastsInside
  <2> QED
    BY <2>1, <2>2 DEF MatchInv
<1>2. alls \in 0..MaxAll
  BY DEF MatchInv, MatchTypes
<1>3. CASE UNCHANGED vars
  BY <1>1, <1>2, <1>3 DEF vars, matchVars, pumpVars
<1>4. CASE BroadcastAll
  BY <1>1, <1>2, <1>4, HubAssumption DEF BroadcastAll, matchVars, pumpVars
<1>5. ASSUME NEW c \in Conns, PeerGone(c) \/ ReadFails(c) \/ WritePump(c) PROVE MatchInv'
  BY <1>1, <1>2, <1>5 DEF PeerGone, ReadFails, WritePump, matchVars, pumpVars, ConnInv, ConnTypes
<1>6. ASSUME NEW c \in Conns, NEW u \in Users, Connect(c, u) PROVE MatchInv'
  <2>1. /\ UNCHANGED <<slice, arrays, joined, alls>>
        /\ Departs(u, Matches)
        /\ reader' = [reader EXCEPT ![c] = "reading"]
    BY <1>6 DEF Connect, matchVars
  <2>2. \A d \in Conns : reader[d] # "none" => reader'[d] # "none"
    BY <2>1 DEF ConnInv, ConnTypes
  <2>3. MatchTypes' /\ SlicesFilled'
    BY <2>1, DepartsCasts DEF MatchInv, MatchTypes, SlicesFilled, Filled
  <2>4. CastsInside'
    BY <2>1, <2>2, CastsStay, SameGrows, DepartsCasts DEF MatchInv, CastsInside
  <2> QED
    BY <2>3, <2>4 DEF MatchInv
<1>7. ASSUME NEW c \in Conns, Unregister(c) PROVE MatchInv'
  <2>1. owner[c] \in Users
    BY <1>7 DEF Unregister, ConnInv, Opened
  <2>2. /\ RemoveFrom(owner[c], Matches) /\ Departs(owner[c], Matches)
        /\ UNCHANGED <<joined, alls>>
        /\ reader' = [reader EXCEPT ![c] = "done"]
    BY <1>7 DEF Unregister
  <2>3. \A d \in Conns : reader[d] # "none" => reader'[d] # "none"
    BY <2>2 DEF ConnInv, ConnTypes
  <2> QED
    BY <2>1, <2>2, <2>3, LeavingMatch
<1>8. ASSUME NEW m \in Matches, NEW u \in Users, LeaveMatch(m, u) PROVE MatchInv'
  BY <1>8, LeavingMatch DEF LeaveMatch, pumpVars
<1>9. ASSUME NEW m \in Matches, NEW u \in Users, JoinMatch(m, u) PROVE MatchInv'
  BY <1>9, JoiningMatch
<1>10. ASSUME NEW k \in Casts, SendLookup(k) \/ SendFound(k) \/ \E m \in Matches : BroadcastToMatch(k, m)
       PROVE  MatchInv'
  BY <1>10, SendMatch, BroadcastMatch
<1> QED
  BY <1>3, <1>4, <1>5, <1>6, <1>7, <1>8, <1>9, <1>10 DEF Next

\* The hub's state is well typed for any number of users, connections and matches
\* of any size.
THEOREM HubTypeCorrect == Spec => []TypeOK
<1>1. ConnInv /\ MatchInv => TypeOK
  BY DEF ConnInv, ConnTypes, MatchInv, MatchTypes, TypeOK, Queue, Arrays
<1> QED
  BY <1>1, InitConn, StepConn, InitMatch, StepMatch, PTL DEF Spec

\* A broadcast never reads past the end of the array it walks and never takes spare
\* capacity for a user, although joins and departures write that array meanwhile.
THEOREM BroadcastsReadUsers ==
  Spec => [](\A k \in Casts : cast[k].step = "lookup" =>
               /\ cast[k].i \in 1..Len(arrays[cast[k].match][cast[k].from.arr])
               /\ Target(k) \in Users)
<1>1. ConnInv /\ MatchInv => \A k \in Casts : cast[k].step = "lookup" =>
               /\ cast[k].i \in 1..Len(arrays[cast[k].match][cast[k].from.arr])
               /\ Target(k) \in Users
  <2> SUFFICES ASSUME MatchInv, NEW k \in Casts, cast[k].step = "lookup"
               PROVE  /\ cast[k].i \in 1..Len(arrays[cast[k].match][cast[k].from.arr])
                      /\ Target(k) \in Users
    OBVIOUS
  <2> DEFINE m == cast[k].match
             header == cast[k].from
  <2>1. Filled(m, header) /\ cast[k].i \in 1..header.len
    BY DEF MatchInv, CastsInside
  <2>2. m \in Matches /\ header \in Slice /\ header.len \in Nat
    BY DEF MatchInv, MatchTypes, CastState, Slice
  <2>3. arrays[m][header.arr] \in Seq(Users \cup {NoUser})
    BY <2>1, <2>2 DEF MatchInv, MatchTypes, Arrays, Filled
  <2> DEFINE a == arrays[m][header.arr]
  <2>4. header.len <= Len(a) /\ \A j \in 1..header.len : a[j] \in Users
    BY <2>1 DEF Filled
  <2>5. Len(a) \in Nat
    <3> HIDE DEF a
    <3>1. a \in Seq(Users \cup {NoUser})
      BY <2>3 DEF a
    <3> QED
      BY <3>1
  <2>6. cast[k].i \in 1..Len(a) /\ a[cast[k].i] \in Users
    <3> HIDE DEF a
    <3> QED
      BY <2>1, <2>2, <2>4, <2>5
  <2> QED
    BY <2>6 DEF Target
<1> QED
  BY <1>1, InitConn, StepConn, InitMatch, StepMatch, PTL DEF Spec
-----------------------------------------------------------------------------
(* A broadcast to a match of two reaches those who stay *)

\* The members of a match have joined it, and a slice lists each of them once.
MembersOnce ==
  \A m \in Matches : \A i, j \in 1..slice[m].len :
    /\ <<m, arrays[m][slice[m].arr][j]>> \in joined
    /\ arrays[m][slice[m].arr][i] = arrays[m][slice[m].arr][j] => i = j

NobodyLeft(m) == \A u \in Users : <<m, u>> \in joined => u \in Members(m)

\* A broadcast walks beyond the members of its array only if somebody left.
WalksMembers ==
  \A k \in Casts :
    LET m == cast[k].match
    IN  cast[k].step \in {"lookup", "send"} /\ cast[k].from.arr = slice[m].arr /\ NobodyLeft(m)
          => cast[k].from.len <= slice[m].len

\* Those a broadcast is bound to reach are members, and connected.
StayersStay ==
  \A k \in Casts : \A u \in cast[k].stayers :
    u \in Members(cast[k].match) /\ connections[u] # NoConn

\* The next cell a broadcast will look at.
Ahead(k) == IF cast[k].step = "lookup" THEN cast[k].i ELSE cast[k].i + 1

\* The user is being sent to, or is in a cell the broadcast has not come to.
OnTheWay(k, u) ==
  \/ cast[k].step = "send" /\ owner[cast[k].conn] = u
  \/ /\ cast[k].step \in {"lookup", "send"}
     /\ \E j \in Ahead(k)..cast[k].from.len : arrays[cast[k].match][cast[k].from.arr][j] = u

StayersOwed ==
  \A k \in Casts : cast[k].step # "idle" /\ OfTwo(cast[k].match) =>
    \A u \in cast[k].stayers \ cast[k].tried : OnTheWay(k, u)

StayInv == MembersOnce /\ WalksMembers /\ StayersStay /\ StayersOwed

LEMMA InitStay == Init => StayInv
  BY DEF Init, StayInv, MembersOnce, WalksMembers, StayersStay, StayersOwed

\* The first cells of an array are all different.
Different(a, len) == \A p, q \in 1..len : a[p] = a[q] => p = q

\* The cells of b are those of a without the i-th, which leaves the last one free.
Shifted(b, a, len, i) == \A j \in 1..len : b[j] = IF j \in i..(len - 1) THEN a[j + 1] ELSE a[j]

\* What is left of a row of different cells when one is cut out.
LEMMA CutCells ==
  ASSUME NEW a, NEW b, NEW len \in Nat, NEW i \in 1..len,
         Different(a, len), Shifted(b, a, len, i),
         NEW all, all = {a[j] : j \in 1..len},
         NEW rest, rest = {b[j] : j \in 1..(len - 1)}
  PROVE  /\ rest = all \ {a[i]}
         /\ Different(b, len - 1)
<1> USE DEF Different, Shifted
<1>1. \A j \in 1..(len - 1) : \E p \in 1..len : p # i /\ b[j] = a[p] /\ p = IF j < i THEN j ELSE j + 1
  OBVIOUS
<1>2. \A p \in 1..len : p # i => \E j \in 1..(len - 1) : b[j] = a[p]
  <2> SUFFICES ASSUME NEW p \in 1..len, p # i PROVE \E j \in 1..(len - 1) : b[j] = a[p]
    OBVIOUS
  <2>1. CASE p < i
    <3>1. p \in 1..(len - 1) /\ b[p] = a[p]
      BY <2>1
    <3> QED
      BY <3>1
  <2>2. CASE p > i
    <3>1. p - 1 \in 1..(len - 1) /\ b[p - 1] = a[p]
      BY <2>2
    <3> QED
      BY <3>1
  <2> QED
    BY <2>1, <2>2
<1>3. \A p, q \in 1..(len - 1) : b[p] = b[q] => p = q
  <2> SUFFICES ASSUME NEW p \in 1..(len - 1), NEW q \in 1..(len - 1), b[p] = b[q] PROVE p = q
    OBVIOUS
  <2>1. PICK r \in 1..len : b[p] = a[r] /\ r = IF p < i THEN p ELSE p + 1
    BY <1>1
  <2>2. PICK s \in 1..len : b[q] = a[s] /\ s = IF q < i THEN q ELSE q + 1
    BY <1>1
  <2>3. r = s
    BY <2>1, <2>2
  <2> QED
    BY <2>1, <2>2, <2>3
<1>4. \A p \in 1..len : p # i <=> a[p] # a[i]
  OBVIOUS
<1> QED
  BY <1>1, <1>2, <1>3, <1>4

\* What happens to a match when its member v leaves.
CutOut(m, v) ==
  \E i \in 1..slice[m].len :
    /\ arrays[m][slice[m].arr][i] = v
    /\ slice'[m].arr = slice[m].arr /\ slice'[m].len = slice[m].len - 1
    /\ \A n \in 1..Len(arrays[m]) : \A j \in 1..Len(arrays[m][n]) :
         arrays'[m][n][j] = IF n = slice[m].arr /\ j \in i..(slice[m].len - 1)
                              THEN arrays[m][n][j + 1] ELSE arrays[m][n][j]

LEMMA RemoveFromCuts ==
  ASSUME MatchInv, NEW v \in Users, NEW ms \in SUBSET Matches, RemoveFrom(v, ms), NEW m \in Matches
  PROVE  IF m \in ms /\ v \in Members(m) THEN CutOut(m, v)
         ELSE slice'[m] = slice[m] /\ arrays'[m] = arrays[m]
<1> DEFINE i == CHOOSE i \in 1..slice[m].len : arrays[m][slice[m].arr][i] = v
           a == arrays[m][slice[m].arr]
<1>1. CASE ~(m \in ms /\ v \in Members(m))
  BY <1>1 DEF RemoveFrom
<1>2. CASE m \in ms /\ v \in Members(m)
  <2>1. i \in 1..slice[m].len /\ a[i] = v
    BY <1>2 DEF Members
  <2>2. /\ slice'[m] = [slice[m] EXCEPT !.len = slice[m].len - 1]
        /\ arrays'[m] = [arrays[m] EXCEPT ![slice[m].arr] = Removed(a, slice[m].len, i)]
    BY <1>2 DEF RemoveFrom
  <2>3. slice[m] \in Slice /\ arrays[m] \in Arrays /\ slice[m].arr \in 1..Len(arrays[m])
    BY <1>2, MembersAreUsers DEF MatchInv, MatchTypes, Filled
  <2>4. a \in Seq(Users \cup {NoUser})
    BY <2>3 DEF Arrays
  <2> HIDE DEF i
  <2>5. slice'[m].arr = slice[m].arr /\ slice'[m].len = slice[m].len - 1
    BY <2>2, <2>3 DEF Slice
  <2>6. \A n \in 1..Len(arrays[m]) :
          arrays'[m][n] = IF n = slice[m].arr THEN Removed(a, slice[m].len, i) ELSE arrays[m][n]
    BY <2>2, <2>3 DEF Arrays
  <2>7. \A j \in 1..Len(a) :
          Removed(a, slice[m].len, i)[j] = IF j \in i..(slice[m].len - 1) THEN a[j + 1] ELSE a[j]
    BY <2>4 DEF Removed
  <2> QED
    <3>1. \A n \in 1..Len(arrays[m]) : \A j \in 1..Len(arrays[m][n]) :
            arrays'[m][n][j] = IF n = slice[m].arr /\ j \in i..(slice[m].len - 1)
                                 THEN arrays[m][n][j + 1] ELSE arrays[m][n][j]
      BY <2>6, <2>7
    <3>2. CutOut(m, v)
      BY <2>1, <2>5, <3>1 DEF CutOut
    <3> QED
      BY <1>2, <3>2
<1> QED
  BY <1>1, <1>2

\* The first cells of b are those of a, with u behind them.
Extended(b, a, len, u) == \A j \in 1..(len + 1) : b[j] = IF j = len + 1 THEN u ELSE a[j]

\* The copy has the cells of the original in front, and the user behind them.
LEMMA GrownCells ==
  ASSUME NEW a \in Seq(Users \cup {NoUser}), NEW len \in Nat, len <= Len(a), NEW u,
         NEW b, b = [Grown(a) EXCEPT ![len + 1] = u]
  PROVE  Extended(b, a, len, u)
<1> DEFINE n == IF a = <<>> THEN 1 ELSE Len(a)
           more == [i \in 1..n |-> NoUser]
           g == a \o more
<1>1. Len(a) \in Nat /\ n \in Nat /\ n >= 1
  OBVIOUS
<1>2. more \in [1..n -> {NoUser}]
  OBVIOUS
<1> HIDE DEF n
<1>3. more \in Seq(Users \cup {NoUser}) /\ Len(more) = n
  BY <1>1, <1>2
<1> HIDE DEF more
<1>4. /\ g \in Seq(Users \cup {NoUser})
      /\ Len(g) = Len(a) + n
      /\ \A j \in 1..Len(a) : g[j] = a[j]
  BY <1>1, <1>3
<1> HIDE DEF g
<1>5. \A j \in 1..(len + 1) : j \in 1..Len(g) /\ (j # len + 1 => j \in 1..Len(a))
  BY <1>1, <1>4
<1>6. \A j \in 1..(len + 1) : [g EXCEPT ![len + 1] = u][j] = IF j = len + 1 THEN u ELSE a[j]
  BY <1>4, <1>5
<1> QED
  BY <1>6 DEF g, more, n, Grown, Extended

\* What happens to a match when w joins it.
PutIn(m, w) ==
  /\ slice'[m].len = slice[m].len + 1
  /\ slice'[m].arr = slice[m].arr \/ slice'[m].arr = Len(arrays[m]) + 1
  /\ \A j \in 1..slice[m].len : arrays'[m][slice'[m].arr][j] = arrays[m][slice[m].arr][j]
  /\ arrays'[m][slice'[m].arr][slice[m].len + 1] = w
  /\ \A n \in 1..Len(arrays[m]) : \A j \in 1..Len(arrays[m][n]) :
       ~(n = slice[m].arr /\ j = slice[m].len + 1) => arrays'[m][n][j] = arrays[m][n][j]

LEMMA JoinPutsIn ==
  ASSUME MatchInv, NEW m \in Matches, NEW w \in Users, JoinMatch(m, w), w \notin Members(m)
  PROVE  /\ PutIn(m, w)
         /\ \A p \in Matches \ {m} : slice'[p] = slice[p] /\ arrays'[p] = arrays[p]
<1> DEFINE old == slice[m]
           a == IF old.arr = 0 THEN <<>> ELSE arrays[m][old.arr]
<1>1. /\ old \in Slice /\ old.len \in Nat
      /\ arrays[m] \in Arrays /\ Len(arrays[m]) \in Nat
      /\ (old.len = 0 /\ old.arr = 0) \/ Filled(m, old)
  BY DEF MatchInv, MatchTypes, SlicesFilled, Slice, Arrays
<1>2. /\ a \in Seq(Users \cup {NoUser}) /\ Len(a) \in Nat
      /\ old.len <= Len(a)
  BY <1>1 DEF Filled, Arrays
<1>3. \A p \in Matches \ {m} : slice'[p] = slice[p] /\ arrays'[p] = arrays[p]
  BY DEF JoinMatch, MatchInv, MatchTypes
<1>4. CASE /\ old.len < Len(a)
           /\ slice' = [slice EXCEPT ![m] = [arr |-> old.arr, len |-> old.len + 1]]
           /\ arrays' = [arrays EXCEPT ![m] = [arrays[m] EXCEPT ![old.arr][old.len + 1] = w]]
  <2>1. a = arrays[m][old.arr] /\ old.arr \in 1..Len(arrays[m])
    BY <1>1, <1>4 DEF Filled
  <2> DEFINE b == [a EXCEPT ![old.len + 1] = w]
  <2>2. \A j \in 1..Len(a) : b[j] = IF j = old.len + 1 THEN w ELSE a[j]
    BY <1>2
  <2>3. arrays'[m] = [arrays[m] EXCEPT ![old.arr] = b]
    BY <1>1, <1>4, <2>1 DEF MatchInv, MatchTypes
  <2>4. slice'[m].arr = old.arr /\ slice'[m].len = old.len + 1
    BY <1>4 DEF MatchInv, MatchTypes
  <2>5. old.len + 1 \in 1..Len(a) /\ \A j \in 1..old.len : j \in 1..Len(a) /\ j # old.len + 1
    BY <1>1, <1>2, <1>4
  <2> HIDE DEF b, a, old
  <2>6. \A n \in 1..Len(arrays[m]) : arrays'[m][n] = IF n = old.arr THEN b ELSE arrays[m][n]
    BY <1>1, <2>1, <2>3 DEF Arrays
  <2>7. \A n \in 1..Len(arrays[m]) : \A j \in 1..Len(arrays[m][n]) :
          ~(n = old.arr /\ j = old.len + 1) => arrays'[m][n][j] = arrays[m][n][j]
    BY <2>1, <2>2, <2>6
  <2>8. /\ \A j \in 1..old.len : arrays'[m][old.arr][j] = arrays[m][old.arr][j]
        /\ arrays'[m][old.arr][old.len + 1] = w
    BY <2>1, <2>2, <2>5, <2>6
  <2> QED
    BY <1>3, <2>4, <2>7, <2>8 DEF PutIn, old
<1>5. CASE /\ ~(old.len < Len(a))
           /\ slice' = [slice EXCEPT ![m] = [arr |-> Len(arrays[m]) + 1, len |-> old.len + 1]]
           /\ arrays' = [arrays EXCEPT ![m] = Append(arrays[m], [Grown(a) EXCEPT ![old.len + 1] = w])]
  <2> DEFINE b == [Grown(a) EXCEPT ![old.len + 1] = w]
             n == Len(arrays[m]) + 1
  <2>1. \A j \in 1..(old.len + 1) : b[j] = IF j = old.len + 1 THEN w ELSE a[j]
    <3> DEFINE len == old.len
    <3>1. len \in Nat /\ len <= Len(a) /\ a \in Seq(Users \cup {NoUser})
      BY <1>1, <1>2
    <3> HIDE DEF a, len
    <3>2. b = [Grown(a) EXCEPT ![len + 1] = w]
      BY DEF len
    <3> HIDE DEF b
    <3>3. Extended(b, a, len, w)
      BY <3>1, <3>2, GrownCells
    <3> QED
      BY <3>3 DEF len, Extended
  <2>2. arrays'[m] = Append(arrays[m], b)
    BY <1>5 DEF MatchInv, MatchTypes
  <2>3. slice'[m].arr = n /\ slice'[m].len = old.len + 1
    BY <1>5 DEF MatchInv, MatchTypes
  <2>4. old.len # 0 => a = arrays[m][old.arr]
    BY <1>1 DEF Filled
  <2> HIDE DEF b, a, old
  <2>5. \A i \in 1..Len(arrays[m]) : arrays'[m][i] = arrays[m][i]
    BY <1>1, <2>2 DEF Arrays
  <2>6. arrays'[m][n] = b
    BY <1>1, <2>2 DEF Arrays
  <2>7. \A j \in 1..old.len : old.len # 0 /\ j \in 1..(old.len + 1) /\ j # old.len + 1
    BY <1>1
  <2>8. old.len + 1 \in 1..(old.len + 1)
    BY <1>1
  <2>9. /\ \A j \in 1..old.len : arrays'[m][n][j] = arrays[m][old.arr][j]
        /\ arrays'[m][n][old.len + 1] = w
    BY <2>1, <2>4, <2>6, <2>7, <2>8
  <2> QED
    BY <1>3, <2>3, <2>5, <2>9 DEF PutIn, old
<1> QED
  BY <1>4, <1>5 DEF JoinMatch, IsMember

\* The members after a departure: all the others, each once.
LEMMA CutMembers ==
  ASSUME MatchInv, MembersOnce, NEW m \in Matches, NEW v, CutOut(m, v), joined' = joined
  PROVE  /\ Members(m)' = Members(m) \ {v}
         /\ \A i, j \in 1..slice'[m].len :
              /\ <<m, arrays'[m][slice'[m].arr][j]>> \in joined'
              /\ arrays'[m][slice'[m].arr][i] = arrays'[m][slice'[m].arr][j] => i = j
<1> DEFINE len == slice[m].len
           a == arrays[m][slice[m].arr]
           b == arrays'[m][slice[m].arr]
<1>1. PICK i \in 1..len :
        /\ a[i] = v
        /\ slice'[m].arr = slice[m].arr /\ slice'[m].len = len - 1
        /\ \A n \in 1..Len(arrays[m]) : \A j \in 1..Len(arrays[m][n]) :
             arrays'[m][n][j] = IF n = slice[m].arr /\ j \in i..(len - 1)
                                  THEN arrays[m][n][j + 1] ELSE arrays[m][n][j]
  BY DEF CutOut
<1>2. len \in Nat /\ len # 0
  BY DEF MatchInv, MatchTypes, Slice
<1>3. Filled(m, slice[m])
  BY <1>2, MembersAreUsers
<1>4. arrays[m] \in Seq(Seq(Users \cup {NoUser})) /\ slice[m].arr \in 1..Len(arrays[m])
  BY <1>3 DEF Filled, MatchInv, MatchTypes, Arrays
<1>5. a \in Seq(Users \cup {NoUser})
  BY <1>4
<1>6. len <= Len(a) /\ Len(a) \in Nat
  BY <1>3, <1>5 DEF Filled
<1>7. Shifted(b, a, len, i)
  <2>1. \A j \in 1..Len(a) : b[j] = IF slice[m].arr = slice[m].arr /\ j \in i..(len - 1)
                                     THEN a[j + 1] ELSE a[j]
    BY <1>1, <1>4, Zenon
  <2>2. \A j \in 1..len : j \in 1..Len(a)
    BY <1>2, <1>6
  <2> QED
    BY <2>1, <2>2 DEF Shifted
<1>8. Different(a, len)
  BY DEF MembersOnce, Different
<1>9. \A p \in 1..len : <<m, a[p]>> \in joined
  BY DEF MembersOnce
<1>10. /\ Members(m) = {a[j] : j \in 1..len}
       /\ Members(m)' = {b[j] : j \in 1..(len - 1)}
  BY <1>1 DEF Members
<1>11. slice'[m].arr = slice[m].arr /\ slice'[m].len = len - 1 /\ a[i] = v
  BY <1>1
<1> HIDE DEF len, a, b
<1>12. /\ Members(m)' = Members(m) \ {a[i]}
       /\ Different(b, len - 1)
  BY <1>2, <1>7, <1>8, <1>10, CutCells
<1>13. \A j \in 1..(len - 1) : <<m, b[j]>> \in joined
  BY <1>9, <1>10, <1>12
<1> QED
  BY <1>11, <1>12, <1>13 DEF b, Different

\* The members after an arrival: the newcomer and all the others, each once.
LEMMA PutMembers ==
  ASSUME MatchInv, MembersOnce, NEW m \in Matches, NEW w, w \notin Members(m), PutIn(m, w),
         joined' = joined \cup {<<m, w>>}
  PROVE  /\ Members(m)' = Members(m) \cup {w}
         /\ \A i, j \in 1..slice'[m].len :
              /\ <<m, arrays'[m][slice'[m].arr][j]>> \in joined'
              /\ arrays'[m][slice'[m].arr][i] = arrays'[m][slice'[m].arr][j] => i = j
<1> DEFINE len == slice[m].len
           a == arrays[m][slice[m].arr]
           b == arrays'[m][slice'[m].arr]
<1>1. len \in Nat
  BY DEF MatchInv, MatchTypes, Slice
<1>2. /\ slice'[m].len = len + 1
      /\ \A j \in 1..len : b[j] = a[j]
      /\ b[len + 1] = w
  BY DEF PutIn
<1>3. \A p, q \in 1..len : a[p] = a[q] => p = q
  BY DEF MembersOnce
<1>4. \A p \in 1..len : <<m, a[p]>> \in joined /\ a[p] # w
  BY DEF MembersOnce, Members
<1>5. /\ Members(m) = {a[j] : j \in 1..len}
      /\ Members(m)' = {b[j] : j \in 1..(len + 1)}
  BY <1>2 DEF Members
<1> HIDE DEF a
<1>6. \A j \in 1..(len + 1) : j = len + 1 \/ j \in 1..len
  BY <1>1
<1>7. len + 1 \in 1..(len + 1) /\ \A j \in 1..len : j \in 1..(len + 1)
  BY <1>1
<1> HIDE DEF len, b
<1>8. {b[j] : j \in 1..(len + 1)} = {a[j] : j \in 1..len} \cup {w}
  BY <1>2, <1>6, <1>7
<1>9. \A j \in 1..(len + 1) : <<m, b[j]>> \in joined'
  BY <1>2, <1>4, <1>6
<1>10. \A i, j \in 1..(len + 1) : b[i] = b[j] => i = j
  BY <1>2, <1>3, <1>4, <1>6
<1> QED
  BY <1>2, <1>5, <1>8, <1>9, <1>10 DEF b

\* A departure shifts no cell of a player who stays, if the match had two players.
LEMMA CutKeepsCells ==
  ASSUME MatchInv, MembersOnce, NEW m \in Matches, OfTwo(m), NEW v \in Members(m), CutOut(m, v),
         NEW u \in Members(m), u # v,
         NEW n \in 1..Len(arrays[m]), NEW j \in 1..Len(arrays[m][n]), arrays[m][n][j] = u
  PROVE  arrays'[m][n][j] = u
<1> DEFINE len == slice[m].len
           a == arrays[m][slice[m].arr]
<1>1. PICK i \in 1..len :
        /\ a[i] = v
        /\ arrays'[m][n][j] = IF n = slice[m].arr /\ j \in i..(len - 1)
                                THEN arrays[m][n][j + 1] ELSE arrays[m][n][j]
  BY DEF CutOut
<1>2. SUFFICES ASSUME n = slice[m].arr, j \in i..(len - 1) PROVE FALSE
  BY <1>1
<1>3. len \in Nat /\ a[j] = u
  BY <1>2 DEF MatchInv, MatchTypes, Slice
<1>4. j \in 1..len /\ j + 1 \in 1..len /\ i # j /\ i # j + 1
  BY <1>1, <1>2, <1>3
<1>5. a[i] # a[j] /\ a[j] # a[j + 1] /\ a[i] # a[j + 1]
  <2>1. Different(a, len)
    BY DEF MembersOnce, Different
  <2> HIDE DEF a, len
  <2> QED
    BY <1>3, <1>4, <2>1 DEF Different
<1>6. \A p \in 1..len : a[p] \in Users /\ <<m, a[p]>> \in joined
  BY MembersAreUsers DEF MembersOnce, Members
<1> HIDE DEF a
<1> QED
  BY <1>4, <1>5, <1>6 DEF OfTwo

\* The newcomer is written behind what broadcasts walk, while the match has two players.
LEMMA PutKeepsCells ==
  ASSUME MatchInv, WalksMembers, NEW m \in Matches, NEW w \in Users, <<m, w>> \notin joined,
         PutIn(m, w), joined' = joined \cup {<<m, w>>}, OfTwo(m)', NEW u \in Members(m), u # w,
         MembersOnce,
         NEW k \in Casts, cast[k].step \in {"lookup", "send"}, cast[k].match = m,
         NEW j \in 1..cast[k].from.len, arrays[m][cast[k].from.arr][j] = u
  PROVE  arrays'[m][cast[k].from.arr][j] = u
<1> DEFINE n == cast[k].from.arr
<1>1. u \in Users /\ <<m, u>> \in joined
  BY MembersAreUsers DEF MembersOnce, Members
<1>2. NobodyLeft(m)
  <2> SUFFICES ASSUME NEW x \in Users, <<m, x>> \in joined PROVE x \in Members(m)
    BY DEF NobodyLeft
  <2>1. {x, u, w} \subseteq {y \in Users : <<m, y>> \in joined'}
    BY <1>1
  <2>2. x = u \/ u = w \/ x = w
    BY <2>1 DEF OfTwo
  <2> QED
    BY <2>2
<1>3. Filled(m, cast[k].from) /\ cast[k].from \in Slice /\ slice[m] \in Slice
  BY DEF MatchInv, MatchTypes, CastsInside, CastState
<1>4. n \in 1..Len(arrays[m]) /\ cast[k].from.len <= Len(arrays[m][n])
  BY <1>3 DEF Filled
<1>5. arrays[m] \in Arrays
  BY DEF MatchInv, MatchTypes
<1>6. arrays[m][n] \in Seq(Users \cup {NoUser})
  BY <1>4, <1>5 DEF Arrays
<1>7. Len(arrays[m][n]) \in Nat
  BY <1>6
<1>8. j \in 1..Len(arrays[m][n])
  BY <1>3, <1>4, <1>7 DEF Slice
<1>9. n = slice[m].arr => cast[k].from.len <= slice[m].len
  BY <1>2 DEF WalksMembers
<1>10. ~(n = slice[m].arr /\ j = slice[m].len + 1)
  BY <1>3, <1>9 DEF Slice
<1> QED
  BY <1>4, <1>8, <1>10 DEF PutIn

\* What Departs does to those a broadcast is bound to reach.
LEMMA DepartsStayers ==
  ASSUME MatchTypes, NEW u, NEW ms, Departs(u, ms), NEW k \in Casts
  PROVE  /\ cast'[k].tried = cast[k].tried
         /\ cast'[k].stayers = IF cast[k].match \in ms THEN cast[k].stayers \ {u} ELSE cast[k].stayers
<1>1. cast[k] \in CastState
  BY DEF MatchTypes
<1>2. cast'[k] = [cast[k] EXCEPT !.stayers = IF cast[k].match \in ms THEN @ \ {u} ELSE @]
  BY DEF Departs
<1> QED
  BY <1>1, <1>2 DEF CastState

\* A broadcast that does not move owes no more than before, if the cells it has not come
\* to keep the users it owes.
LEMMA OwedStays ==
  ASSUME MatchInv, StayersOwed, NEW k \in Casts,
         cast'[k].step = cast[k].step, cast'[k].match = cast[k].match, cast'[k].tried = cast[k].tried,
         cast'[k].from = cast[k].from, cast'[k].i = cast[k].i, cast'[k].conn = cast[k].conn,
         cast[k].step = "send" => owner'[cast[k].conn] = owner[cast[k].conn],
         cast'[k].step # "idle", OfTwo(cast[k].match), NEW u \in cast[k].stayers, u \notin cast'[k].tried,
         cast[k].step \in {"lookup", "send"} =>
           \A j \in 1..cast[k].from.len :
             arrays[cast[k].match][cast[k].from.arr][j] = u =>
               arrays'[cast[k].match][cast[k].from.arr][j] = u
  PROVE  OnTheWay(k, u)'
<1>1. OnTheWay(k, u)
  BY DEF StayersOwed
<1>2. Ahead(k)' = Ahead(k)
  BY DEF Ahead
<1>3. CASE cast[k].step = "send" /\ owner[cast[k].conn] = u
  BY <1>3 DEF OnTheWay
<1>4. ASSUME cast[k].step \in {"lookup", "send"},
             NEW j \in Ahead(k)..cast[k].from.len, arrays[cast[k].match][cast[k].from.arr][j] = u
      PROVE  OnTheWay(k, u)'
  <2>1. cast[k].i \in 1..cast[k].from.len /\ cast[k].from.len \in Nat
    BY <1>4 DEF MatchInv, MatchTypes, CastsInside, CastState, Slice
  <2>2. j \in 1..cast[k].from.len
    BY <1>4, <2>1 DEF Ahead
  <2>3. arrays'[cast[k].match][cast[k].from.arr][j] = u
    BY <1>4, <2>2
  <2> QED
    BY <1>2, <1>4, <2>3 DEF OnTheWay
<1> QED
  BY <1>1, <1>3, <1>4 DEF OnTheWay

\* Whoever leaves, and however its connection ends, the others keep what they are owed.
LEMMA LeavingStay ==
  ASSUME MatchInv, StayInv, NEW v \in Users, NEW ms \in SUBSET Matches,
         RemoveFrom(v, ms), Departs(v, ms), joined' = joined, owner' = owner,
         \A u \in Users \ {v} : connections'[u] = connections[u],
         ms = Matches \/ connections' = connections
  PROVE  StayInv'
<1>1. ASSUME NEW m \in Matches
      PROVE  \/ /\ slice'[m] = slice[m] /\ arrays'[m] = arrays[m] /\ Members(m)' = Members(m)
                /\ m \in ms => v \notin Members(m)
             \/ m \in ms /\ v \in Members(m) /\ CutOut(m, v) /\ Members(m)' = Members(m) \ {v}
  <2>1. CASE m \in ms /\ v \in Members(m)
    BY <2>1, RemoveFromCuts, CutMembers DEF StayInv
  <2>2. CASE ~(m \in ms /\ v \in Members(m))
    <3>1. slice'[m] = slice[m] /\ arrays'[m] = arrays[m]
      BY <2>2, RemoveFromCuts
    <3> QED
      BY <2>2, <3>1 DEF Members
  <2> QED
    BY <2>1, <2>2
<1>2. ASSUME NEW k \in Casts
      PROVE  /\ cast[k].match \in Matches /\ cast[k].stayers \subseteq Users
             /\ cast'[k].match = cast[k].match /\ cast'[k].step = cast[k].step
             /\ cast'[k].from = cast[k].from /\ cast'[k].i = cast[k].i
             /\ cast'[k].conn = cast[k].conn /\ cast'[k].tried = cast[k].tried
             /\ cast'[k].stayers \subseteq cast[k].stayers
             /\ cast[k].match \in ms => v \notin cast'[k].stayers
  <2>1. MatchTypes
    BY DEF MatchInv
  <2>2. cast[k].match \in Matches /\ cast[k].stayers \subseteq Users
    BY <2>1 DEF MatchTypes, CastState
  <2>3. /\ cast'[k].match = cast[k].match /\ cast'[k].step = cast[k].step
        /\ cast'[k].from = cast[k].from /\ cast'[k].i = cast[k].i /\ cast'[k].conn = cast[k].conn
    BY <2>1, DepartsCasts
  <2>4. /\ cast'[k].tried = cast[k].tried
        /\ cast'[k].stayers = IF cast[k].match \in ms THEN cast[k].stayers \ {v} ELSE cast[k].stayers
    BY <2>1, DepartsStayers
  <2> QED
    BY <2>2, <2>3, <2>4
<1>3. MembersOnce'
  <2> SUFFICES ASSUME NEW m \in Matches
               PROVE  \A i, j \in 1..slice'[m].len :
                        /\ <<m, arrays'[m][slice'[m].arr][j]>> \in joined'
                        /\ arrays'[m][slice'[m].arr][i] = arrays'[m][slice'[m].arr][j] => i = j
    BY DEF MembersOnce
  <2>1. CASE slice'[m] = slice[m] /\ arrays'[m] = arrays[m]
    BY <2>1 DEF StayInv, MembersOnce
  <2>2. CASE CutOut(m, v)
    BY <2>2, CutMembers DEF StayInv
  <2> QED
    BY <1>1, <2>1, <2>2
<1>4. WalksMembers'
  <2> SUFFICES ASSUME NEW k \in Casts, cast'[k].step \in {"lookup", "send"},
                      cast'[k].from.arr = slice'[cast'[k].match].arr, NobodyLeft(cast[k].match)'
               PROVE  cast'[k].from.len <= slice'[cast'[k].match].len
    BY DEF WalksMembers
  <2>1. PICK m \in Matches : m = cast[k].match
    BY <1>2
  <2>2. /\ cast[k].step \in {"lookup", "send"} /\ cast[k].from.arr = slice'[m].arr
        /\ cast'[k].match = m /\ cast'[k].from = cast[k].from
    BY <1>2, <2>1
  <2>3. \A u \in Users : <<m, u>> \in joined => u \in Members(m)'
    BY <2>1, <2>2 DEF NobodyLeft, Members
  <2>4. CASE slice'[m] = slice[m] /\ Members(m)' = Members(m)
    <3>1. NobodyLeft(m)
      BY <2>3, <2>4 DEF NobodyLeft
    <3> QED
      BY <2>1, <2>2, <2>4, <3>1 DEF StayInv, WalksMembers
  <2>5. CASE v \in Members(m) /\ Members(m)' = Members(m) \ {v}
    <3>1. <<m, v>> \in joined
      BY <2>5 DEF StayInv, MembersOnce, Members
    <3> QED
      BY <2>3, <2>5, <3>1
  <2> QED
    BY <1>1, <2>4, <2>5
<1>5. StayersStay'
  <2> SUFFICES ASSUME NEW k \in Casts, NEW u \in cast'[k].stayers
               PROVE  u \in Members(cast[k].match)' /\ connections'[u] # NoConn
    BY DEF StayersStay
  <2>1. u \in Users /\ u \in Members(cast[k].match) /\ connections[u] # NoConn
    BY <1>2 DEF StayInv, StayersStay
  <2>2. PICK m \in Matches : m = cast[k].match /\ cast'[k].match = m /\ (m \in ms => u # v)
    BY <1>2
  <2>3. u \in Members(m)'
    BY <1>1, <2>1, <2>2
  <2>4. connections'[u] # NoConn
    BY <2>1, <2>2
  <2> QED
    BY <2>2, <2>3, <2>4 DEF Members
<1>6. StayersOwed'
  <2> SUFFICES ASSUME NEW k \in Casts, cast'[k].step # "idle", OfTwo(cast[k].match)',
                      NEW u \in cast'[k].stayers, u \notin cast'[k].tried
               PROVE  OnTheWay(k, u)'
    BY DEF StayersOwed
  <2>1. PICK m \in Matches : m = cast[k].match /\ cast'[k].match = m
    BY <1>2
  <2>2. OfTwo(m)
    BY <2>1 DEF OfTwo
  <2>3. u \in cast[k].stayers /\ u \in Members(m) /\ (m \in ms => u # v)
    BY <1>2, <2>1 DEF StayInv, StayersStay
  <2>4. PICK n : n = cast[k].from.arr
    OBVIOUS
  <2>5. ASSUME cast[k].step \in {"lookup", "send"},
               NEW j \in 1..cast[k].from.len, arrays[m][n][j] = u
        PROVE  arrays'[m][n][j] = u
    <3>1. Filled(m, cast[k].from) /\ cast[k].from \in Slice
      BY <2>1, <2>5 DEF MatchInv, MatchTypes, CastsInside, CastState
    <3>2. n \in 1..Len(arrays[m]) /\ arrays[m] \in Arrays /\ cast[k].from.len <= Len(arrays[m][n])
      BY <2>4, <3>1 DEF Filled, MatchInv, MatchTypes
    <3>3. arrays[m][n] \in Seq(Users \cup {NoUser})
      BY <3>2 DEF Arrays
    <3>4. Len(arrays[m][n]) \in Nat
      BY <3>3
    <3>5. j \in 1..Len(arrays[m][n])
      BY <3>1, <3>2, <3>4 DEF Slice
    <3>6. CASE arrays'[m] = arrays[m]
      BY <2>5, <3>6
    <3>7. CASE v \in Members(m) /\ CutOut(m, v) /\ u # v
      BY <2>2, <2>3, <2>5, <3>2, <3>5, <3>7, CutKeepsCells DEF StayInv
    <3> QED
      BY <1>1, <2>3, <3>6, <3>7
  <2> QED
    BY <1>2, <2>1, <2>2, <2>3, <2>4, <2>5, OwedStays DEF StayInv
<1> QED
  BY <1>3, <1>4, <1>5, <1>6 DEF StayInv

\* A newcomer disturbs no broadcast of a match that still has at most two players.
LEMMA JoiningStay ==
  ASSUME MatchInv, StayInv, NEW m \in Matches, NEW w \in Users, <<m, w>> \notin joined, JoinMatch(m, w)
  PROVE  StayInv'
<1>1. w \notin Members(m)
  BY DEF StayInv, MembersOnce, Members
<1>2. /\ joined' = joined \cup {<<m, w>>}
      /\ connections' = connections /\ owner' = owner /\ cast' = cast
  BY DEF JoinMatch, connVars
<1>3. /\ PutIn(m, w)
      /\ \A p \in Matches \ {m} : slice'[p] = slice[p] /\ arrays'[p] = arrays[p]
  BY <1>1, JoinPutsIn
<1>4. /\ Members(m)' = Members(m) \cup {w}
      /\ \A p \in Matches \ {m} : Members(p)' = Members(p)
  BY <1>1, <1>2, <1>3, PutMembers DEF StayInv, Members
<1>5. ASSUME NEW k \in Casts
      PROVE  /\ cast[k].match \in Matches
             /\ cast[k].step \in {"lookup", "send"} => Filled(cast[k].match, cast[k].from)
  BY DEF MatchInv, MatchTypes, CastsInside, CastState
<1>6. MembersOnce'
  <2> SUFFICES ASSUME NEW p \in Matches
               PROVE  \A i, j \in 1..slice'[p].len :
                        /\ <<p, arrays'[p][slice'[p].arr][j]>> \in joined'
                        /\ arrays'[p][slice'[p].arr][i] = arrays'[p][slice'[p].arr][j] => i = j
    BY DEF MembersOnce
  <2>1. CASE p = m
    BY <1>1, <1>2, <1>3, <2>1, PutMembers DEF StayInv
  <2>2. CASE p # m
    BY <1>2, <1>3, <2>2 DEF StayInv, MembersOnce
  <2> QED
    BY <2>1, <2>2
<1>7. WalksMembers'
  <2> SUFFICES ASSUME NEW k \in Casts, cast[k].step \in {"lookup", "send"},
                      cast[k].from.arr = slice'[cast[k].match].arr, NobodyLeft(cast[k].match)'
               PROVE  cast[k].from.len <= slice'[cast[k].match].len
    BY <1>2 DEF WalksMembers
  <2>1. PICK p \in Matches : p = cast[k].match
    BY <1>5
  <2>2. \A u \in Users : <<p, u>> \in joined' => u \in Members(p)'
    BY <1>2, <2>1 DEF NobodyLeft, Members
  <2>3. CASE p # m
    <3>1. NobodyLeft(p)
      BY <1>2, <1>4, <2>2, <2>3 DEF NobodyLeft
    <3> QED
      BY <1>3, <2>1, <2>3, <3>1 DEF StayInv, WalksMembers
  <2>4. CASE p = m /\ slice'[m].arr = slice[m].arr
    <3>1. NobodyLeft(m)
      BY <1>2, <1>4, <2>2, <2>4 DEF NobodyLeft
    <3>2. cast[k].from.len <= slice[m].len
      BY <2>1, <2>4, <3>1 DEF StayInv, WalksMembers
    <3>3. cast[k].from.len \in Nat /\ slice[m].len \in Nat /\ slice'[m].len = slice[m].len + 1
      BY <1>3 DEF MatchInv, MatchTypes, CastState, Slice, PutIn
    <3> QED
      BY <2>1, <2>4, <3>2, <3>3
  <2>5. CASE p = m /\ slice'[m].arr # slice[m].arr
    <3>1. slice'[m].arr = Len(arrays[m]) + 1
      BY <1>3, <2>5 DEF PutIn
    <3>2. Len(arrays[m]) \in Nat
      BY DEF MatchInv, MatchTypes, Arrays
    <3>3. cast[k].from.arr \in 1..Len(arrays[m])
      BY <1>5, <2>1, <2>5 DEF Filled
    <3> QED
      BY <2>1, <2>5, <3>1, <3>2, <3>3
  <2> QED
    BY <2>3, <2>4, <2>5
<1>8. StayersStay'
  <2> SUFFICES ASSUME NEW k \in Casts, NEW u \in cast[k].stayers
               PROVE  u \in Members(cast[k].match)' /\ connections[u] # NoConn
    BY <1>2 DEF StayersStay
  <2>1. u \in Members(cast[k].match) /\ connections[u] # NoConn
    BY DEF StayInv, StayersStay
  <2>2. PICK p \in Matches : p = cast[k].match
    BY <1>5
  <2>3. u \in Members(p)'
    BY <1>4, <2>1, <2>2
  <2> QED
    BY <1>2, <2>1, <2>2, <2>3 DEF Members
<1>9. StayersOwed'
  <2> SUFFICES ASSUME NEW k \in Casts, cast'[k].step # "idle", OfTwo(cast[k].match)',
                      NEW u \in cast[k].stayers, u \notin cast'[k].tried
               PROVE  OnTheWay(k, u)'
    BY <1>2 DEF StayersOwed
  <2>1. PICK p \in Matches : p = cast[k].match
    BY <1>5
  <2>2. OfTwo(p)' /\ OfTwo(p)
    BY <1>2, <2>1 DEF OfTwo
  <2>3. u \in Members(p) /\ (p = m => u # w)
    BY <1>1, <2>1 DEF StayInv, StayersStay
  <2>4. PICK n : n = cast[k].from.arr
    OBVIOUS
  <2>5. ASSUME cast[k].step \in {"lookup", "send"},
               NEW j \in 1..cast[k].from.len, arrays[p][n][j] = u
        PROVE  arrays'[p][n][j] = u
    <3>1. CASE p # m
      BY <1>3, <2>5, <3>1
    <3>2. CASE p = m
      <4>1. OfTwo(m)'
        BY <2>2, <3>2 DEF OfTwo
      <4>2. /\ u \in Members(m) /\ u # w /\ cast[k].match = m
            /\ arrays[m][cast[k].from.arr][j] = u
        BY <2>1, <2>3, <2>4, <2>5, <3>2
      <4>3. arrays'[m][cast[k].from.arr][j] = u
        BY <1>2, <1>3, <2>5, <4>1, <4>2, PutKeepsCells DEF StayInv
      <4> QED
        BY <2>4, <3>2, <4>3
    <3> QED
      BY <3>1, <3>2
  <2> QED
    BY <1>2, <2>1, <2>2, <2>4, <2>5, OwedStays DEF StayInv
<1> QED
  BY <1>6, <1>7, <1>8, <1>9 DEF StayInv

\* Whoever connects is owed nothing by the broadcasts under way, and the others all.
LEMMA ConnectStay ==
  ASSUME ConnInv, MatchInv, StayInv, NEW c \in Conns, NEW v \in Users, Connect(c, v)
  PROVE  StayInv'
<1>1. /\ UNCHANGED <<slice, arrays, joined>>
      /\ connections' = [connections EXCEPT ![v] = c] /\ owner' = [owner EXCEPT ![c] = v]
      /\ Departs(v, Matches)
      /\ reader[c] = "none"
  BY HubAssumption DEF Connect, matchVars
<1>2. ASSUME NEW k \in Casts
      PROVE  /\ cast'[k].match = cast[k].match /\ cast'[k].step = cast[k].step
             /\ cast'[k].from = cast[k].from /\ cast'[k].i = cast[k].i
             /\ cast'[k].conn = cast[k].conn /\ cast'[k].tried = cast[k].tried
             /\ cast'[k].stayers = cast[k].stayers \ {v} /\ cast[k].stayers \subseteq Users
             /\ cast[k].step = "send" => owner'[cast[k].conn] = owner[cast[k].conn]
  <2>1. MatchTypes
    BY DEF MatchInv
  <2>2. cast[k].match \in Matches /\ cast[k].stayers \subseteq Users
    BY <2>1 DEF MatchTypes, CastState
  <2>3. /\ cast'[k].match = cast[k].match /\ cast'[k].step = cast[k].step
        /\ cast'[k].from = cast[k].from /\ cast'[k].i = cast[k].i /\ cast'[k].conn = cast[k].conn
    BY <1>1, <2>1, DepartsCasts
  <2>4. cast'[k].tried = cast[k].tried /\ cast'[k].stayers = cast[k].stayers \ {v}
    BY <1>1, <2>1, <2>2, DepartsStayers
  <2>5. cast[k].step = "send" => owner'[cast[k].conn] = owner[cast[k].conn]
    BY <1>1 DEF MatchInv, CastsInside, ConnInv, ConnTypes
  <2> QED
    BY <2>2, <2>3, <2>4, <2>5
<1>3. MembersOnce'
  BY <1>1 DEF StayInv, MembersOnce
<1>4. WalksMembers'
  BY <1>1, <1>2 DEF StayInv, WalksMembers, NobodyLeft, Members
<1>5. StayersStay'
  <2> SUFFICES ASSUME NEW k \in Casts, NEW u \in cast'[k].stayers
               PROVE  u \in Members(cast[k].match)' /\ connections'[u] # NoConn
    BY DEF StayersStay
  <2>1. u \in Users /\ u # v /\ u \in Members(cast[k].match) /\ connections[u] # NoConn
    BY <1>2 DEF StayInv, StayersStay
  <2> QED
    <3>1. connections'[u] = connections[u]
      BY <1>1, <2>1 DEF ConnInv, ConnTypes
    <3>2. u \in Members(cast[k].match)'
      BY <1>1, <1>2, <2>1 DEF Members
    <3> QED
      BY <2>1, <3>1, <3>2
<1>6. StayersOwed'
  <2> SUFFICES ASSUME NEW k \in Casts, cast'[k].step # "idle", OfTwo(cast[k].match)',
                      NEW u \in cast'[k].stayers, u \notin cast'[k].tried
               PROVE  OnTheWay(k, u)'
    BY DEF StayersOwed
  <2>1. OfTwo(cast[k].match) /\ u \in cast[k].stayers
    BY <1>1, <1>2 DEF OfTwo
  <2> QED
    BY <1>1, <1>2, <2>1, OwedStays DEF StayInv
<1> QED
  BY <1>3, <1>4, <1>5, <1>6 DEF StayInv

\* A step of one broadcast keeps what holds of all, if it keeps what holds of this one.
LEMMA CastStays ==
  ASSUME MatchInv, StayInv, NEW k \in Casts,
         UNCHANGED <<slice, arrays, joined, connections, owner>>,
         \A d \in Casts \ {k} : cast'[d] = cast[d],
         cast'[k].step \in {"lookup", "send"} /\ cast'[k].from.arr = slice[cast'[k].match].arr
           /\ NobodyLeft(cast'[k].match) => cast'[k].from.len <= slice[cast'[k].match].len,
         \A u \in cast'[k].stayers : u \in Members(cast'[k].match) /\ connections[u] # NoConn,
         cast'[k].step # "idle" /\ OfTwo(cast'[k].match) =>
           \A u \in cast'[k].stayers \ cast'[k].tried : OnTheWay(k, u)'
  PROVE  StayInv'
<1>1. MembersOnce'
  BY DEF StayInv, MembersOnce
<1>2. WalksMembers'
  <2> SUFFICES ASSUME NEW d \in Casts, cast'[d].step \in {"lookup", "send"},
                      cast'[d].from.arr = slice'[cast'[d].match].arr, NobodyLeft(cast[d].match)'
               PROVE  cast'[d].from.len <= slice'[cast'[d].match].len
    BY DEF WalksMembers
  <2>1. NobodyLeft(cast'[d].match)
    BY DEF NobodyLeft, Members
  <2>2. CASE d = k
    BY <2>1, <2>2
  <2>3. CASE d # k
    <3>1. cast'[d] = cast[d]
      BY <2>3
    <3> QED
      BY <2>1, <3>1 DEF StayInv, WalksMembers
  <2> QED
    BY <2>2, <2>3
<1>3. StayersStay'
  BY DEF StayInv, StayersStay, Members
<1>4. StayersOwed'
  BY DEF StayInv, StayersOwed, OfTwo, OnTheWay, Ahead
<1> QED
  BY <1>1, <1>2, <1>3, <1>4 DEF StayInv

\* A broadcast that begins has every connected member ahead of it.
LEMMA BroadcastStay ==
  ASSUME MatchInv, StayInv, NEW k \in Casts, NEW m \in Matches, BroadcastToMatch(k, m)
  PROVE  StayInv'
<1> DEFINE new == [step |-> IF slice[m].len = 0 THEN "done" ELSE "lookup", match |-> m,
                   from |-> slice[m], i |-> 1, conn |-> NoConn,
                   stayers |-> {u \in Members(m) : connections[u] # NoConn}, tried |-> {}]
<1>1. /\ cast' = [cast EXCEPT ![k] = new]
      /\ UNCHANGED <<slice, arrays, joined, connections, owner>>
  BY DEF BroadcastToMatch, matchVars, connVars
<1>2. cast'[k] = new /\ \A d \in Casts \ {k} : cast'[d] = cast[d]
  BY <1>1 DEF MatchInv, MatchTypes
<1>3. slice[m].len \in Nat
  BY DEF MatchInv, MatchTypes, Slice
<1>4. /\ cast'[k].match = m /\ cast'[k].from = slice[m] /\ cast'[k].i = 1 /\ cast'[k].tried = {}
      /\ cast'[k].step = IF slice[m].len = 0 THEN "done" ELSE "lookup"
      /\ \A u \in cast'[k].stayers : u \in Members(m) /\ connections[u] # NoConn
  BY <1>2
<1>5. ASSUME NEW u \in cast'[k].stayers PROVE OnTheWay(k, u)'
  <2>1. PICK j \in 1..slice[m].len : arrays[m][slice[m].arr][j] = u
    BY <1>4, <1>5 DEF Members
  <2>2. cast'[k].step = "lookup"
    BY <1>3, <1>4, <2>1
  <2> QED
    BY <1>1, <1>4, <2>1, <2>2 DEF OnTheWay, Ahead
<1>6. cast'[k].from.len <= slice[cast'[k].match].len
  BY <1>3, <1>4
<1> QED
  BY <1>1, <1>2, <1>4, <1>5, <1>6, CastStays

\* The user in the cell just looked at is sent to, or had no connection and is owed nothing.
LEMMA SendStay ==
  ASSUME ConnInv, MatchInv, StayInv, NEW k \in Casts, SendLookup(k) \/ SendFound(k)
  PROVE  StayInv'
<1>1. /\ UNCHANGED <<slice, arrays, joined, connections, owner>>
      /\ \A d \in Casts \ {k} : cast'[d] = cast[d]
  BY DEF SendLookup, SendFound, Advance, matchVars, connVars, MatchInv, MatchTypes
<1>2. cast[k] \in CastState /\ cast[k].from.len \in Nat
  BY DEF MatchInv, MatchTypes, CastState, Slice
<1>3. /\ cast[k].step \in {"lookup", "send"} /\ cast[k].i \in 1..cast[k].from.len
      /\ Filled(cast[k].match, cast[k].from)
  BY DEF SendLookup, SendFound, MatchInv, CastsInside
<1>4. cast'[k].match = cast[k].match /\ cast'[k].from = cast[k].from /\ cast'[k].stayers = cast[k].stayers
  BY <1>2 DEF SendLookup, SendFound, Advance, MatchInv, MatchTypes, CastState
<1>5. ASSUME OfTwo(cast[k].match), NEW u \in cast[k].stayers \ cast'[k].tried,
             cast[k].tried \subseteq cast'[k].tried
      PROVE  OnTheWay(k, u)
  BY <1>3, <1>5 DEF StayInv, StayersOwed
<1>6. ASSUME NEW u,
             \E j \in (cast[k].i + 1)..cast[k].from.len : arrays[cast[k].match][cast[k].from.arr][j] = u,
             \/ cast'[k].step = "send" /\ cast'[k].i = cast[k].i
             \/ cast'[k].step = (IF PastLast(k) THEN "done" ELSE "lookup") /\ cast'[k].i = cast[k].i + 1
      PROVE  OnTheWay(k, u)'
  <2>1. PICK j \in (cast[k].i + 1)..cast[k].from.len : arrays[cast[k].match][cast[k].from.arr][j] = u
    BY <1>6
  <2>2. ~PastLast(k)
    BY <1>2, <1>3, <2>1 DEF PastLast
  <2>3. Ahead(k)' = cast[k].i + 1
    BY <1>6, <2>2 DEF Ahead
  <2> QED
    BY <1>1, <1>4, <1>6, <2>1, <2>2, <2>3 DEF OnTheWay
<1>7. \A u \in cast[k].stayers \ cast'[k].tried :
        OfTwo(cast[k].match) => OnTheWay(k, u)'
  <2> SUFFICES ASSUME OfTwo(cast[k].match), NEW u \in cast[k].stayers \ cast'[k].tried
               PROVE  OnTheWay(k, u)'
    OBVIOUS
  <2>1. CASE SendFound(k)
    <3>1. /\ cast'[k].tried = cast[k].tried \cup {owner[cast[k].conn]}
          /\ cast'[k].step = (IF PastLast(k) THEN "done" ELSE "lookup") /\ cast'[k].i = cast[k].i + 1
      BY <1>2, <2>1 DEF SendFound, Advance, MatchInv, MatchTypes, CastState
    <3>2. OnTheWay(k, u) /\ owner[cast[k].conn] # u
      BY <1>5, <3>1
    <3>3. \E j \in (cast[k].i + 1)..cast[k].from.len : arrays[cast[k].match][cast[k].from.arr][j] = u
      BY <2>1, <3>2 DEF OnTheWay, Ahead, SendFound
    <3> QED
      BY <1>6, <3>1, <3>3
  <2>2. CASE SendLookup(k)
    <3>1. cast'[k].tried = cast[k].tried /\ cast[k].step = "lookup"
      BY <1>2, <2>2 DEF SendLookup, Advance, MatchInv, MatchTypes, CastState
    <3>2. PICK j \in cast[k].i..cast[k].from.len : arrays[cast[k].match][cast[k].from.arr][j] = u
      BY <1>5, <3>1 DEF OnTheWay, Ahead
    <3>3. connections[u] # NoConn /\ u \in Users
      BY <1>2 DEF StayInv, StayersStay, CastState
    <3>4. CASE j = cast[k].i
      <4>1. Target(k) = u
        BY <3>2, <3>4 DEF Target
      <4>2. cast' = [cast EXCEPT ![k].step = "send", ![k].conn = connections[u]]
        BY <2>2, <3>3, <4>1 DEF SendLookup
      <4>3. cast'[k].step = "send" /\ cast'[k].conn = connections[u]
        BY <1>2, <4>2 DEF MatchInv, MatchTypes, CastState
      <4> QED
        BY <1>1, <3>3, <4>3 DEF OnTheWay, ConnInv, Registered
    <3>5. CASE j # cast[k].i
      <4>1. j \in (cast[k].i + 1)..cast[k].from.len
        BY <1>2, <1>3, <3>5
      <4>2. \/ cast'[k].step = "send" /\ cast'[k].i = cast[k].i
            \/ cast'[k].step = (IF PastLast(k) THEN "done" ELSE "lookup") /\ cast'[k].i = cast[k].i + 1
        BY <1>2, <2>2 DEF SendLookup, Advance, MatchInv, MatchTypes, CastState
      <4> QED
        BY <1>6, <3>2, <4>1, <4>2
    <3> QED
      BY <3>4, <3>5
  <2> QED
    BY <2>1, <2>2
<1>8. cast'[k].from.arr = slice[cast[k].match].arr /\ NobodyLeft(cast[k].match)
        => cast'[k].from.len <= slice[cast[k].match].len
  BY <1>3, <1>4 DEF StayInv, WalksMembers
<1>9. \A u \in cast'[k].stayers : u \in Members(cast[k].match) /\ connections[u] # NoConn
  BY <1>4 DEF StayInv, StayersStay
<1> QED
  BY <1>1, <1>4, <1>7, <1>8, <1>9, CastStays

\* Every step keeps what a broadcast owes to those who stay.
LEMMA StepStay == ConnInv /\ MatchInv /\ StayInv /\ [Next]_vars => StayInv'
<1> SUFFICES ASSUME ConnInv, MatchInv, StayInv, [Next]_vars PROVE StayInv'
  OBVIOUS
<1>1. ASSUME UNCHANGED <<slice, arrays, joined, connections, owner, cast>> PROVE StayInv'
  <2>1. MembersOnce' /\ StayersStay'
    BY <1>1 DEF StayInv, MembersOnce, StayersStay, Members
  <2>2. WalksMembers'
    BY <1>1 DEF StayInv, WalksMembers, NobodyLeft, Members
  <2>3. StayersOwed'
    BY <1>1 DEF StayInv, StayersOwed, OfTwo, OnTheWay, Ahead
  <2> QED
    BY <2>1, <2>2, <2>3 DEF StayInv
<1>2. CASE UNCHANGED vars
  BY <1>1, <1>2 DEF vars, matchVars, connVars
<1>3. CASE BroadcastAll
  BY <1>1, <1>3 DEF BroadcastAll, matchVars
<1>4. ASSUME NEW c \in Conns, PeerGone(c) \/ ReadFails(c) \/ WritePump(c) PROVE StayInv'
  BY <1>1, <1>4 DEF PeerGone, ReadFails, WritePump, matchVars, connVars
<1>5. ASSUME NEW c \in Conns, NEW u \in Users, Connect(c, u) PROVE StayInv'
  BY <1>5, ConnectStay
<1>6. ASSUME NEW c \in Conns, Unregister(c) PROVE StayInv'
  <2>1. owner[c] \in Users
    BY <1>6 DEF Unregister, ConnInv, Opened
  <2>2. /\ RemoveFrom(owner[c], Matches) /\ Departs(owner[c], Matches)
        /\ UNCHANGED <<joined, owner>>
        /\ connections' = [connections EXCEPT ![owner[c]] = NoConn]
    BY <1>6 DEF Unregister, DropConnection
  <2>3. \A u \in Users \ {owner[c]} : connections'[u] = connections[u]
    BY <2>2 DEF ConnInv, ConnTypes
  <2> QED
    BY <2>1, <2>2, <2>3, LeavingStay
<1>7. ASSUME NEW m \in Matches, NEW u \in Users, LeaveMatch(m, u) PROVE StayInv'
  BY <1>7, LeavingStay DEF LeaveMatch, connVars
<1>8. ASSUME NEW m \in Matches, NEW u \in Users, <<m, u>> \notin joined, JoinMatch(m, u) PROVE StayInv'
  BY <1>8, JoiningStay
<1>9. ASSUME NEW k \in Casts, SendLookup(k) \/ SendFound(k) \/ \E m \in Matches : BroadcastToMatch(k, m)
      PROVE  StayInv'
  BY <1>9, SendStay, BroadcastStay
<1> QED
  BY <1>2, <1>3, <1>4, <1>5, <1>6, <1>7, <1>8, <1>9 DEF Next

\* A broadcast to a match of two players reaches everyone who stayed connected and a
\* member from its start to its end, whatever the others do meanwhile.
THEOREM BroadcastsReachStayers == Spec => []StayersAreReached
<1>1. MatchInv /\ StayInv => StayersAreReached
  <2> SUFFICES ASSUME MatchInv, StayInv, NEW k \in Casts, cast[k].step = "done", OfTwo(cast[k].match),
                      NEW u \in cast[k].stayers, u \notin cast[k].tried
               PROVE  FALSE
    BY DEF StayersAreReached
  <2>1. OnTheWay(k, u)
    BY DEF StayInv, StayersOwed
  <2> QED
    BY <2>1 DEF OnTheWay
<1> QED
  BY <1>1, InitConn, StepConn, InitMatch, StepMatch, InitStay, StepStay, PTL DEF Spec
=============================================================================
