----------------------------- MODULE Leaderboard -----------------------------
(***************************************************************************)
(* The leaderboards (internal/leaderboard): Service keeps a sorted set of  *)
(* scores and a hash of counters per window in Redis, publishes the top of *)
(* each window after every result, SnapshotWorker copies the windows to    *)
(* Postgres, Broadcaster forwards what is published to every client, and   *)
(* HTTPHandler serves a window from Redis or, failing that, from the last  *)
(* snapshot.                                                               *)
(*                                                                         *)
(* A step is one Redis command or transaction.  A score or a counter is a  *)
(* sum over results; the model keeps the set of results that went into it, *)
(* so two numbers can be compared by what they count.  The lists are       *)
(* shorter than the limit of Top, so every user of a window is listed.     *)
(* Windows never expire (EntryTTL is 0) and private rooms have a board of  *)
(* their own, number 0, that is neither published nor copied.              *)
(***************************************************************************)
EXTENDS Integers, Sequences, FiniteSets

CONSTANTS Users,
          Results,   \* bound: calls of RecordResult and RecordPrivateRoomResult
          Windows,   \* number of windows (daily, weekly, monthly, all_time: 4)
          MaxTicks,  \* bound: ticks of the snapshot worker
          MayErr,    \* a command may return an error
          MayLose,   \* Redis may lose its data
          Worker,    \* the snapshot worker
          NoUser

ASSUME LeaderboardAssumption ==
  /\ Windows \in Nat \ {0}
  /\ MaxTicks \in Nat
  /\ {MayErr, MayLose} \subseteq BOOLEAN
  /\ Worker \notin Results
  /\ NoUser \notin Users

VARIABLES
  zset,      \* lb:<window>: the results in each member's score
  meta,      \* lb:<window>:meta:<user>: the results in the user's counters
  rec,       \* the calls that record a result
  reader,    \* publishUpdate of each call, and the worker: where it is in Top
  channel,   \* messages published and not forwarded yet
  snapshot,  \* last snapshot of each window: {} or the entries
  ticks,     \* ticks of the worker so far
  lost       \* Redis has lost its data once

vars == <<zset, meta, rec, reader, channel, snapshot, ticks, lost>>

Boards == 0..Windows
Readers == Results \cup {Worker}
\* An entry of Top: the results in its score, and those in its counters.
Entry == [user : Users, score : SUBSET Results, games : SUBSET Results]
Record == [step : {"idle", "update", "done"}, user : Users \cup {NoUser}, board : Boards]
Reading == [step : {"none", "range", "meta", "emit"}, board : Boards,
            range : [Users -> SUBSET Results], todo : SUBSET Users, entries : SUBSET Entry]

TypeOK ==
  /\ zset \in [Boards -> [Users -> SUBSET Results]]
  /\ meta \in [Boards -> [Users -> SUBSET Results]]
  /\ rec \in [Results -> Record]
  /\ reader \in [Readers -> Reading]
  /\ channel \in Seq([board : Boards, entries : SUBSET Entry])
  /\ snapshot \in [Boards -> SUBSET Entry]
  /\ ticks \in 0..MaxTicks
  /\ lost \in BOOLEAN

Empty == [b \in Boards |-> [u \in Users |-> {}]]
Idle == [step |-> "none", board |-> 0, range |-> [u \in Users |-> {}], todo |-> {}, entries |-> {}]

Init ==
  /\ zset = Empty
  /\ meta = Empty
  /\ rec = [r \in Results |-> [step |-> "idle", user |-> NoUser, board |-> 0]]
  /\ reader = [x \in Readers |-> Idle]
  /\ channel = <<>>
  /\ snapshot = [b \in Boards |-> {}]
  /\ ticks = 0
  /\ lost = FALSE

-----------------------------------------------------------------------------
(* RecordResult and RecordPrivateRoomResult *)

\* Mutant: ZADD and HSET, where increments are needed.
SetValues(b, u, r) ==
  /\ zset' = [zset EXCEPT ![b][u] = {r}]
  /\ meta' = [meta EXCEPT ![b][u] = {r}]

\* Mutant: a plain pipeline, whose later commands may be lost.
Pipeline(b, u, r) ==
  /\ zset' = [zset EXCEPT ![b][u] = @ \cup {r}]
  /\ meta' \in {meta, [meta EXCEPT ![b][u] = @ \cup {r}]}

\* The MULTI/EXEC transaction of updateWindow.
TxPipeline(b, u, r) ==
  /\ zset' = [zset EXCEPT ![b][u] = @ \cup {r}]
  /\ meta' = [meta EXCEPT ![b][u] = @ \cup {r}]

\* A call with Eligible set; without it both functions return at once.
BeginRecord(r, u, b) ==
  /\ rec[r].step = "idle"
  /\ rec' = [rec EXCEPT ![r] = [step |-> "update", user |-> u, board |-> b]]
  /\ UNCHANGED <<zset, meta, reader, channel, snapshot, ticks, lost>>

RecordResult(r, u) == BeginRecord(r, u, 1)

RecordPrivateRoomResult(r, u) == BeginRecord(r, u, 0)

\* Mutant: the loop runs past the last window.
OneMore(b) == b \in {0, Windows + 1}

\* The last board a call has to write or to read.
LastBoard(b) == b \in {0, Windows}

\* go publishUpdate(...), for the windows only.
Spawn(r) ==
  reader' = [reader EXCEPT ![r] = IF rec[r].board = 0 THEN @ ELSE [@ EXCEPT !.step = "range", !.board = 1]]

\* Mutant: after an error the loop goes on with the next window.
GoOnAfterError(r) ==
  rec' = [rec EXCEPT ![r] = IF LastBoard(@.board) THEN [@ EXCEPT !.step = "done"]
                            ELSE [@ EXCEPT !.board = @ + 1]]

\* An error ends the call; the windows written so far stay written.
ReturnError(r) == rec' = [rec EXCEPT ![r].step = "done"]

\* updateWindow for the next window.  A command that failed may have been
\* carried out all the same.
UpdateWindow(r) ==
  LET b == rec[r].board
  IN  /\ rec[r].step = "update"
      /\ \/ /\ TxPipeline(b, rec[r].user, r)
            /\ IF LastBoard(b)
                 THEN rec' = [rec EXCEPT ![r].step = "done"] /\ Spawn(r)
                 ELSE rec' = [rec EXCEPT ![r].board = b + 1] /\ UNCHANGED reader
         \/ /\ MayErr
            /\ TxPipeline(b, rec[r].user, r) \/ UNCHANGED <<zset, meta>>
            /\ ReturnError(r)
            /\ UNCHANGED reader
      /\ UNCHANGED <<channel, snapshot, ticks, lost>>

-----------------------------------------------------------------------------
(* Top, called by publishUpdate and by the snapshot worker *)

Listed(b) == {u \in Users : zset[b][u] # {}}

\* The reader goes on with the next window, or is finished.
NextBoard(x) ==
  IF LastBoard(reader[x].board) THEN Idle
  ELSE [Idle EXCEPT !.step = "range", !.board = reader[x].board + 1]

\* ZREVRANGE WITHSCORES.  After an error the window is passed over.
Range(x) ==
  LET b == reader[x].board
  IN  /\ reader[x].step = "range"
      /\ \/ reader' = [reader EXCEPT ![x] =
                         [@ EXCEPT !.step = IF Listed(b) = {} THEN "emit" ELSE "meta",
                                   !.range = zset[b], !.todo = Listed(b)]]
         \/ MayErr /\ reader' = [reader EXCEPT ![x] = NextBoard(x)]
      /\ UNCHANGED <<zset, meta, rec, channel, snapshot, ticks, lost>>

\* readMeta of one user; on an error the user is left out.
ReadMeta(x, u) ==
  LET s == reader[x]
      entry == [user |-> u, score |-> s.range[u], games |-> meta[s.board][u]]
  IN  /\ s.step = "meta"
      /\ u \in s.todo
      /\ \E es \in {s.entries \cup {entry}} \cup (IF MayErr THEN {s.entries} ELSE {}) :
           reader' = [reader EXCEPT ![x] =
                        [@ EXCEPT !.todo = s.todo \ {u}, !.entries = es,
                                  !.step = IF s.todo = {u} THEN "emit" ELSE "meta"]]
      /\ UNCHANGED <<zset, meta, rec, channel, snapshot, ticks, lost>>

\* Neither publishUpdate nor snapshotWindow passes an empty list on.
Worthwhile(entries) == entries # {}

\* publishUpdate: PUBLISH of the list.
Publish(r) ==
  LET s == reader[r]
  IN  /\ s.step = "emit"
      /\ \/ /\ Worthwhile(s.entries)
            /\ channel' = Append(channel, [board |-> s.board, entries |-> s.entries])
         \/ (MayErr \/ ~Worthwhile(s.entries)) /\ UNCHANGED channel
      /\ reader' = [reader EXCEPT ![r] = NextBoard(r)]
      /\ UNCHANGED <<zset, meta, rec, snapshot, ticks, lost>>

\* Broadcaster.forward: the update goes to every connected client (BroadcastAll).
Forward ==
  /\ channel # <<>>
  /\ channel' = Tail(channel)
  /\ UNCHANGED <<zset, meta, rec, reader, snapshot, ticks, lost>>

-----------------------------------------------------------------------------
(* The snapshot worker *)

Tick ==
  /\ ticks < MaxTicks
  /\ reader[Worker].step = "none"
  /\ ticks' = ticks + 1
  /\ reader' = [reader EXCEPT ![Worker] = [@ EXCEPT !.step = "range", !.board = 1]]
  /\ UNCHANGED <<zset, meta, rec, channel, snapshot, lost>>

\* snapshotWindow; Top may come back empty after read errors.
InsertSnapshot ==
  LET s == reader[Worker]
  IN  /\ s.step = "emit"
      /\ \/ Worthwhile(s.entries) /\ snapshot' = [snapshot EXCEPT ![s.board] = s.entries]
         \/ (MayErr \/ ~Worthwhile(s.entries)) /\ UNCHANGED snapshot
      /\ reader' = [reader EXCEPT ![Worker] = NextBoard(Worker)]
      /\ UNCHANGED <<zset, meta, rec, channel, ticks, lost>>

\* Redis restarts without its data.
LoseData ==
  /\ MayLose
  /\ zset # Empty
  /\ zset' = Empty
  /\ meta' = Empty
  /\ lost' = TRUE
  /\ UNCHANGED <<rec, reader, channel, snapshot, ticks>>

-----------------------------------------------------------------------------
(* HandleGet.  It writes nothing; the commands of its Top are taken together. *)

\* What Top may return.  A user whose counters cannot be read is left out, and all
\* are if ZREVRANGE fails.
Tops(b) ==
  LET all == {[user |-> u, score |-> zset[b][u], games |-> meta[b][u]] : u \in Listed(b)}
  IN  IF MayErr THEN SUBSET all ELSE {all}

\* Nothing, if the query fails or the stored list cannot be decoded.
SnapshotFallback(b) == {snapshot[b]} \cup (IF MayErr THEN {{}} ELSE {})

\* The boards a window may be answered with, every one with status 200.
HandleGet(b) ==
  (Tops(b) \ {{}}) \cup (IF {} \in Tops(b) THEN SnapshotFallback(b) ELSE {})

-----------------------------------------------------------------------------

Read(x) == Range(x) \/ \E u \in Users : ReadMeta(x, u)

Step(r) == UpdateWindow(r) \/ Publish(r)

Next ==
  \/ \E r \in Results, u \in Users : RecordResult(r, u) \/ RecordPrivateRoomResult(r, u)
  \/ \E r \in Results : Step(r)
  \/ \E x \in Readers : Read(x)
  \/ Forward \/ Tick \/ InsertSnapshot \/ LoseData

Spec == Init /\ [][Next]_vars

-----------------------------------------------------------------------------
(* Properties *)

(***************************************************************************)
(* A longer window never counts a game that a shorter one misses: a result *)
(* whose recording failed half way is in a prefix of the windows, for any  *)
(* interleaving of the results of several matches, until Redis loses data. *)
(***************************************************************************)
ShorterWindowsLead ==
  ~lost => \A i, j \in 1..Windows, u \in Users : i <= j => zset[j][u] \subseteq zset[i][u]

(***************************************************************************)
(* A list never credits points of a game it does not count: Top reads the  *)
(* scores first and the counters of each user later, while results are     *)
(* recorded in between, and both publication and snapshot show what it     *)
(* read.  (Data lost between the two reads does leave points without       *)
(* games.)                                                                 *)
(***************************************************************************)
PointsHaveTheirGames ==
  LET sound(entries) == \A e \in entries : e.score \subseteq e.games
  IN  ~lost => /\ \A i \in DOMAIN channel : sound(channel[i].entries)
               /\ \A b \in Boards : sound(snapshot[b])

(***************************************************************************)
(* A game once shown by a snapshot stays: no board answered for the window *)
(* afterwards, be it live or from that or a later snapshot, lists the user *)
(* without it, though a snapshot is written many commands after its scores *)
(* were read and results are recorded meanwhile.  (Until data is lost.  A  *)
(* user may be missing, and a board empty, if commands failed.)            *)
(***************************************************************************)
BoardsMoveForward ==
  [][~lost' => \A b \in 1..Windows : \A board \in HandleGet(b)' : \A e \in snapshot[b], f \in board :
       e.user = f.user => e.score \subseteq f.score /\ e.games \subseteq f.games]_vars
=============================================================================
