-------------------------- MODULE LeaderboardProofs --------------------------
(***************************************************************************)
(* Proofs about module Leaderboard, for any number of users, results and   *)
(* windows, with commands that fail and a Redis that may lose its data:    *)
(* the types, the order of the windows, the soundness of published and     *)
(* copied lists, and boards that move forward.                             *)
(***************************************************************************)
EXTENDS Leaderboard, TLAPS

-----------------------------------------------------------------------------
(* Types *)

Update == [board : Boards, entries : SUBSET Entry]

\* The last board has a successor only inside the windows.
LEMMA NextIsBoard ==
  ASSUME NEW b \in Boards, ~LastBoard(b)
  PROVE  b + 1 \in Boards \ {0}
  BY LeaderboardAssumption DEF Boards, LastBoard

\* A reader that rests is of the right shape.
LEMMA IdleType == Idle \in Reading
  BY LeaderboardAssumption DEF Idle, Reading, Boards

\* So is one that goes on with the next window.
LEMMA NextBoardType ==
  ASSUME NEW x, reader[x] \in Reading
  PROVE  NextBoard(x) \in Reading
  BY NextIsBoard, IdleType DEF NextBoard, Idle, Reading

\* A reader may be replaced by any other of the right shape.
LEMMA ReaderType ==
  ASSUME TypeOK, NEW x \in Readers, NEW s \in Reading, reader' = [reader EXCEPT ![x] = s]
  PROVE  reader' \in [Readers -> Reading]
  BY DEF TypeOK

\* Every initial state has the types.
LEMMA InitTypes == Init => TypeOK
<1> SUFFICES ASSUME Init PROVE TypeOK
  OBVIOUS
<1>1. 0 \in Boards /\ ticks \in 0..MaxTicks
  BY LeaderboardAssumption DEF Init, Boards
<1>2. Empty \in [Boards -> [Users -> SUBSET Results]]
  BY DEF Empty
<1>3. channel \in Seq(Update)
  BY DEF Init
<1> QED
  BY <1>1, <1>2, <1>3, IdleType DEF Init, TypeOK, Record, Update

\* The transaction adds one result to one score and one set of counters.
LEMMA TxPipelineTypes ==
  ASSUME TypeOK, NEW b \in Boards, NEW u \in Users, NEW r \in Results, TxPipeline(b, u, r)
  PROVE  /\ zset' \in [Boards -> [Users -> SUBSET Results]]
         /\ meta' \in [Boards -> [Users -> SUBSET Results]]
         /\ \A c \in Boards, v \in Users :
              /\ zset'[c][v] = IF c = b /\ v = u THEN zset[c][v] \cup {r} ELSE zset[c][v]
              /\ meta'[c][v] = IF c = b /\ v = u THEN meta[c][v] \cup {r} ELSE meta[c][v]
  BY DEF TypeOK, TxPipeline

\* Only a user that has been set is recorded: a call that updates has begun.
Begun == \A r \in Results : rec[r].step = "update" => rec[r].user \in Users

TypeInv == TypeOK /\ Begun

\* A step of a recording call keeps the types.
LEMMA UpdateWindowTypes ==
  ASSUME TypeInv, NEW r \in Results, UpdateWindow(r)
  PROVE  TypeInv'
<1> DEFINE b == rec[r].board
<1>1. b \in Boards /\ rec[r].user \in Users /\ rec[r] \in Record
  BY DEF TypeInv, TypeOK, Begun, Record, UpdateWindow
<1>2. /\ zset' \in [Boards -> [Users -> SUBSET Results]]
      /\ meta' \in [Boards -> [Users -> SUBSET Results]]
  <2>1. CASE TxPipeline(b, rec[r].user, r)
    BY <1>1, <2>1, TxPipelineTypes DEF TypeInv
  <2>2. CASE UNCHANGED <<zset, meta>>
    BY <2>2 DEF TypeInv, TypeOK
  <2> QED
    BY <2>1, <2>2 DEF UpdateWindow
<1>3. CASE LastBoard(b) /\ rec' = [rec EXCEPT ![r].step = "done"] /\ Spawn(r)
  <2>1. b # 0 => 1 \in Boards
    BY LeaderboardAssumption DEF Boards
  <2>2. reader[r] \in Reading
    BY DEF TypeInv, TypeOK, Readers
  <2>3. reader' \in [Readers -> Reading]
    BY <1>3, <2>1, <2>2 DEF Spawn, TypeInv, TypeOK, Reading
  <2> QED
    BY <1>1, <1>2, <1>3, <2>3 DEF UpdateWindow, TypeInv, TypeOK, Begun, Record
<1>4. CASE ~LastBoard(b) /\ rec' = [rec EXCEPT ![r].board = b + 1] /\ UNCHANGED reader
  <2>1. b + 1 \in Boards
    BY <1>1, <1>4, NextIsBoard
  <2> QED
    BY <1>1, <1>2, <1>4, <2>1 DEF UpdateWindow, TypeInv, TypeOK, Begun, Record
<1>5. CASE ReturnError(r) /\ UNCHANGED reader
  BY <1>1, <1>2, <1>5 DEF ReturnError, UpdateWindow, TypeInv, TypeOK, Begun, Record
<1> QED
  BY <1>3, <1>4, <1>5 DEF UpdateWindow

\* A read of the scores keeps the types.
LEMMA RangeTypes ==
  ASSUME TypeInv, NEW x \in Readers, Range(x)
  PROVE  TypeInv'
<1>1. reader[x] \in Reading /\ reader[x].board \in Boards
  BY DEF TypeInv, TypeOK, Reading
<1>2. zset[reader[x].board] \in [Users -> SUBSET Results] /\ Listed(reader[x].board) \subseteq Users
  BY <1>1 DEF TypeInv, TypeOK, Listed
<1>3. NextBoard(x) \in Reading
  BY <1>1, NextBoardType
<1> DEFINE b == reader[x].board
           read == [reader[x] EXCEPT !.step = IF Listed(b) = {} THEN "emit" ELSE "meta",
                                     !.range = zset[b], !.todo = Listed(b)]
<1>4. read \in Reading
  BY Zenon, <1>1, <1>2 DEF Reading
<1>5. reader' = [reader EXCEPT ![x] = read] \/ reader' = [reader EXCEPT ![x] = NextBoard(x)]
  BY Zenon DEF Range
<1>6. reader' \in [Readers -> Reading]
  <2> HIDE DEF read
  <2> QED
    BY <1>3, <1>4, <1>5, ReaderType DEF TypeInv
<1> QED
  BY <1>6 DEF Range, TypeInv, TypeOK, Begun

\* A read of one user's counters keeps the types.
LEMMA ReadMetaTypes ==
  ASSUME TypeInv, NEW x \in Readers, NEW u \in Users, ReadMeta(x, u)
  PROVE  TypeInv'
<1> DEFINE s == reader[x]
           entry == [user |-> u, score |-> s.range[u], games |-> meta[s.board][u]]
<1>1. s \in Reading
  BY DEF TypeInv, TypeOK
<1>2. entry \in Entry
  BY <1>1 DEF TypeInv, TypeOK, Reading, Entry
<1> DEFINE read(es) == [s EXCEPT !.todo = s.todo \ {u}, !.entries = es,
                                 !.step = IF s.todo = {u} THEN "emit" ELSE "meta"]
<1>3. PICK es \in {s.entries \cup {entry}, s.entries} : reader' = [reader EXCEPT ![x] = read(es)]
  <2>1. PICK es \in {s.entries \cup {entry}} \cup (IF MayErr THEN {s.entries} ELSE {}) :
          reader' = [reader EXCEPT ![x] = read(es)]
    BY Zenon DEF ReadMeta
  <2> HIDE DEF read
  <2> QED
    BY <2>1
<1>4. es \subseteq Entry
  BY <1>1, <1>2, <1>3 DEF Reading
<1>5. read(es) \in Reading
  BY Zenon, <1>1, <1>4 DEF Reading
<1>6. reader' \in [Readers -> Reading]
  <2> HIDE DEF read
  <2> QED
    BY <1>3, <1>5, ReaderType DEF TypeInv
<1> QED
  BY <1>6 DEF ReadMeta, TypeInv, TypeOK, Begun

\* Publishing or copying a list keeps the types.
LEMMA EmitTypes ==
  ASSUME TypeInv, NEW x \in Readers, Publish(x) \/ (x = Worker /\ InsertSnapshot)
  PROVE  TypeInv'
<1>1. reader[x] \in Reading /\ reader[x].board \in Boards /\ reader[x].entries \subseteq Entry
  BY DEF TypeInv, TypeOK, Reading
<1>2. reader' \in [Readers -> Reading]
  BY <1>1, NextBoardType DEF Publish, InsertSnapshot, TypeInv, TypeOK
<1>3. CASE Publish(x)
  <2> DEFINE msg == [board |-> reader[x].board, entries |-> reader[x].entries]
  <2>1. msg \in Update /\ channel \in Seq(Update)
    BY <1>1 DEF TypeInv, TypeOK, Update
  <2>2. channel' = Append(channel, msg) \/ channel' = channel
    BY <1>3 DEF Publish
  <2>3. channel' \in Seq(Update)
    BY <2>1, <2>2
  <2> QED
    BY <1>2, <1>3, <2>3 DEF Publish, TypeInv, TypeOK, Begun, Update
<1>4. CASE x = Worker /\ InsertSnapshot
  BY <1>1, <1>2, <1>4 DEF InsertSnapshot, TypeInv, TypeOK, Begun
<1> QED
  BY <1>3, <1>4

\* Every step keeps the types.
LEMMA StepTypes == TypeInv /\ [Next]_vars => TypeInv'
<1> SUFFICES ASSUME TypeInv, [Next]_vars PROVE TypeInv'
  OBVIOUS
<1>1. CASE UNCHANGED vars
  BY <1>1 DEF vars, TypeInv, TypeOK, Begun
<1>2. ASSUME NEW r \in Results, NEW u \in Users, RecordResult(r, u) \/ RecordPrivateRoomResult(r, u)
      PROVE  TypeInv'
  <2>1. PICK b \in {0, 1} : BeginRecord(r, u, b)
    BY <1>2 DEF RecordResult, RecordPrivateRoomResult
  <2>2. b \in Boards
    BY LeaderboardAssumption DEF Boards
  <2> QED
    BY <2>1, <2>2 DEF BeginRecord, TypeInv, TypeOK, Begun, Record
<1>3. ASSUME NEW r \in Results, Step(r) PROVE TypeInv'
  BY <1>3, UpdateWindowTypes, EmitTypes DEF Step, Readers
<1>4. ASSUME NEW x \in Readers, Read(x) PROVE TypeInv'
  BY <1>4, RangeTypes, ReadMetaTypes DEF Read
<1>5. CASE Forward
  <2>1. channel' \in Seq(Update)
    BY <1>5 DEF Forward, TypeInv, TypeOK, Update
  <2> QED
    BY <1>5, <2>1 DEF Forward, TypeInv, TypeOK, Begun, Update
<1>6. CASE Tick
  <2>1. 1 \in Boards /\ ticks + 1 \in 0..MaxTicks
    BY <1>6, LeaderboardAssumption DEF Tick, Boards, TypeInv, TypeOK
  <2>2. [reader[Worker] EXCEPT !.step = "range", !.board = 1] \in Reading
    BY <2>1 DEF TypeInv, TypeOK, Readers, Reading
  <2>3. reader' \in [Readers -> Reading]
    BY <1>6, <2>2, ReaderType DEF Tick, TypeInv, Readers
  <2> QED
    BY <1>6, <2>1, <2>3 DEF Tick, TypeInv, TypeOK, Begun
<1>7. CASE InsertSnapshot
  BY <1>7, EmitTypes DEF Readers
<1>8. CASE LoseData
  BY <1>8 DEF LoseData, Empty, TypeInv, TypeOK, Begun
<1> QED
  BY <1>1, <1>2, <1>3, <1>4, <1>5, <1>6, <1>7, <1>8 DEF Next

\* The variables keep their types: no call runs past the last window.
THEOREM TypeCorrect == Spec => []TypeOK
<1>1. Init => TypeInv
  BY InitTypes DEF TypeInv, Begun, Init
<1>2. TypeInv => TypeOK
  BY DEF TypeInv
<1> QED
  BY <1>1, <1>2, StepTypes, PTL DEF Spec

-----------------------------------------------------------------------------
(* Shorter windows lead *)

\* A call that is at a window has been recorded in all the windows before it.
WindowsBefore ==
  \A r \in Results : rec[r].step = "update" =>
    \A i \in 1..(rec[r].board - 1) : r \in zset[i][rec[r].user]

LeadInv == ShorterWindowsLead /\ (~lost => WindowsBefore)

\* What a call at a window adds.
LEMMA Recorded ==
  ASSUME TypeInv, NEW r \in Results, rec[r].step = "update",
         TxPipeline(rec[r].board, rec[r].user, r)
  PROVE  /\ rec[r].board \in Boards
         /\ rec[r].user \in Users
         /\ \A c \in Boards, v \in Users :
              zset'[c][v] = IF c = rec[r].board /\ v = rec[r].user THEN zset[c][v] \cup {r} ELSE zset[c][v]
<1>1. rec[r].board \in Boards /\ rec[r].user \in Users
  BY DEF TypeInv, TypeOK, Begun, Record
<1> QED
  BY <1>1 DEF TxPipeline, TypeInv, TypeOK

\* How a step may change the scores.
LEMMA ScoringSteps ==
  ASSUME TypeInv, [Next]_vars
  PROVE  \/ UNCHANGED <<zset, meta>>
         \/ LoseData
         \/ \E r \in Results : /\ rec[r].step = "update"
                               /\ TxPipeline(rec[r].board, rec[r].user, r)
<1>1. CASE UNCHANGED vars \/ Forward \/ Tick \/ InsertSnapshot
  BY <1>1 DEF vars, Forward, Tick, InsertSnapshot
<1>2. ASSUME NEW r \in Results, NEW u \in Users, RecordResult(r, u) \/ RecordPrivateRoomResult(r, u)
      PROVE  UNCHANGED <<zset, meta>>
  BY <1>2 DEF RecordResult, RecordPrivateRoomResult, BeginRecord
<1>3. ASSUME NEW r \in Results, Publish(r) PROVE UNCHANGED <<zset, meta>>
  BY <1>3 DEF Publish
<1>4. ASSUME NEW r \in Results, UpdateWindow(r)
      PROVE  \/ UNCHANGED <<zset, meta>>
             \/ rec[r].step = "update" /\ TxPipeline(rec[r].board, rec[r].user, r)
  BY <1>4, Zenon DEF UpdateWindow
<1>5. ASSUME NEW x \in Readers, Read(x) PROVE UNCHANGED <<zset, meta>>
  BY <1>5 DEF Read, Range, ReadMeta
<1> QED
  BY <1>1, <1>2, <1>3, <1>4, <1>5 DEF Next, Step

\* Data lost once is lost.
LEMMA LostStays ==
  ASSUME TypeInv, [Next]_vars, ~lost'
  PROVE  ~lost
  BY DEF Next, vars, RecordResult, RecordPrivateRoomResult, BeginRecord, Step, UpdateWindow, Publish,
     Read, Range, ReadMeta, Forward, Tick, InsertSnapshot, LoseData

\* Scores only grow until data is lost.
LEMMA ScoresGrow ==
  ASSUME TypeInv, [Next]_vars, ~lost', NEW b \in Boards, NEW u \in Users
  PROVE  zset[b][u] \subseteq zset'[b][u]
<1>1. ASSUME NEW r \in Results, rec[r].step = "update", TxPipeline(rec[r].board, rec[r].user, r)
      PROVE  zset[b][u] \subseteq zset'[b][u]
  BY <1>1, Recorded
<1> QED
  BY <1>1, ScoringSteps DEF LoseData

\* A call that is at a window after a step was there before, or has just been
\* recorded in the window before, or is at its first board.
LEMMA RecordingSteps ==
  ASSUME TypeInv, [Next]_vars, NEW r \in Results, rec'[r].step = "update"
  PROVE  \/ rec'[r] = rec[r]
         \/ rec'[r].board \in {0, 1}
         \/ /\ rec[r].step = "update"
            /\ rec'[r].user = rec[r].user
            /\ rec'[r].board = rec[r].board + 1
            /\ TxPipeline(rec[r].board, rec[r].user, r)
<1>1. CASE UNCHANGED rec
  BY <1>1
<1>2. CASE UNCHANGED vars \/ Forward \/ Tick \/ InsertSnapshot \/ LoseData
  BY <1>1, <1>2 DEF vars, Forward, Tick, InsertSnapshot, LoseData
<1>3. ASSUME NEW s \in Results, NEW u \in Users, RecordResult(s, u) \/ RecordPrivateRoomResult(s, u)
      PROVE  rec'[r] = rec[r] \/ rec'[r].board \in {0, 1}
  BY <1>3 DEF RecordResult, RecordPrivateRoomResult, BeginRecord, TypeInv, TypeOK
<1>4. ASSUME NEW s \in Results, Publish(s) PROVE UNCHANGED rec
  BY <1>4 DEF Publish
<1>5. ASSUME NEW x \in Readers, Read(x) PROVE UNCHANGED rec
  BY <1>5 DEF Read, Range, ReadMeta
<1>6. ASSUME NEW s \in Results, UpdateWindow(s)
      PROVE  \/ rec'[r] = rec[r]
             \/ /\ rec[r].step = "update"
                /\ rec'[r].user = rec[r].user
                /\ rec'[r].board = rec[r].board + 1
                /\ TxPipeline(rec[r].board, rec[r].user, r)
  <2>1. rec[s] \in Record
    BY DEF TypeInv, TypeOK
  <2>2. CASE rec' = [rec EXCEPT ![s].step = "done"]
    BY <2>1, <2>2 DEF TypeInv, TypeOK, Record
  <2>3. CASE /\ rec' = [rec EXCEPT ![s].board = rec[s].board + 1]
             /\ rec[s].step = "update"
             /\ TxPipeline(rec[s].board, rec[s].user, s)
    BY <2>1, <2>3 DEF TypeInv, TypeOK, Record
  <2> QED
    BY <1>6, <2>2, <2>3, Zenon DEF UpdateWindow, ReturnError
<1> QED
  BY <1>1, <1>2, <1>3, <1>4, <1>5, <1>6 DEF Next, Step

\* No result is recorded yet.
LEMMA InitLead == Init => LeadInv
  BY DEF Init, LeadInv, ShorterWindowsLead, WindowsBefore, Empty, Boards

\* The next window of a call gets a result all the windows before have.
LEMMA StepLead ==
  ASSUME TypeInv, LeadInv, [Next]_vars
  PROVE  LeadInv'
<1> SUFFICES ASSUME ~lost'
             PROVE  /\ \A i, j \in 1..Windows, u \in Users : i <= j => zset'[j][u] \subseteq zset'[i][u]
                    /\ WindowsBefore'
  BY DEF LeadInv, ShorterWindowsLead, WindowsBefore
<1>1. /\ \A i, j \in 1..Windows, u \in Users : i <= j => zset[j][u] \subseteq zset[i][u]
      /\ WindowsBefore
  BY LostStays DEF LeadInv, ShorterWindowsLead
<1>2. \A i \in 1..Windows : i \in Boards
  BY DEF Boards
<1>3. \A b \in Boards, u \in Users : zset[b][u] \subseteq zset'[b][u]
  BY ScoresGrow
<1>4. ASSUME NEW i \in 1..Windows, NEW j \in 1..Windows, NEW u \in Users, i <= j
      PROVE  zset'[j][u] \subseteq zset'[i][u]
  <2>1. CASE UNCHANGED zset
    BY <1>1, <1>4, <2>1
  <2>2. ASSUME NEW r \in Results, rec[r].step = "update", TxPipeline(rec[r].board, rec[r].user, r)
        PROVE  zset'[j][u] \subseteq zset'[i][u]
    <3> DEFINE b == rec[r].board
    <3>1. b \in Boards /\ rec[r].user \in Users
      BY <2>2, Recorded
    <3>2. \A c \in Boards, v \in Users :
            zset'[c][v] = IF c = b /\ v = rec[r].user THEN zset[c][v] \cup {r} ELSE zset[c][v]
      BY <2>2, Recorded
    <3>3. CASE j = b /\ u = rec[r].user
      <4>1. i = b \/ i \in 1..(b - 1)
        BY <1>4, <3>3
      <4>2. r \in zset'[i][u]
        <5>1. CASE i = b
          BY <1>2, <3>2, <3>3, <5>1
        <5>2. CASE i \in 1..(b - 1)
          BY <1>1, <1>2, <1>3, <2>2, <3>3, <5>2 DEF WindowsBefore
        <5> QED
          BY <4>1, <5>1, <5>2
      <4>3. zset[j][u] \subseteq zset'[i][u]
        BY <1>1, <1>2, <1>3, <1>4
      <4>4. zset'[j][u] = zset[j][u] \cup {r}
        BY <1>2, <3>2, <3>3
      <4> QED
        BY <4>2, <4>3, <4>4
    <3>4. CASE ~(j = b /\ u = rec[r].user)
      <4>1. zset'[j][u] = zset[j][u]
        BY <1>2, <3>2, <3>4
      <4>2. zset[i][u] \subseteq zset'[i][u]
        BY <1>2, <3>2
      <4> QED
        BY <1>1, <1>4, <4>1, <4>2
    <3> QED
      BY <3>3, <3>4
  <2> QED
    BY <2>1, <2>2, ScoringSteps DEF LoseData
<1>5. ASSUME NEW r \in Results, rec'[r].step = "update", NEW i \in 1..(rec'[r].board - 1)
      PROVE  r \in zset'[i][rec'[r].user]
  <2>1. TypeInv'
    BY StepTypes
  <2>2. rec'[r].board \in Boards /\ rec'[r].user \in Users
    BY <1>5, <2>1 DEF TypeInv, TypeOK, Begun, Record
  <2>3. i \in Boards
    BY <2>2, LeaderboardAssumption DEF Boards
  <2>4. CASE rec'[r] = rec[r]
    BY <1>1, <1>3, <1>5, <2>2, <2>3, <2>4 DEF WindowsBefore
  <2>5. CASE rec'[r].board \in {0, 1}
    BY <2>5
  <2>6. CASE /\ rec[r].step = "update"
             /\ rec'[r].user = rec[r].user
             /\ rec'[r].board = rec[r].board + 1
             /\ TxPipeline(rec[r].board, rec[r].user, r)
    <3>1. rec[r].board \in Boards
      BY DEF TypeInv, TypeOK, Record
    <3>2. i = rec[r].board \/ i \in 1..(rec[r].board - 1)
      BY <2>6, <3>1 DEF Boards
    <3>3. CASE i = rec[r].board
      BY <2>6, <3>3, Recorded
    <3>4. CASE i \in 1..(rec[r].board - 1)
      BY <1>1, <1>3, <2>2, <2>3, <2>6, <3>4 DEF WindowsBefore
    <3> QED
      BY <3>2, <3>3, <3>4
  <2> QED
    BY <1>5, <2>4, <2>5, <2>6, RecordingSteps
<1> QED
  BY <1>4, <1>5 DEF WindowsBefore

\* A longer window never counts a result a shorter one misses, for any number of
\* windows, users and interleaved results, wherever a recording fails.
THEOREM WindowsNested == Spec => []ShorterWindowsLead
<1>1. LeadInv => ShorterWindowsLead
  BY DEF LeadInv
<1>2. Init => TypeInv
  BY InitTypes DEF TypeInv, Begun, Init
<1> QED
  BY <1>1, <1>2, StepTypes, InitLead, StepLead, PTL DEF Spec

-----------------------------------------------------------------------------
(* Points have their games *)

Sound(entries) == \A e \in entries : e.score \subseteq e.games

\* Scores and counters change together, so what Top read from the scores is in
\* the counters it reads later.
ListsSound ==
  /\ \A x \in Readers : Sound(reader[x].entries)
  /\ \A x \in Readers : reader[x].step = "meta" =>
       \A u \in Users : reader[x].range[u] \subseteq zset[reader[x].board][u]
  /\ \A i \in DOMAIN channel : Sound(channel[i].entries)
  /\ \A b \in Boards : Sound(snapshot[b])

SoundInv == zset = meta /\ (~lost => ListsSound)

\* Nothing has been read yet.
LEMMA InitSound == Init => SoundInv
  BY DEF Init, SoundInv, ListsSound, Sound, Idle

\* A reader that rests or goes on with the next window holds no list.
LEMMA NextBoardSound ==
  ASSUME NEW x
  PROVE  Sound(NextBoard(x).entries) /\ NextBoard(x).step # "meta"
  BY DEF Sound, NextBoard, Idle

\* What a step of one reader has to keep for the readers to stay sound.
LEMMA OneReader ==
  ASSUME TypeInv, ListsSound, [Next]_vars, ~lost', NEW x \in Readers, NEW s,
         reader' = [reader EXCEPT ![x] = s],
         Sound(s.entries),
         s.step = "meta" => \A u \in Users : s.range[u] \subseteq zset'[s.board][u]
  PROVE  /\ \A y \in Readers : Sound(reader'[y].entries)
         /\ \A y \in Readers : reader'[y].step = "meta" =>
              \A u \in Users : reader'[y].range[u] \subseteq zset'[reader'[y].board][u]
<1>1. \A y \in Readers : reader'[y] = IF y = x THEN s ELSE reader[y]
  BY DEF TypeInv, TypeOK
<1>2. \A y \in Readers, u \in Users : reader[y].step = "meta" =>
        reader[y].range[u] \subseteq zset'[reader[y].board][u]
  <2>1. \A y \in Readers : reader[y].board \in Boards
    BY DEF TypeInv, TypeOK, Reading
  <2> QED
    BY <2>1, ScoresGrow DEF ListsSound
<1> QED
  BY <1>1, <1>2 DEF ListsSound

\* Reading the scores of a window.
LEMMA RangeSound ==
  ASSUME TypeInv, ListsSound, [Next]_vars, ~lost', NEW x \in Readers, Range(x)
  PROVE  ListsSound'
<1> DEFINE b == reader[x].board
           read == [reader[x] EXCEPT !.step = IF Listed(b) = {} THEN "emit" ELSE "meta",
                                     !.range = zset[b], !.todo = Listed(b)]
<1>1. reader' = [reader EXCEPT ![x] = read] \/ reader' = [reader EXCEPT ![x] = NextBoard(x)]
  BY Zenon DEF Range
<1>2. UNCHANGED <<zset, channel, snapshot>>
  BY DEF Range
<1>3. reader[x] \in Reading
  BY DEF TypeInv, TypeOK
<1>4. /\ read.entries = reader[x].entries
      /\ read.range = zset[b]
      /\ read.board = b
  BY <1>3, Zenon DEF Reading
<1>5. Sound(read.entries) /\ \A u \in Users : read.range[u] \subseteq zset'[read.board][u]
  <2> HIDE DEF read
  <2> QED
    BY <1>2, <1>4 DEF ListsSound
<1>6. /\ \A y \in Readers : Sound(reader'[y].entries)
      /\ \A y \in Readers : reader'[y].step = "meta" =>
           \A u \in Users : reader'[y].range[u] \subseteq zset'[reader'[y].board][u]
  <2> HIDE DEF read, b
  <2>1. CASE reader' = [reader EXCEPT ![x] = read]
    BY <1>5, <2>1, OneReader
  <2>2. CASE reader' = [reader EXCEPT ![x] = NextBoard(x)]
    BY <2>2, OneReader, NextBoardSound
  <2> QED
    BY <1>1, <2>1, <2>2
<1> QED
  BY <1>2, <1>6 DEF ListsSound, Sound

\* Reading the counters of a user: they have every result the score had.
LEMMA ReadMetaSound ==
  ASSUME TypeInv, zset = meta, ListsSound, [Next]_vars, ~lost', NEW x \in Readers,
         NEW u \in Users, ReadMeta(x, u)
  PROVE  ListsSound'
<1> DEFINE s == reader[x]
           entry == [user |-> u, score |-> s.range[u], games |-> meta[s.board][u]]
           read(es) == [s EXCEPT !.todo = s.todo \ {u}, !.entries = es,
                                 !.step = IF s.todo = {u} THEN "emit" ELSE "meta"]
<1>1. PICK es \in {s.entries \cup {entry}} \cup (IF MayErr THEN {s.entries} ELSE {}) :
        reader' = [reader EXCEPT ![x] = read(es)]
  BY Zenon DEF ReadMeta
<1>2. s.step = "meta" /\ UNCHANGED <<zset, channel, snapshot>>
  BY DEF ReadMeta
<1>3. s \in Reading
  BY DEF TypeInv, TypeOK
<1>4. read(es).entries = es /\ read(es).range = s.range /\ read(es).board = s.board
  BY <1>3, Zenon DEF Reading
<1>5. Sound(s.entries) /\ \A v \in Users : s.range[v] \subseteq zset[s.board][v]
  BY <1>2 DEF ListsSound
<1>6. Sound(es)
  <2>1. es = s.entries \/ es = s.entries \cup {entry}
    BY <1>1
  <2>2. entry.score \subseteq entry.games
    BY <1>5
  <2> QED
    BY <1>5, <2>1, <2>2 DEF Sound
<1>7. /\ \A y \in Readers : Sound(reader'[y].entries)
      /\ \A y \in Readers : reader'[y].step = "meta" =>
           \A v \in Users : reader'[y].range[v] \subseteq zset'[reader'[y].board][v]
  <2>1. /\ Sound(read(es).entries)
        /\ \A v \in Users : read(es).range[v] \subseteq zset'[read(es).board][v]
    BY <1>2, <1>4, <1>5, <1>6
  <2> HIDE DEF read
  <2> QED
    BY <1>1, <2>1, OneReader
<1> QED
  BY <1>2, <1>7 DEF ListsSound, Sound

\* Publishing, or copying, the list a reader has put together.
LEMMA EmitSound ==
  ASSUME TypeInv, ListsSound, [Next]_vars, ~lost', NEW x \in Readers,
         Publish(x) \/ (x = Worker /\ InsertSnapshot)
  PROVE  ListsSound'
<1>1. reader' = [reader EXCEPT ![x] = NextBoard(x)] /\ UNCHANGED zset
  BY DEF Publish, InsertSnapshot
<1>2. /\ \A y \in Readers : Sound(reader'[y].entries)
      /\ \A y \in Readers : reader'[y].step = "meta" =>
           \A u \in Users : reader'[y].range[u] \subseteq zset'[reader'[y].board][u]
  BY <1>1, OneReader, NextBoardSound
<1>3. reader[x] \in Reading /\ Sound(reader[x].entries)
  BY DEF TypeInv, TypeOK, ListsSound
<1>4. \A i \in DOMAIN channel' : Sound(channel'[i].entries)
  <2> DEFINE msg == [board |-> reader[x].board, entries |-> reader[x].entries]
  <2>1. msg \in Update /\ channel \in Seq(Update)
    BY <1>3 DEF TypeInv, TypeOK, Update, Reading
  <2>2. channel' = Append(channel, msg) \/ channel' = channel
    BY DEF Publish, InsertSnapshot
  <2>3. \A i \in DOMAIN channel : Sound(channel[i].entries)
    BY DEF ListsSound
  <2>4. Sound(msg.entries)
    BY <1>3
  <2> HIDE DEF msg
  <2> QED
    BY <2>1, <2>2, <2>3, <2>4
<1>5. \A b \in Boards : Sound(snapshot'[b])
  BY <1>3 DEF Publish, InsertSnapshot, ListsSound, TypeInv, TypeOK
<1> QED
  BY <1>2, <1>4, <1>5 DEF ListsSound, Sound

\* A step of a recording call writes no list.
LEMMA UpdateSound ==
  ASSUME TypeInv, ListsSound, [Next]_vars, ~lost', NEW r \in Results, UpdateWindow(r)
  PROVE  ListsSound'
<1>1. UNCHANGED <<channel, snapshot>>
  BY DEF UpdateWindow
<1>2. PICK s \in {reader[r], [reader[r] EXCEPT !.step = "range", !.board = 1]} :
        reader' = [reader EXCEPT ![r] = s]
  <2>1. r \in Readers /\ reader = [reader EXCEPT ![r] = reader[r]]
    BY DEF TypeInv, TypeOK, Readers
  <2>2. UNCHANGED reader \/ Spawn(r)
    BY Zenon DEF UpdateWindow
  <2> QED
    BY <2>1, <2>2 DEF Spawn
<1>3. r \in Readers /\ reader[r] \in Reading
  BY DEF TypeInv, TypeOK, Readers
<1>4. Sound(s.entries)
  BY <1>2, <1>3 DEF ListsSound, Reading
<1>5. s.step = "meta" => \A u \in Users : s.range[u] \subseteq zset'[s.board][u]
  <2>1. CASE s = reader[r]
    BY <1>3, <2>1, ScoresGrow DEF ListsSound, Reading
  <2>2. CASE s = [reader[r] EXCEPT !.step = "range", !.board = 1]
    BY <1>3, <2>2 DEF Reading
  <2> QED
    BY <1>2, <2>1, <2>2
<1>6. /\ \A y \in Readers : Sound(reader'[y].entries)
      /\ \A y \in Readers : reader'[y].step = "meta" =>
           \A u \in Users : reader'[y].range[u] \subseteq zset'[reader'[y].board][u]
  BY <1>2, <1>3, <1>4, <1>5, OneReader
<1> QED
  BY <1>1, <1>6 DEF ListsSound, Sound

\* Every step keeps lists sound until data is lost.
LEMMA StepSound ==
  ASSUME TypeInv, SoundInv, [Next]_vars
  PROVE  SoundInv'
<1>1. zset' = meta'
  <2>1. CASE LoseData
    BY <2>1 DEF LoseData
  <2>2. CASE UNCHANGED <<zset, meta>>
    BY <2>2 DEF SoundInv
  <2>3. ASSUME NEW r \in Results, TxPipeline(rec[r].board, rec[r].user, r) PROVE zset' = meta'
    BY <2>3 DEF TxPipeline, SoundInv
  <2> QED
    BY <2>1, <2>2, <2>3, ScoringSteps
<1> SUFFICES ASSUME ~lost' PROVE ListsSound'
  BY <1>1 DEF SoundInv, ListsSound, Sound
<1>2. ListsSound /\ zset = meta
  BY LostStays DEF SoundInv
<1>3. CASE UNCHANGED vars
  BY <1>2, <1>3 DEF vars, ListsSound, Sound
<1>4. ASSUME NEW r \in Results, NEW u \in Users, RecordResult(r, u) \/ RecordPrivateRoomResult(r, u)
      PROVE  ListsSound'
  BY <1>2, <1>4 DEF RecordResult, RecordPrivateRoomResult, BeginRecord, ListsSound, Sound
<1>5. ASSUME NEW r \in Results, Step(r) PROVE ListsSound'
  BY <1>2, <1>5, UpdateSound, EmitSound DEF Step, Readers
<1>6. ASSUME NEW x \in Readers, Read(x) PROVE ListsSound'
  BY <1>2, <1>6, RangeSound, ReadMetaSound DEF Read
<1>7. CASE Forward
  <2>1. channel \in Seq(Update)
    BY DEF TypeInv, TypeOK, Update
  <2>2. \A i \in DOMAIN channel' : Sound(channel'[i].entries)
    BY <1>2, <1>7, <2>1 DEF Forward, ListsSound
  <2> QED
    BY <1>2, <1>7, <2>2 DEF Forward, ListsSound, Sound
<1>8. CASE Tick
  <2>1. Worker \in Readers /\ reader[Worker] \in Reading
    BY DEF TypeInv, TypeOK, Readers
  <2> DEFINE s == [reader[Worker] EXCEPT !.step = "range", !.board = 1]
  <2>2. s.step # "meta" /\ s.entries = reader[Worker].entries
    BY <2>1 DEF Reading
  <2>3. reader' = [reader EXCEPT ![Worker] = s]
    BY <1>8 DEF Tick
  <2>4. Sound(s.entries)
    BY <1>2, <2>1, <2>2 DEF ListsSound
  <2>5. /\ \A y \in Readers : Sound(reader'[y].entries)
        /\ \A y \in Readers : reader'[y].step = "meta" =>
             \A u \in Users : reader'[y].range[u] \subseteq zset'[reader'[y].board][u]
    <3> HIDE DEF s
    <3> QED
      BY <1>2, <2>1, <2>2, <2>3, <2>4, OneReader
  <2> QED
    BY <1>2, <1>8, <2>5 DEF Tick, ListsSound, Sound
<1>9. CASE InsertSnapshot
  BY <1>2, <1>9, EmitSound DEF Readers
<1>10. CASE LoseData
  BY <1>10 DEF LoseData
<1> QED
  BY <1>3, <1>4, <1>5, <1>6, <1>7, <1>8, <1>9, <1>10 DEF Next

\* Neither a published nor a copied list credits points of a game it does not
\* count, for any interleaving of the readers with the results, until data is lost.
THEOREM ListsAreSound == Spec => []PointsHaveTheirGames
<1>1. SoundInv => PointsHaveTheirGames
  BY DEF SoundInv, ListsSound, Sound, PointsHaveTheirGames
<1>2. Init => TypeInv
  BY InitTypes DEF TypeInv, Begun, Init
<1> QED
  BY <1>1, <1>2, StepTypes, InitSound, StepSound, PTL DEF Spec

-----------------------------------------------------------------------------
(* Boards move forward *)

Includes(f, e) == e.score \subseteq f.score /\ e.games \subseteq f.games

\* A list counts nothing the window does not count.
Behind(entries, b) ==
  \A e \in entries : e.score \subseteq zset[b][e.user] /\ e.games \subseteq meta[b][e.user]

\* A list counts all that the snapshot of the window counts for its users.
Ahead(entries, b) == \A e \in snapshot[b], f \in entries : e.user = f.user => Includes(f, e)

OnePerUser(entries) == \A e, f \in entries : e.user = f.user => e = f

\* The list the worker puts together lies between the snapshot and the window.
Copying(w) ==
  /\ Behind(w.entries, w.board)
  /\ Ahead(w.entries, w.board)
  /\ OnePerUser(w.entries)
  /\ w.step \in {"none", "range"} => w.entries = {}
  /\ w.step = "meta" =>
       /\ \A e \in w.entries : e.user \notin w.todo
       /\ \A e \in snapshot[w.board] : e.score \subseteq w.range[e.user]

SnapshotsBehind == \A b \in Boards : Behind(snapshot[b], b) /\ OnePerUser(snapshot[b])

ForwardInv == ~lost => SnapshotsBehind /\ Copying(reader[Worker])

AllInv == TypeInv /\ SoundInv /\ ForwardInv

LEMMA InitForward == Init => ForwardInv
  BY DEF Init, ForwardInv, SnapshotsBehind, Behind, Ahead, OnePerUser, Copying, Idle, Readers

\* Scores and counters grow.
LEMMA BoardsGrow ==
  ASSUME AllInv, [Next]_vars, ~lost', NEW b \in Boards, NEW u \in Users
  PROVE  zset[b][u] \subseteq zset'[b][u] /\ meta[b][u] \subseteq meta'[b][u]
<1>1. zset[b][u] \subseteq zset'[b][u]
  BY ScoresGrow DEF AllInv
<1>2. zset = meta /\ zset' = meta'
  BY StepSound DEF AllInv, SoundInv
<1> QED
  BY <1>1, <1>2

\* So a list that was behind stays so.
LEMMA BehindStays ==
  ASSUME AllInv, [Next]_vars, ~lost', NEW b \in Boards, NEW es \in SUBSET Entry, Behind(es, b)
  PROVE  Behind(es, b)'
  BY BoardsGrow DEF Behind, Entry

\* The steps that write no snapshot and leave the worker where it is.
LEMMA Elsewhere ==
  ASSUME AllInv, [Next]_vars, ~lost', SnapshotsBehind, Copying(reader[Worker]),
         UNCHANGED snapshot, reader'[Worker] = reader[Worker]
  PROVE  SnapshotsBehind' /\ Copying(reader[Worker])'
<1>1. /\ reader[Worker].board \in Boards /\ reader[Worker].entries \subseteq Entry
      /\ \A b \in Boards : snapshot[b] \subseteq Entry
  BY DEF AllInv, TypeInv, TypeOK, Readers, Reading
<1>2. Behind(reader[Worker].entries, reader[Worker].board)'
  BY <1>1, BehindStays DEF Copying, Behind
<1>3. \A b \in Boards : Behind(snapshot[b], b)'
  BY <1>1, BehindStays DEF SnapshotsBehind, Behind
<1> QED
  BY <1>2, <1>3 DEF SnapshotsBehind, Copying, Ahead, OnePerUser

\* The worker reads the scores of a window.
LEMMA RangeForward ==
  ASSUME AllInv, [Next]_vars, ~lost', SnapshotsBehind, Copying(reader[Worker]), Range(Worker)
  PROVE  SnapshotsBehind' /\ Copying(reader[Worker])'
<1> DEFINE w == reader[Worker]
           b == w.board
           read == [w EXCEPT !.step = IF Listed(b) = {} THEN "emit" ELSE "meta",
                             !.range = zset[b], !.todo = Listed(b)]
<1>1. w \in Reading /\ b \in Boards /\ w.step = "range" /\ w.entries = {} /\ Worker \in Readers
  BY DEF AllInv, TypeInv, TypeOK, Readers, Reading, Range, Copying
<1>2. UNCHANGED <<zset, meta, snapshot>>
  BY DEF Range
<1>3. SnapshotsBehind'
  BY <1>2 DEF SnapshotsBehind, Behind, OnePerUser
<1>4. /\ read.entries = {} /\ read.range = zset[b] /\ read.board = b
      /\ read.step \in {"emit", "meta"}
  BY <1>1 DEF Reading
<1>5. reader'[Worker] = read \/ reader'[Worker] = NextBoard(Worker)
  BY <1>1, Zenon DEF Range, AllInv, TypeInv, TypeOK
<1>6. NextBoard(Worker).entries = {} /\ NextBoard(Worker).step \in {"none", "range"}
  BY DEF NextBoard, Idle
<1>7. \A e \in snapshot[b] : e.score \subseteq zset[b][e.user]
  BY <1>1 DEF SnapshotsBehind, Behind
<1> HIDE DEF read, b, w
<1>8. CASE reader'[Worker] = read
  BY <1>2, <1>3, <1>4, <1>7, <1>8 DEF Copying, Behind, Ahead, OnePerUser
<1>9. CASE reader'[Worker] = NextBoard(Worker)
  BY <1>3, <1>6, <1>9 DEF Copying, Behind, Ahead, OnePerUser
<1> QED
  BY <1>3, <1>5, <1>8, <1>9

\* The worker reads the counters of a user: they have every game of the snapshot,
\* and so had the score.
LEMMA ReadMetaForward ==
  ASSUME AllInv, [Next]_vars, ~lost', SnapshotsBehind, Copying(reader[Worker]), ListsSound,
         NEW u \in Users, ReadMeta(Worker, u)
  PROVE  SnapshotsBehind' /\ Copying(reader[Worker])'
<1> DEFINE w == reader[Worker]
           b == w.board
           entry == [user |-> u, score |-> w.range[u], games |-> meta[b][u]]
           read(es) == [w EXCEPT !.todo = w.todo \ {u}, !.entries = es,
                                 !.step = IF w.todo = {u} THEN "emit" ELSE "meta"]
<1>1. w \in Reading /\ b \in Boards /\ w.step = "meta" /\ u \in w.todo /\ Worker \in Readers
  BY DEF AllInv, TypeInv, TypeOK, Readers, Reading, ReadMeta
<1>2. UNCHANGED <<zset, meta, snapshot>>
  BY DEF ReadMeta
<1>3. SnapshotsBehind'
  BY <1>2 DEF SnapshotsBehind, Behind, OnePerUser
<1>4. PICK es \in {w.entries \cup {entry}, w.entries} : reader' = [reader EXCEPT ![Worker] = read(es)]
  <2>1. PICK es \in {w.entries \cup {entry}} \cup (IF MayErr THEN {w.entries} ELSE {}) :
          reader' = [reader EXCEPT ![Worker] = read(es)]
    BY Zenon DEF ReadMeta
  <2> HIDE DEF read
  <2> QED
    BY <2>1
<1>5. /\ read(es).entries = es /\ read(es).range = w.range /\ read(es).board = b
      /\ read(es).todo = w.todo \ {u} /\ read(es).step \in {"emit", "meta"}
  BY <1>1 DEF Reading
<1>6. reader'[Worker] = read(es)
  BY <1>1, <1>4 DEF AllInv, TypeInv, TypeOK
<1>7. entry.user = u /\ entry.score = w.range[u] /\ entry.games = meta[b][u]
  OBVIOUS
<1>8. w.range[u] \subseteq zset[b][u]
  BY <1>1 DEF ListsSound
<1>9. \A e \in snapshot[b] : e.user = u => Includes(entry, e)
  BY <1>1, <1>7 DEF SnapshotsBehind, Behind, Copying, Includes
<1>10. \A e \in w.entries : e.user # u
  BY <1>1 DEF Copying
<1>11. Behind(w.entries, b) /\ Ahead(w.entries, b) /\ OnePerUser(w.entries)
       /\ (\A e \in w.entries : e.user \notin w.todo) /\ (\A e \in snapshot[b] : e.score \subseteq w.range[e.user])
  BY <1>1 DEF Copying
<1> HIDE DEF w, b, entry, read
<1>12. Behind(es, b) /\ Ahead(es, b) /\ OnePerUser(es) /\ \A e \in es : e.user \notin w.todo \ {u}
  BY <1>4, <1>7, <1>8, <1>9, <1>10, <1>11 DEF Behind, Ahead, OnePerUser
<1>13. Copying(reader[Worker])'
  BY <1>2, <1>5, <1>6, <1>11, <1>12 DEF Copying, Behind, Ahead, OnePerUser
<1> QED
  BY <1>3, <1>13

\* The worker writes its list.
LEMMA InsertForward ==
  ASSUME AllInv, [Next]_vars, ~lost', SnapshotsBehind, Copying(reader[Worker]), InsertSnapshot
  PROVE  SnapshotsBehind' /\ Copying(reader[Worker])'
<1>1. reader[Worker].board \in Boards /\ Worker \in Readers
  BY DEF AllInv, TypeInv, TypeOK, Readers, Reading
<1>2. NextBoard(Worker).entries = {} /\ NextBoard(Worker).step \in {"none", "range"}
  BY DEF NextBoard, Idle
<1>3. reader'[Worker] = NextBoard(Worker) /\ UNCHANGED <<zset, meta>>
  BY <1>1 DEF InsertSnapshot, AllInv, TypeInv, TypeOK
<1>4. Copying(reader[Worker])'
  BY <1>2, <1>3 DEF Copying, Behind, Ahead, OnePerUser
<1>5. \A b \in Boards : snapshot'[b] = snapshot[b]
                        \/ (b = reader[Worker].board /\ snapshot'[b] = reader[Worker].entries)
  BY DEF InsertSnapshot, AllInv, TypeInv, TypeOK
<1>6. SnapshotsBehind'
  BY <1>3, <1>5 DEF SnapshotsBehind, Copying, Behind, OnePerUser
<1> QED
  BY <1>4, <1>6

LEMMA StepForward == AllInv /\ [Next]_vars => ForwardInv'
<1> SUFFICES ASSUME AllInv, [Next]_vars, ~lost' PROVE SnapshotsBehind' /\ Copying(reader[Worker])'
  BY DEF ForwardInv, SnapshotsBehind, Copying, Behind, Ahead, OnePerUser
<1>1. ~lost /\ SnapshotsBehind /\ Copying(reader[Worker]) /\ ListsSound
  BY LostStays DEF AllInv, ForwardInv, SoundInv
<1>2. Worker \in Readers /\ reader \in [Readers -> Reading] /\ \A r \in Results : r # Worker
  BY LeaderboardAssumption DEF AllInv, TypeInv, TypeOK, Readers
<1>3. CASE UNCHANGED <<snapshot, reader>>
  BY <1>1, <1>3, Elsewhere
<1>4. ASSUME NEW r \in Results, Step(r) PROVE SnapshotsBehind' /\ Copying(reader[Worker])'
  <2>1. UNCHANGED snapshot /\ reader'[Worker] = reader[Worker]
    BY <1>2, <1>4, Zenon DEF Step, UpdateWindow, Publish, Spawn
  <2> QED
    BY <1>1, <2>1, Elsewhere
<1>5. ASSUME NEW x \in Readers, Read(x) PROVE SnapshotsBehind' /\ Copying(reader[Worker])'
  <2>1. CASE x = Worker
    BY <1>1, <1>5, <2>1, RangeForward, ReadMetaForward DEF Read
  <2>2. CASE x # Worker
    <3>1. UNCHANGED snapshot /\ reader'[Worker] = reader[Worker]
      BY <1>2, <1>5, <2>2, Zenon DEF Read, Range, ReadMeta
    <3> QED
      BY <1>1, <3>1, Elsewhere
  <2> QED
    BY <2>1, <2>2
<1>6. CASE Tick
  <2> DEFINE w == [reader[Worker] EXCEPT !.step = "range", !.board = 1]
  <2>1. reader'[Worker] = w /\ UNCHANGED <<zset, meta, snapshot>>
    BY <1>2, <1>6 DEF Tick
  <2>2. w.entries = {} /\ w.step = "range"
    BY <1>1, <1>2, <1>6 DEF Tick, Copying, Reading
  <2> HIDE DEF w
  <2>3. Copying(reader[Worker])'
    BY <2>1, <2>2 DEF Copying, Behind, Ahead, OnePerUser
  <2> QED
    BY <1>1, <2>1, <2>3 DEF SnapshotsBehind, Behind, OnePerUser
<1>7. CASE InsertSnapshot
  BY <1>1, <1>7, InsertForward
<1>8. CASE UNCHANGED vars \/ Forward
  BY <1>3, <1>8 DEF vars, Forward
<1>9. CASE LoseData
  BY <1>9 DEF LoseData
<1>10. ASSUME NEW r \in Results, NEW u \in Users, RecordResult(r, u) \/ RecordPrivateRoomResult(r, u)
       PROVE  UNCHANGED <<snapshot, reader>>
  BY <1>10 DEF RecordResult, RecordPrivateRoomResult, BeginRecord
<1> QED
  BY <1>3, <1>4, <1>5, <1>6, <1>7, <1>8, <1>9, <1>10 DEF Next

\* Only the worker writes snapshots.
LEMMA SnapshotSteps ==
  ASSUME TypeInv, [Next]_vars, NEW b \in Boards
  PROVE  \/ snapshot'[b] = snapshot[b]
         \/ b = reader[Worker].board /\ snapshot'[b] = reader[Worker].entries
<1>1. CASE InsertSnapshot
  BY <1>1 DEF InsertSnapshot, TypeInv, TypeOK
<1>2. CASE UNCHANGED vars \/ Forward \/ Tick \/ LoseData
  BY <1>2 DEF vars, Forward, Tick, LoseData
<1>3. ASSUME NEW r \in Results, NEW u \in Users, RecordResult(r, u) \/ RecordPrivateRoomResult(r, u)
      PROVE  UNCHANGED snapshot
  BY <1>3 DEF RecordResult, RecordPrivateRoomResult, BeginRecord
<1>4. ASSUME NEW r \in Results, Step(r) PROVE UNCHANGED snapshot
  BY <1>4 DEF Step, UpdateWindow, Publish
<1>5. ASSUME NEW x \in Readers, Read(x) PROVE UNCHANGED snapshot
  BY <1>5 DEF Read, Range, ReadMeta
<1> QED
  BY <1>1, <1>2, <1>3, <1>4, <1>5 DEF Next

\* What is answered after a step is from the window or from the snapshot.
LEMMA Answers ==
  ASSUME NEW b, NEW board \in HandleGet(b)', NEW f \in board
  PROVE  \/ f \in snapshot'[b]
         \/ \E u \in Users : f = [user |-> u, score |-> zset'[b][u], games |-> meta'[b][u]]
<1> DEFINE all == {[user |-> u, score |-> zset'[b][u], games |-> meta'[b][u]] : u \in Listed(b)'}
<1>1. f \in snapshot'[b] \/ f \in all
  <2>1. \A t \in Tops(b)' : t \subseteq all
    BY DEF Tops
  <2> HIDE DEF all
  <2> QED
    BY <2>1 DEF HandleGet, SnapshotFallback
<1> QED
  BY <1>1 DEF Listed

\* No board answered for a window, live or from a snapshot, lists a user without a
\* game an earlier snapshot showed, for any interleaving, until data is lost.
THEOREM BoardsForward == Spec => BoardsMoveForward
<1>1. AllInv /\ [Next]_vars =>
        [~lost' => \A b \in 1..Windows : \A board \in HandleGet(b)' : \A e \in snapshot[b], f \in board :
           e.user = f.user => e.score \subseteq f.score /\ e.games \subseteq f.games]_vars
  <2> SUFFICES ASSUME AllInv, [Next]_vars, ~lost', NEW b \in 1..Windows, NEW board \in HandleGet(b)',
                      NEW e \in snapshot[b], NEW f \in board, e.user = f.user
               PROVE  Includes(f, e)
    BY DEF Includes
  <2>1. SnapshotsBehind /\ Copying(reader[Worker])
    BY LostStays DEF AllInv, ForwardInv
  <2>2. b \in Boards /\ e \in Entry /\ e.user \in Users
    BY LeaderboardAssumption DEF Boards, AllInv, TypeInv, TypeOK, Entry
  <2>3. CASE f \in snapshot'[b]
    <3>1. CASE snapshot'[b] = snapshot[b]
      BY <2>1, <2>2, <2>3, <3>1 DEF SnapshotsBehind, OnePerUser, Includes
    <3>2. CASE b = reader[Worker].board /\ snapshot'[b] = reader[Worker].entries
      BY <2>1, <2>3, <3>2 DEF Copying, Ahead
    <3>3. snapshot'[b] = snapshot[b] \/ (b = reader[Worker].board /\ snapshot'[b] = reader[Worker].entries)
      BY <2>2, SnapshotSteps DEF AllInv
    <3> QED
      BY <3>1, <3>2, <3>3
  <2>4. ASSUME NEW u \in Users, f = [user |-> u, score |-> zset'[b][u], games |-> meta'[b][u]]
        PROVE  Includes(f, e)
    <3>1. f.user = u /\ f.score = zset'[b][u] /\ f.games = meta'[b][u]
      BY <2>4
    <3>2. e.score \subseteq zset[b][u] /\ e.games \subseteq meta[b][u]
      BY <2>1, <2>2, <3>1 DEF SnapshotsBehind, Behind
    <3> QED
      BY <2>2, <3>1, <3>2, BoardsGrow DEF Includes
  <2>5. \/ f \in snapshot'[b]
        \/ \E u \in Users : f = [user |-> u, score |-> zset'[b][u], games |-> meta'[b][u]]
    BY Answers
  <2> QED
    BY <2>3, <2>4, <2>5
<1>2. Init => AllInv
  BY InitTypes, InitSound, InitForward DEF TypeInv, Begun, Init, AllInv
<1>3. AllInv /\ [Next]_vars => AllInv'
  BY StepTypes, StepSound, StepForward DEF AllInv
<1> QED
  BY <1>1, <1>2, <1>3, PTL DEF Spec, BoardsMoveForward
=============================================================================
