# The quiz server in TLA+

This directory specifies, model-checks and proves the match server of the repository:
random matchmaking over WebSockets, private rooms, running matches kept in Redis under a
lock, scoring, the choice of questions, the WebSocket hub, the leaderboards and
authentication. Every definition is translated from the Go code; `PROJECT.json` names the
lines each one stands for.

## 1. Inventory

### Components, their state and their operations

| Component | Code | State | Operations |
|---|---|---|---|
| Matchmaking queue | `internal/match/queue/manager.go` | map token -> waiting player, one mutex | `Enqueue`, `Dequeue`, `GetPosition` |
| Queue handlers | `internal/match/handler.go` | locals of a handler | `handleJoinQueue`, `handleCancelQueue`, `handleLeaveMatch` |
| Match service | `internal/match/service.go`, `state.go` | Redis: lock, one JSON state per player, the question pack; Postgres: the match's row | `CreateRandomMatch`, `CreatePrivateMatch`, `SubmitAnswer`, `FinalizeMatch` |
| Scoring engine | `internal/match/scoring/engine.go` | none (pure) | `CalculateScore`, `ComputeFinalScore` |
| Private rooms | `internal/match/room.go`, `http.go`, `handleJoinPrivate` | map code -> room, rooms shared by pointer | `CreateRoom`, `JoinRoom`, `StartRoom` |
| Hub | `pkg/http/ws/hub.go` | map user -> connection, map match -> slice of users; per connection a send queue and a closed flag | register, unregister, join, leave, broadcast, send, the two pumps |
| Leaderboard | `internal/leaderboard/*.go` | Redis: sorted set and hash per window; a pub/sub channel; Postgres snapshots | `RecordResult`, `RecordPrivateRoomResult`, `Top`, publish, forward, snapshot, HTTP read |
| Question packs | `internal/question/*.go` | Postgres: the curated pool; Redis: one set of asked questions per player | `FetchPack`, `AddUserQuestionHistory` |
| Authentication | `internal/auth/*.go` | Postgres: the rows of `users`, e-mail and user name UNIQUE; Redis: reserved guest names and reset tokens; the JWTs clients hold | `Register`, `Login`, `CreateGuest`, `ConvertGuest`, `SetUsername`, `CreateOrGetOAuthUser`, `RefreshToken`, `RequestPasswordReset`, `ResetPassword` |
| Repositories, wiring, examples | `internal/db`, `internal/app`, `internal/server`, `examples` | - | one SQL statement each; start-up |

### How they interact

A WebSocket connection has a read goroutine, which runs every handler of that user, and a
write goroutine fed by the connection's send queue. Handlers call the queue, the room
manager and the match service (plain calls, each with its own mutex or Redis lock) and
then the hub, which only enqueues messages. Nothing is held from one call to the next: a
handler is a sequence of short critical sections. The leaderboard is called by
`FinalizeMatch`, publishes through Redis from a goroutine of its own, and reaches the
clients through the broadcaster and the hub; a worker copies it to Postgres. Authentication
is reached over HTTP; the rest of the server sees of it only the claims of a valid token
(user id, name, guest or not).

### What is hard, and what must hold

- **Queue.** Two players join at once, a player joins twice, a cancel races a join: no two
  compatible players may wait side by side, and a token has one fate.
- **Queue handlers.** The pair is out of the queue before the match exists, and between
  any two calls, and between two turns of a broadcast, either player may drop, come back or
  leave: the one who stayed gets `match_found` and then the questions. (Each once if both
  stayed: a departure shifts the slice a broadcast is walking, and can repeat a message.)
- **Match service.** A lock with a 30 s lifetime, read-modify-write of a whole state,
  failing and half-failing commands, crashes: one answer per question, no acknowledged
  answer lost, nothing changed after finalisation, no match locked for ever.
- **Scoring.** The loop's streak arithmetic and its cap, and the two different formulas
  used on submission and on finalisation.
- **Question packs.** Samples that overlap, a generator that answers anything, histories
  that other matches extend meanwhile and that expire: neither player is asked too much again of
  what the histories hold. The code says that no question is asked twice in one match; that does
  not hold.
- **Rooms.** The room is read through a pointer after its lock was released, and looked up
  by code a second time, and the players may be gone, or never have been connected, when the
  match begins: the match has the room's players, the questions reach nobody else.
- **Hub.** A send races a close, the cleanup of an old connection races its replacement,
  and `append(s[:i], s[i+1:]...)` shifts an array another goroutine is iterating.
- **Leaderboard.** Rank and counters are read in separate commands while results are
  recorded; recording may stop half way; Redis may lose everything. A board answered from Redis
  or from a snapshot should not go back behind one that was shown.
- **Authentication.** Checks in Postgres and Redis are some commands older than the writes
  they are made for, several requests for one address or name run at once, each command may
  fail or lose its answer, guest names expire: no address gets two owners, no name two accounts
  or an account and a guest, and what a token says of an account must not become false. (Two
  guests may share a name.) A reset token is read, used and
  deleted in three commands.

The list of hazards with their lines is in `PROJECT.json` under `hazards`.

## 2. Modules

| Module | Models | State and actions against the code |
|---|---|---|
| `MatchQueue` | the queue, atomically (its mutex is held for a whole operation) | `waiting` is `Manager.queue`; `pairs` and `cancelled` record what was returned; `Enqueue`, `Dequeue`. The abstract specification of matchmaking. |
| `Matchmaking` (extends `MatchQueue`) | `handleJoinQueue` call by call, cancel, leave, connect, disconnect | `call[t].step` is the position in the handler, `members` is `Hub.matches` with its slices, `inbox` what the hub sent. A broadcast fetches the slice and then sends to one cell a step (`FetchSlice`, `SendToCell`), while departures shift the cells (`Without`); `steady` are the players of the pair who stayed. |
| `Scoring` | both formulas of the engine, on integers (percent instead of fractions) | loops are recursive functions (`FinalLoop`, `CurrentStreak`) over the answers, one value a round |
| `AnswerSheet` (extends `Scoring`) | one player's answers, the score earned on each and the final score | `Submit`, the clock, and a finalisation at any moment |
| `MatchState` (extends `Scoring`) | lock, `SubmitAnswer`, `FinalizeMatch`, one Redis or database command a step | `pc[c]` is where a call is, `copy[c]` the states it read, `final[c]` the states it computed, `outcome[c]` what it will return; `LockExpire` and `Crash` are the faults |
| `QuestionPack` | `FetchPack` and the history it keeps, one outside call a step | `call[c].result` is the pack so far, `hist` the sets in Redis, `ttl` those with a time to live (`HistoryExpires` drops one), `pool` the verified questions; a question is its id |
| `Rooms` | the room manager and `handleJoinPrivate`, with connections, disconnections and departures | `rooms` and `room` separate the map from the objects, as the pointers do; `online` and `members` are the hub's two maps; `JoinMatch` and `SendBatch` are one user of a loop each |
| `Hub` | registration, the pumps, send queues, membership slices with Go's aliasing, broadcasts | `BroadcastToMatch` takes the slice header under the lock; `Advance` then reads one element at a time from the shared array |
| `Leaderboard` | recording, reading, publishing, forwarding, snapshots | `zset` and `meta` hold the *set of results* a number is the sum of, so that two numbers can be compared by what they count; `HandleGet` is the set of boards a read may be answered with |
| `Accounts` | what registered users may rely on: the abstract specification of `Auth` | `account[u]` is the account, `claims` everything tokens have said of it; `Open`, `TakeName`, `ChangeSecret`, `Tell` |
| `Auth` | the HTTP handlers of `internal/auth`, one database or Redis command a step | `row` is the table `users`, `guestKey` and `resetKey` the two kinds of Redis keys, `tokens` every JWT answered, `call[c]` a request and its locals; `contested` records the guest names whose key did not protect them |
| `MC...` | model values and symmetry for TLC | |
| `...Proofs` | theorems | section 4 |

`Matchmaking` is the detailed specification of which `MatchQueue` is the abstract one;
that it implements it is a theorem (`ImplementsQueue`). `Auth` implements `Accounts` through
the refinement mapping `Registry`: the rows are the accounts, and the claims are those of
the tokens that are not a guest's. TLC checks it as a property of the run `auth`, and it is a
theorem. `MatchState` composes with
`Scoring` (the scores are those of the real formulas, not opaque). The remaining
components meet only through calls whose outcome (success, failure) is a choice in the
calling model: `CreateRandomMatch` in `Matchmaking`, the choice of questions inside it, `CreatePrivateMatch` in `Rooms`,
`RecordResult` in `MatchState`.

## 3. What is checked

| Run | Question | Result |
|---|---|---|
| `matchmaking` | Does each player of a pair who stays get both messages, in order, and each once if both stay? Do compatible players wait side by side, has a token two fates, is a pair illegal? | yes; no, no, no |
| `question_pack` | Does a pack repeat more than allowed of what the history of either player held (and did not lose meanwhile), does a rebuilt pack repeat anything of it? | no, no |
| `answer_sheet` | Does the scoring loop agree with a definition by runs of correct answers, stay within known bounds of the points shown on submission, and never pay more for waiting? | yes |
| `match_faults` | Under overrun locks, crashes and failing commands: duplicates, stolen locks, lost answers, answers changed after finalisation? | none |
| `match_result` | Is `completed` written last, do the results told to the leaderboard agree with the final states stored in Redis, is the lock always freed after a crash? | yes |
| `hub` | Is a registered connection open, does a member who stays miss a broadcast, can a send hit a closed channel, do dead connections go away? | yes, no, no, yes |
| `rooms` | Does a started room have the match of its players, do questions reach anyone else, does the handler that filled a room always end, with the room started or with an error to the joiner? | yes, no, yes (after an error the room stays full and waiting for ever) |
| `leaderboard` | Do windows nest, are points ever shown without their games, does a board answered after a snapshot ever go back behind it? | yes, no, not until Redis loses data |
| `auth` | Do the handlers implement the registry, do tokens stay true, who can share a name, does a deleted reset token start another reset? | yes; yes; guests only, and only where the key of the name expired, failed or was taken by both at once; no |

Three runs show a comment of the repository contradicted by the code:

| Run | Statement | What happens |
|---|---|---|
| `match_payload` | `service.go:492`: returns the match complete payload | `service.go:545` finalises copies of the range loop; the payload carries the scores from before, zero on a first finalisation |
| `hub_reconnect` | `handler.go:51`: cleanup of one's own connection | after a reconnect the old connection's cleanup (`hub.go:48`) closes and forgets the new one |
| `pack_duplicates` | `question/service.go:105`: the check for duplicates is mandatory for all matches | the filter at line 121 keeps everything whose id occurs, so a question drawn for two difficulties stays twice, with one token: its second copy cannot be answered |

Each property of a passing run is also shown to bite: `mutants` lists a plausible bug
(written in the module as the operator commented "Mutant") under which the run fails.

### Bounds, and why they are enough

- `matchmaking`: 3 users, 3 enqueues, an empty, a defaulted and another category, 1
  connection lost or replaced (any number of first connects, leaves and cancels): a pair, an
  outsider whose own handler runs meanwhile, a user queueing twice, and a drop at every step and
  at every turn of a broadcast. More entries in
  the queue could only be incompatible with each other. (The theorems about the queue
  cover all sizes.)
- `question_pack`: 3 questions of two difficulties (5 of three in the code), a pool of 0 to
  3, a generator with 3 questions and answers of one or two, `AllowedRepeats` = 1 (3 in the
  code) so that the three cases (none, few, too many) occur with packs of three. 3 users and
  2 matches: the second match may share one player with the first, both or none, so that
  the players' repeats differ, and may run before, during or after it. A history may expire at
  any moment once it has a time to live: the ten days are not counted.
- `answer_sheet`: 4 answers, times 0..3, `StreakBonusPercent` = 20 instead of 5 so that
  the cap of 50 percent is reached (and passed) with four answers instead of eleven.
- `match_faults`: 2 players, 2 questions, 3 calls in all. Three calls are needed for a
  stolen lock (an overrun call, its successor, and the one that would enter); two
  questions so that one can be answered and one left open.
- `match_result`: 2 players, one question, 3 calls, a clock of one tick, so that the
  two players' scores differ.
- `hub`: 2 users, 2 connections, one match, queue capacity 1 (256 in the code), one
  broadcast to the match, one to all. Both connections may belong to one user, which is the
  reconnect, or to two. The violation needs two connections of one user. A third
  connection (explored once without symmetry) added no behaviour of interest and a factor
  of forty in states.
- `rooms`: 2 rooms, 2 codes, 3 users (one a guest), 2 joins: two joins racing for the last
  seat, or each filling a room of its own. Users connect at any time, a host perhaps never, and 1
  of them disconnects or leaves a match at any step (`MaxDrops`). `DistinctDraws = TRUE` assumes that two
  simultaneous creations do not draw the same code of 900000, which the code does not
  ensure (section 5), so that the rest of the room protocol can be examined.
- `leaderboard`: 1 user, 2 results, 2 windows (4 in the code) and the private board, two
  ticks. Users' entries are independent of each other; what matters is two recordings, a
  reader and a worker at different windows.
- `auth`: 4 requests of more than one step (token refreshes and expiries are unbounded), so
  that two can race for an address or a name while a third holds a stale row, or a reset can
  be asked for, mailed, and tried by two others. 2 accounts from before, with their owners logged
  in; a third address that is free, and the empty one, which `ConvertGuest` and OAuth treat
  differently; a known, a new and a too short password; two typed names of which one is not in
  canonical form, and one that is longer than a user name may be; one guest name and 2 draws
  (50 in the code), so that a draw can collide, be repeated and give up. Requests are
  interchangeable (symmetry).

Deadlock is not checked: the bounded models stop when their bounded calls are used up. The
server itself has no state in which it must go on without input.

### Fairness

Safety properties are checked under the plain specification or the fair one alike.
Liveness assumes weak fairness of: the steps of a call that has begun (`MatchState`,
`Rooms`: a goroutine that can run does run, and every remote call returns, with a result
or an error); Redis dropping an expired key (`MatchState!LockExpire`); the pumps and the
clean-up of a connection (`Hub`). Nothing is assumed of clients: they need never send,
join, leave, disconnect or retry. No strong fairness is used.

## 4. What is proved

Checked by TLAPS for every value of the constants under the named `ASSUME`s: bounds are
naturals, values such as `NoUser` or `NoState` are not members of the sets they complement, the
curated questions (a Postgres table) are finitely many, the default category exists, there is a match for the hub, seeded accounts differ in their addresses,
and guest names have the length the code gives them. Further conditions stand in the theorem.

**Queue and handlers** (`MatchmakingProofs`)

- `QueueSafe`: `NoCompatiblePairWaits`, `OneFatePerToken` and `PairsAreLegal` hold of the
  queue for any users, categories and number of enqueues. They are inductive together with
  `QueueTypeOK`, and not one by one: that a newcomer who found no partner is compatible with
  nobody needs that `isCompatible`, asked in one direction only, is symmetric, and that its token
  is new needs the clause of `OneFatePerToken` by which exactly the tokens below `nextToken`
  have a fate.
- `ImplementsQueue`: every step of the handlers maps to a step of the queue or a stutter.
  Hence `MatchmakingQueueSafe` and `PairsStayLegal`: the invariants hold of matchmaking with
  disconnections, failing creations and any number of handlers.
- `MatchmakingTypeCorrect`, by `HandlerInv`: a call that goes on has its user and token. That
  a position is below the number of tokens issued needs that no more players wait than there
  are tokens, an injection argument (`WaitingBounded`).
- `SteadyPairServed`: `SteadyPairIsServed`. `ServiceInv` gives each call the invariant `CallInv` over its
  position, the slice of its match and the messages sent about it: who the call is for
  (`Paired`), who is in which cell (`Placed`), and which messages there are (`Sends`: `Before`,
  `During` and `After` a broadcast). The heart of it is that a departure shifts the cells a loop is
  walking and yet skips nobody who stays: of a pair the caller holds the first cell and the other
  player the last one, and the last cell of the loop keeps its user though the slice gets
  shorter (`Places`, `Walks`, with `WithoutProps` and `WithProps` about the slice). It also needs
  that a token not yet issued has no handler at work (`UnissuedIsIdle`).

**Running matches** (`MatchStateProofs`)

- `TypeCorrect`: `TypeOK`, by the invariant `TypeInv` = `TypeOK` and `Located`. `Located` says
  which locals a call has where: a submission has its request while it works, a copy of its
  player's state when it stores, and a finalisation a copy of every player its loop has left.
  Without it a write could not be shown well typed, as the `NoState` a call starts with might
  be stored.
- `LockSafe`: `LockNotStolen`. Between lock and unlock a call that has not overrun its 30 s
  holds the lock, whatever other calls unlock late, because the script compares the value.
- `NoDoubleAnswers`: `AnsweredOnce`, even when locks overrun. The lock is therefore not what
  it rests on. `AnswerInv` says that every copy is free of duplicates (`CopiesDupFree`) and that
  a call about to store holds a copy without an answer to its question (`TargetIsOpen`), so an
  overwritten state is still a state with one answer per question. The theorem needs no
  assumption that tokens differ.
- `FinalStatesComplete`: `FinalIsComplete`, also without the lock. Since a copy may be stored
  long after it was read, the invariant `CompleteInv` is about copies as well.
- `AnswersAreKept` and `FinalAnswersStay`: `AckedAnswersKept` and `FinalAnswersFrozen`, both
  conditional on no lock having run out. Here the lock is what counts: `FreshInv` says that what
  a call is about to write is what is stored, except for what it changes itself, because
  `LockSafe` keeps the other calls out. `AckInv` adds the answer that is stored and will be
  acknowledged by the unlock.
- `CompletedMatchesAreFinal`, if no command fails (`~MayErr`), for crashes at any point:
  `AllRead` says that the loops miss no player, `FinalInv` that every state written so far is final.
  The condition is needed: a failed SET is only logged and the match completed all the same.
- `ResultsAgreeWithStates`: `ResultsMatchStates` for random matches (`Mode = "random_1v1"`) if no
  command fails. What a call records is its own view of the winners (`WonInv`), computed from
  its copies; `ViewInv` says that from the moment a call has written a player's final state until
  it has told the leaderboard and unlocked, that copy is what Redis holds (`Views`). It rests on the
  lock (`LockSafe`), on a final state taking no further answer, and on every player having been
  read (`AllRead`). In a private room guests are left out of the comparison.

**Scoring** (`AnswerSheetProofs`)

- `Sound` holds of every sheet, by induction on its length (`SheetsAreSound`): the streak is the
  run the sheet ends with (`LastRun`), the counters are what a definition by runs says
  (`CountsMatch`), and the total is never more at a later time (`LaterPaysLess`). One more answer is
  one more round of the loop (`FinalOfAppend`), and the streak `SubmitAnswer` walks back to is the
  one `ComputeFinalScore` carries along (`StreakOfAppend`). `LoopCountsRuns`
  (`LoopMatchesRuns`) and `WaitingNeverPays` (`WaitingOnlyCosts`) follow with `SheetTypeCorrect`.
- `FinalStaysNearEarned`: `FinalTracksEarned`. It is not inductive as stated, since the clock
  runs: `TotalTracksEarned` bounds the total at every time from now on. The theorem assumes that
  a streak step is a whole number of points, `(BaseScore * StreakBonusPercent) % 100 = 0`; it is
  100 times 5 in the code, 100 times 20 in the run. Without it `int(...)` rounds each step of a
  streak on its own and the upper bound fails (50 points at 1%: two in a row pay one point more,
  and each step is none).

**Question packs** (`QuestionPackProofs`)

- What the two loops over questions compute, by induction on the number of questions they have
  looked at: a filter leaves only questions of its set and of the pack (`KeepProperties`), and
  `TakeNew` adds only questions of the batch and none twice (`TakeNewProperties`).
- `PackTypeCorrect`, `RepeatsAreBounded` and `RebuiltPacksAreFresh`: `TypeOK`, `RepeatsBounded` and
  `RebuiltPackIsFresh`, for any pool, generator and number of matches of the same players created
  at once. `PackInv` says of each call that what is counted against it is still in the histories
  until its pack is chosen (`HistoriesRemember`: other matches only add to a history, and one that
  expires is not counted against the calls that have not chosen yet; the check reads a later
  history and so refuses at least as much); that a pack being rebuilt is free of duplicates and of questions
  asked before (`FreshSoFar`); and that a pack about to be saved repeats little (`FewRepeats`).

**Authentication** (`AuthProofs`)

- `AccountsSafe`: `OwnersAreUnique` and `ClaimsAreTrue` of the registry `Auth` refines. A claim
  stays true because an account is never closed and takes a name once.
- `AuthTypeCorrect` and `AuthImplementsAccounts`: the invariant `AuthInv` says what a request
  carries from one command to the next (`CallHolds`): a request that is not over has opened no
  row, a login holds a row and a name that is that row's or none, a name about to be written was
  validated. With it every step is a step of `Accounts` or a stutter.
- `TokensStayTrue`: `ClaimsHold` comes from `AccountsSafe` through the refinement, not from
  an induction of its own. `NamesKeptApart`: `NamesAreKeptApart`. Two accounts share no name, again from the
  registry; no account has a guest's name, which rests on the lengths (`NamesHold`); and two guests
  share one only if it is in `contested`, by `GuestInv`: the name of a guest has its key or is
  contested, and it is contested if another request is about to take it.
- `ResetTokensAreSpent`: `ResetsOnce`. `ResetInv` says that a mailed token belongs to a
  request that is over, so nothing stores it again after its DEL.

**Leaderboard** (`LeaderboardProofs`)

- `TypeCorrect`. `WindowsNested`: `ShorterWindowsLead`, by `WindowsBefore`: a call that is at a
  window has been recorded in all the windows before it.
- `ListsAreSound`: `PointsHaveTheirGames`, by `SoundInv`: scores and counters change together
  (`zset = meta`), and what a reader took from the scores is still there when it reads the counters.
- `BoardsForward`: `BoardsMoveForward`. `ForwardInv`: until data is lost the last snapshot of a window
  counts nothing the window does not (`SnapshotsBehind`), and the list the worker is putting
  together lies between the two (`Copying`), also while results are recorded between its commands.
  So each answer, live or from a snapshot, is ahead of every earlier snapshot (`Answers`).

**Private rooms** (`RoomsProofs`)

- `TypeCorrect`, without conditions.
- `StartedRoomsHaveMatches` and `QuestionsStayInTheMatch`, under `DistinctDraws`. The invariant
  `RoomInv` has three parts: a call that looks its room up again by code finds the one it joined
  (`CodesHeld`, which is where a code drawn twice would break it); it holds the second seat of a full
  room (`SeatsTaken`), so no two calls start one room; and what was created, started, sent
  and told is about the same two players (`MatchesMade`), of whom the loops over the match hold
  a part, whoever has left or has no connection. That each player gets the questions is not
  claimed: a host that made its room by HTTP may have no connection.

**Hub** (`HubProofs`)

- `RegisteredStaysOpen` and `ClosedChannelsRest`: `RegisteredIsOpen` and `NoSendAfterClose`, by
  `ConnInv`: a connection in the map was opened for that user and is not closed.
- `HubTypeCorrect` and `BroadcastsReadUsers`: a broadcast stays inside the array it walks and
  reads users only, although joins and departures write that array. `MatchInv`: every slice header,
  those of broadcasts under way included, covers users only (`Filled`); a departure shifts inside the
  array, and an append either uses spare capacity or takes a new array, so neither undoes it.
- `BroadcastsReachStayers`: `StayersAreReached`, for matches that at most two users ever joined
  (`OfTwo`), among any number of users. By `StayInv`: a broadcast under way is sending to each user it
  owes the message, or has that user in a cell ahead of it (`StayersOwed`). A departure
  overwrites the cells from the one it cuts to the last but one, and with two players none of
  those held a player who stays; an arrival writes into a cell the broadcast walks only after
  somebody left (`WalksMembers`), and then the newcomer is a third.

How the inductions are done: the library's induction theorems take an operator as a parameter,
which no installed prover instantiates. `QuestionPackProofs` and `AnswerSheetProofs` therefore start
from the fact, stated without operators, that a well-founded relation has a minimal element in
every set (`WFMin` with `NatLessThanWellFounded`): a set of naturals that holds 0 and the successor of each
of its members holds them all (`Induct`). With it a recursive function exists (`LoopExists`), is the
only one (`LoopUnique`), and is therefore what `CHOOSE` picks in the definition of the loop.

Only model-checked: liveness (`LockAlwaysFreed`, `DeadConnectionIsReaped`,
`FullRoomResolved`), which needs `ENABLED` and is beyond the prover. Every other property of a
passing run is stated by a theorem.

## 5. Limits and observations

Not modelled:

- The question generator is a call with any answer; the cache in front of `FetchPack` never
  hits, as its key holds the seed of the match, and the prefetching worker is never started.
- Of authentication: token signing and expiry, the OAuth exchange and mail, which are I/O
  around single calls (a token in `Auth` is what its claims say, and a mail arrives or not);
  `GetMe` and the suggestions for a taken name (`service.go:556`), which only read; the
  column `last_login`; the branches for a server without Redis, which the program does not start.
- Repositories and generated SQL: one statement per function. Those on `users` are definitions
  of `Auth`, with the UNIQUE constraints; the others are present as the
  commands of the services that call them. Application wiring, examples, deployment: start-up
  and shutdown code without a protocol of its own, and a sample outside the server.
- The 2 h lifetime of match states and the 7 days of room boards. The lifetimes that are modelled
  (match locks, histories, guest names, reset tokens) may end at any moment. The lists of the
  leaderboard models are shorter than the limit of `Top`.
- A started match in a room with more than two players: `validateCreateRoomRequest` admits
  two only. `StayersAreReached` is conditional on `OfTwo`; with three members the
  in-place shift of `UnregisterConnection` could make a concurrent broadcast skip one.
- The order of shutdown (`app.go:242-258`): Postgres and Redis are closed while handlers of
  WebSocket connections, which `Shutdown` does not wait for, may still run. A handler that
  stops there has done a prefix of its commands, as after `Crash` in `MatchState`.

`RowFound`. `CreateRandomMatch` and `CreatePrivateMatch` draw a match id
(`service.go:134`, `:287`), but the INSERT leaves `match_id` to the database and the returned
row is discarded. So at this commit `GetSummary(matchID)` finds no row, `UpdateStatus`
completes none and reports no error, `leaderboardEligible` stays false and no result is
recorded. `RowFound = FALSE` is that program, and the setting of `match_faults` and
`match_payload`. `match_result` sets `RowFound = TRUE`: it examines what
`FinalizeMatch` would do with a row it can find, so `CompletedMeansFinal` and
`ResultsMatchStates` are statements about the function's own logic and not about the wired
program; `LockAlwaysFreed` does not depend on it. The theorems hold for both values.
The `Leaderboard` module is likewise the service behind its public operations.

`BindsUUID`. The repository hands a `uuid.UUID` to `pgtype.UUID.Scan` and drops the error
(`user_repo.go`). Whether that binds the id is decided in a library outside `src/`; if it does not,
every statement with `WHERE user_id = $1` reaches no row. The run sets `BindsUUID = TRUE`, the
program that works; the theorems about `Auth` hold for both values.

Other things seen while modelling, without a run of their own:

- `GetPosition` (`manager.go:106`) counts what a range over a Go map yields before the
  token; its comment at line 105 says 0 is the front. The model lets it return any index.
- `FinalizeAndBroadcastMatch` (`handler.go:309`) has no caller, although its comment asks
  for one when a match ends.
- `generateRoomCode` (`room.go:216`) tests a code under the read lock and `CreateRoom` (line 100)
  inserts the room under the write lock later, although the comments at lines 63 and 214 say
  unique: with `DistinctDraws = FALSE` two creations that draw one code both succeed, the
  second room replaces the first in the map, and its host's code leads to the other room.
- Two matches of one player created at once may get the same questions: the history is
  read by both before either saves it. A history is forgotten as a whole ten days after it was last
  extended (`question/service.go:583`), and then nothing it held counts as a repeat; if that EXPIRE
  fails the history keeps the lifetime it had, or has none.
- Within a broadcast a departure can give the player who stays the message twice (`hub.go:94-110`
  walks the slice that `hub.go:58` shifts). `SteadyPairIsServed` promises each message once only
  if both players stayed.
- A host that makes its room by HTTP need not be connected: it is joined to the match and its
  sends fail (`hub.go:134`), so it never gets its questions and nobody is told.
- `handleJoinPrivate` and `handleJoinQueue` drop the error of a broadcast (`handler.go:361`), as of
  a full send queue: the message is lost for that player.
- `engine.go:38` says that the bonus depends on how fast the answer came; `engine.go:126`
  measures up to the moment of finalisation, so the same answers score less the later it runs.
  `WaitingOnlyCosts` states the direction that holds.
- `publishUpdate` runs in a goroutine of its own (`leaderboard/service.go:146`): the list of an
  earlier result may be published after that of a later one, and stays on the screens.
- `ConvertGuest` does not use the guest id of the request, although the comment at
  `auth/service.go:276` calls it a conversion of that guest: it opens a fresh account.
- The EXISTS on the guest names in `SetUsername` (`auth/service.go:379`) can refuse nobody:
  a guest name has 12 to 14 characters and a user name at most 10. That no account takes a
  guest's name (in `NamesAreKeptApart`) rests on the lengths alone.
- `auth/service.go:173` says that it generates a unique guest username. Two guests can hold one
  name: EXISTS (line 190) and SET (line 228) are two commands and the SET is a plain one, so two
  requests may find the name free before either takes it; the SET may fail, which is only logged;
  and the key expires after 24 hours, while the guest can refresh its tokens for longer.
  `NamesAreKeptApart` states that there is no other way.
- If a board is empty in Redis, or cannot be read there, and the snapshot cannot be read or decoded
  either (`leaderboard/http.go:104-115`), the answer is an empty board with status 200 although a
  snapshot exists. `HandleGet` contains that answer, and after Redis has lost its data a board may go
  back: `BoardsMoveForward` speaks of the time before.
- Two resets with one token that overlap, or a second one after a DEL that failed, both
  succeed, although `auth/service.go:523` says single-use; `ResetsOnce` states what is ensured.
- The search for a free name with a number (`auth/service.go:580`) has no bound on its loop.
- If `CreateRandomMatch` fails only the caller hears of it; the opponent is out of the queue
  and not told. A player who disconnects while waiting stays in the queue.
- Between `Enqueue` and the `queue_update` of its own handler (`handler.go:153`) a newcomer may be
  paired by another player's handler: it is then told that it waits after `match_found`.
- If `CreatePrivateMatch` fails, the room stays full and waiting, and nothing can start it;
  `FullRoomResolved` accepts this end because the join that took the seat ends with an error.
- The timeout of a question is the one `GetSummary` finds, on submission and on finalisation, or 15
  seconds where it finds none (`match/service.go:430-434`, `:535-538`). `AnswerSheet` has one constant
  for both: the code reads one row that nobody changes, and at this commit none (`RowFound`). If the
  read failed on one of the two only, the two scores would use different timeouts.
- An answer may be stamped before one that is processed earlier, as the stamp is taken before the
  lock (two connections of one player): `AnswerSheet!Submit` allows it.
- A second `FinalizeMatch` recomputes the scores from a later clock and would count the
  match in the leaderboard again.
- After an overrun lock an acknowledged answer can be lost to a late write: this is why
  `AckedAnswersKept` and `FinalAnswersFrozen` are conditional on `expired = {}`.

## 6. Plan

Done, in this order: `MatchQueue` and its proof; `Matchmaking` on top of it;
`Scoring` and `AnswerSheet`; `MatchState` and its proofs; `Hub`; `Rooms`; `Leaderboard`;
`QuestionPack`; `Accounts` and `Auth` with the refinement; the proofs about
`Auth`, `Leaderboard`, `Rooms` and `Hub` and about what `MatchState` keeps; the proofs about the
loops of `AnswerSheet` and `QuestionPack` and about `SteadyPairIsServed`; then broadcasts cell by cell
in `Matchmaking`, connections and departures in `Rooms`, the expiry of histories in `QuestionPack`,
and the properties about them.

Next:

1. A composition of `QuestionPack` and `MatchState`, in which `TokenOf` is the pack that was
   chosen, so that a duplicate shows as a question that cannot be answered.
2. The safety halves of the liveness properties: a lock that is held has a call or an expiry
   that will free it, a full room has a call that will settle it.

## Running

    tlc -config MCHub.cfg Hub.tla
    tlc -config MCAuth.cfg MCAuth.tla
    tlapm MatchStateProofs.tla
