----------------------------- MODULE MatchQueue -----------------------------
(***************************************************************************)
(* The random 1v1 matchmaking queue (internal/match/queue/manager.go).     *)
(*                                                                         *)
(* Manager keeps the waiting players in a map keyed by queue token; every  *)
(* operation runs under the manager's mutex, so each is one step.  A queue *)
(* token is uuid.New(): here the next number of a counter, which also      *)
(* orders the entries by QueuedAt.  Names, difficulty and BotOK are left   *)
(* out: no operation with a caller reads them.                             *)
(***************************************************************************)
EXTENDS Integers, FiniteSets

CONSTANTS Users,        \* user ids
          Categories,   \* category strings a caller may ask for, "" included
          MaxEnqueues   \* bound: number of queue tokens ever issued

ASSUME QueueAssumption ==
  /\ MaxEnqueues \in Nat
  /\ "general" \in Categories

VARIABLES waiting,      \* the map Manager.waiting, as the set of its values
          nextToken,    \* the token the next call of Enqueue draws
          pairs,        \* every MatchPair Enqueue has returned
          cancelled     \* tokens removed by Dequeue

queueVars == <<waiting, nextToken, pairs, cancelled>>

Tokens == 1..MaxEnqueues

WaitingPlayer == [UserID : Users, PreferredCategory : Categories, QueueToken : Tokens]

MatchPair == [Player1 : WaitingPlayer, Player2 : WaitingPlayer]

QueueTypeOK ==
  /\ waiting \subseteq WaitingPlayer
  /\ nextToken \in 1..(MaxEnqueues + 1)
  /\ pairs \subseteq MatchPair
  /\ cancelled \subseteq Tokens

QueueInit ==
  /\ waiting = {}
  /\ nextToken = 1
  /\ pairs = {}
  /\ cancelled = {}

-----------------------------------------------------------------------------

normalizeCategory(c) == IF c = "" THEN "general" ELSE c

isCompatible(p1, p2) ==
  normalizeCategory(p1.PreferredCategory) = normalizeCategory(p2.PreferredCategory)

\* Mutant: the "skip self" test of the scan is gone.
CandidatesWithSelf(player) == {other \in waiting : isCompatible(player, other)}

\* Mutant: the scan looks at the entry that has waited longest and at no other.
CandidatesFront(player) ==
  {other \in waiting : /\ other.UserID # player.UserID /\ isCompatible(player, other)
                       /\ \A w \in waiting : other.QueueToken <= w.QueueToken}

\* The entries at which the scan of Enqueue may stop: Go iterates a map in an
\* unspecified order, so it may stop at any of them.
Candidates(player) ==
  {other \in waiting : other.UserID # player.UserID /\ isCompatible(player, other)}

\* Mutant: the partner's entry is not deleted from the map.
PairKeepingEntry(player, other) ==
  /\ pairs' = pairs \cup {[Player1 |-> player, Player2 |-> other]}
  /\ UNCHANGED waiting

Pair(player, other) ==
  /\ waiting' = waiting \ {other}
  /\ pairs' = pairs \cup {[Player1 |-> player, Player2 |-> other]}

Enqueue(u, c) ==
  LET player == [UserID |-> u, PreferredCategory |-> c, QueueToken |-> nextToken]
  IN  /\ nextToken <= MaxEnqueues
      /\ nextToken' = nextToken + 1
      /\ \/ \E other \in Candidates(player) : Pair(player, other)
         \/ /\ Candidates(player) = {}
            /\ waiting' = waiting \cup {player}
            /\ UNCHANGED pairs
      /\ UNCHANGED cancelled

\* A token that is not in the map is refused ("queue token not found").
Dequeue(t) ==
  /\ \E w \in waiting : w.QueueToken = t
  /\ waiting' = {w \in waiting : w.QueueToken # t}
  /\ cancelled' = cancelled \cup {t}
  /\ UNCHANGED <<nextToken, pairs>>

QueueNext ==
  \/ \E u \in Users, c \in Categories : Enqueue(u, c)
  \/ \E t \in Tokens : Dequeue(t)

QueueSpec == QueueInit /\ [][QueueNext]_queueVars

-----------------------------------------------------------------------------

WaitingTokens == {w.QueueToken : w \in waiting}

TokensOf(p) == {p.Player1.QueueToken, p.Player2.QueueToken}

\* The two asked for the same category, no category counting as general.
SameCategory(a, b) ==
  normalizeCategory(a.PreferredCategory) = normalizeCategory(b.PreferredCategory)

(***************************************************************************)
(* Matchmaking never idles: two entries of different users who asked for   *)
(* the same category never wait at the same time, whatever sequence of     *)
(* Enqueue and Dequeue calls led here (the scan in Enqueue only compares   *)
(* the newcomer with the others, and nothing ever rescans the map).        *)
(***************************************************************************)
NoCompatiblePairWaits ==
  \A a, b \in waiting : a.UserID # b.UserID => ~SameCategory(a, b)

(***************************************************************************)
(* Every queue token handed out has exactly one fate: it still waits, it   *)
(* was cancelled, or it belongs to exactly one pair.  So a player taken    *)
(* from the map cannot be matched a second time, and a cancel that         *)
(* succeeded can never be followed by a match.                             *)
(***************************************************************************)
OneFatePerToken ==
  /\ \A a, b \in waiting : a.QueueToken = b.QueueToken => a = b
  /\ \A p, q \in pairs : TokensOf(p) \cap TokensOf(q) # {} => p = q
  /\ \A p \in pairs : TokensOf(p) \cap (WaitingTokens \cup cancelled) = {}
  /\ WaitingTokens \cap cancelled = {}
  /\ \A t \in Tokens :
       t < nextToken <=> \/ t \in WaitingTokens \cup cancelled
                         \/ \E p \in pairs : t \in TokensOf(p)

(***************************************************************************)
(* Enqueue pairs two different users of one (normalised) category, and     *)
(* Player1 is the one who arrived last.                                    *)
(***************************************************************************)
PairsAreLegal ==
  \A p \in pairs : /\ p.Player1.UserID # p.Player2.UserID
                   /\ SameCategory(p.Player1, p.Player2)
                   /\ p.Player2.QueueToken < p.Player1.QueueToken
=============================================================================
