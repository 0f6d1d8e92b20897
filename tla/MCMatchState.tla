---------------------------- MODULE MCMatchState ----------------------------
EXTENDS MatchState, TLC

\* Every question has a token of its own.
MCTokenOf == [o \in Orders |-> <<"token", o>>]

MCBadToken == <<"token", 0>>

\* Calls are interchangeable, and so are the players of a match without guests.
Symm == Permutations(Calls) \cup Permutations(Players)
=============================================================================
