---------------------------- MODULE MCMatchmaking ----------------------------
EXTENDS Matchmaking, TLC

Symm == Permutations(Users)
=============================================================================
