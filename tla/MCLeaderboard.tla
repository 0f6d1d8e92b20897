---------------------------- MODULE MCLeaderboard ----------------------------
EXTENDS Leaderboard, TLC

\* Results are interchangeable.
Symm == Permutations(Results)
=============================================================================
