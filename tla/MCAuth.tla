------------------------------- MODULE MCAuth -------------------------------
EXTENDS Auth, TLC

CONSTANTS u1, u2, e1, e2, bob, Bob, eve, guestA

MCSeedEmail == u1 :> e1 @@ u2 :> e2
MCCanonical == Bob :> bob @@ eve :> eve @@ guestA :> guestA
MCLength == bob :> 3 @@ eve :> 3 @@ guestA :> 12

MCSymmetry == Permutations(Calls)
=============================================================================
