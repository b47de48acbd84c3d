------------------------------ MODULE MCProgress -----------------------------
(* Two connections of one account with one stored character, one more slot *)
(* and one more name, so that they race to create as well as to enter.     *)
EXTENDS MCSession

CONSTANTS a1, k1, u1, c1, c2, n1, n2

SoloSession  == k1 :> Key(a1, u1, 1)
SoloAccounts == a1 :> Account(u1)
SoloRoster   == c1 :> Character(a1, 0, n1) @@ c2 :> None
=============================================================================
