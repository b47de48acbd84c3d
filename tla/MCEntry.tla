------------------------------- MODULE MCEntry -------------------------------
(* Entering the world: account a1 has two characters, so a connection can  *)
(* enter twice, a2 has one.  Keys are reusable, so two connections can be  *)
(* of one account and enter with the same character.                       *)
EXTENDS MCSession

CONSTANTS a1, a2, k1, k2, u1, u2, c1, c2, c3, n1, n2, n3

EntrySession == k1 :> Key(a1, u1, 1) @@ k2 :> Key(a2, u2, 1)

EntryAccounts == a1 :> Account(u1) @@ a2 :> Account(u2)

EntryRoster ==
    c1 :> Character(a1, 0, n1) @@ c2 :> Character(a1, 1, n2) @@ c3 :> Character(a2, 0, n3)
=============================================================================
