------------------------------- MODULE MCLobby -------------------------------
(* From login into the world: two connections, two accounts.  Two keys are *)
(* of account a1 (the same player twice), one is of a2, one is for another *)
(* world.  Three names for two slots, so an account can be full and names  *)
(* can clash, and a connection can enter with one character after another. *)
EXTENDS MCSession

CONSTANTS a1, a2, k1, k2, k3, k4, u1, u2

LobbySession ==
    k1 :> Key(a1, u1, 1) @@ k2 :> Key(a1, u1, 1)
        @@ k3 :> Key(a2, u2, 1) @@ k4 :> Key(a2, u2, 2)

\* Nothing in Session, World and CharacterStore tells these apart.
Symmetry == Permutations(Conns) \cup Permutations(Characters) \cup Permutations(Names)
=============================================================================
