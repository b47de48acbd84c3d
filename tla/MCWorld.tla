------------------------------- MODULE MCWorld -------------------------------
(* A small world: two characters, two poses and a channel of three         *)
(* commands, enough for a Join, a Leave and a Move of one character, or    *)
(* calls for both characters, to wait together.  The world never looks at  *)
(* who the entrant of a player is, so one entrant is enough here; the      *)
(* sessions' module uses one per connection.                               *)
EXTENDS World
=============================================================================
