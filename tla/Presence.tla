------------------------------- MODULE Presence ------------------------------
(***************************************************************************)
(* What the world promises to the goroutines that call it: while the loop  *)
(* is up, Join, Leave and Move act at once and atomically on one table of  *)
(* present players.  No queue and no loop is visible.  When the loop halts *)
(* the table is frozen, and calls it had not executed may be lost.         *)
(***************************************************************************)
CONSTANTS Characters,   \* the character ids
          Entrants,     \* who a player entity is: its connection and account
          Poses,        \* map positions with a facing
          None          \* no player

Player == [entrant : Entrants, pose : Poses]

VARIABLES present,      \* the player entity of each character, or None
          up            \* the simulation loop is running

Init ==
    /\ present = [c \in Characters |-> None]
    /\ up = TRUE

Enter(c, p) ==
    /\ up
    /\ present' = [present EXCEPT ![c] = p]
    /\ UNCHANGED up

Depart(c) ==
    /\ up
    /\ present' = [present EXCEPT ![c] = None]
    /\ UNCHANGED up

\* A player that is absent is not brought back by moving.
Reposition(c, pose) ==
    /\ up
    /\ present[c] # None
    /\ present' = [present EXCEPT ![c].pose = pose]
    /\ UNCHANGED up

Halt ==
    /\ up
    /\ up' = FALSE
    /\ present' \in [Characters -> Player \cup {None}]

Next ==
    \/ \E c \in Characters :
          \/ \E p \in Player : Enter(c, p)
          \/ Depart(c)
          \/ \E pose \in Poses : Reposition(c, pose)
    \/ Halt

Spec == Init /\ [][Next]_<<present, up>>
=============================================================================
