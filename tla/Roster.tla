------------------------------- MODULE Roster --------------------------------
(***************************************************************************)
(* What the lobby promises to the players that create characters: Create   *)
(* acts at once and atomically on one table, in which a new character gets *)
(* the lowest free slot of its account.  No list that may be stale and no  *)
(* insert that comes later is visible.  Accounts and characters stay.      *)
(***************************************************************************)
EXTENDS Naturals

CONSTANTS Characters,   \* the character ids
          Accounts,     \* the account ids
          Names,        \* character names
          MaxSlots,     \* how many characters an account may have
          StoredRoster, \* the characters there are at first
          None          \* no character

VARIABLES rows,         \* the account, slot and name of each character, or None
          registered    \* the accounts that may create characters

Created == {c \in Characters : rows[c] # None}

Free(a) ==
    {slot \in 0 .. MaxSlots - 1 :
        \A c \in Created : rows[c].account = a => rows[c].slot # slot}

Init ==
    /\ rows = StoredRoster
    /\ registered \in SUBSET Accounts

Register(a) ==
    /\ registered' = registered \cup {a}
    /\ UNCHANGED rows

Create(a, name) ==
    /\ a \in registered
    /\ \A c \in Created : rows[c].name # name
    /\ \E c \in Characters \ Created, slot \in Free(a) :
          /\ \A other \in Free(a) : slot <= other
          /\ rows' = [rows EXCEPT ![c] = [account |-> a, slot |-> slot, name |-> name]]
    /\ UNCHANGED registered

Next == \E a \in Accounts : Register(a) \/ \E name \in Names : Create(a, name)

Spec == Init /\ [][Next]_<<rows, registered>>
=============================================================================
