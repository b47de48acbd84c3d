-------------------------------- MODULE Ciphers --------------------------------
(***************************************************************************)
(* The counters behind the keystream of a connection: the sending cipher   *)
(* of module Transport, whose blocks module Rabbit makes.                  *)
(***************************************************************************)
EXTENDS Transport, Rabbit

CONSTANT Keyed          \* counters and carry as some keys leave them

ASSUME CiphersAssumption == Keyed \subseteq Counters

\* What a key's counters are behind n blocks.
After(s, n) ==
    LET after[k \in Nat] == IF k = 0 THEN s ELSE next(after[k - 1])
    IN  after[n]

\* The words with the carry that is still to be added: a number that starts
\* again at 0 after the largest one.
Around == Value([j \in Limbs |-> Word - 1], 0)

Turns(s) == (Value(s.c, 0) + s.b) % Around

\* However many blocks the bodies sent so far took up, the counters have moved
\* by that many increments and lost no carry within a block or between blocks,
\* so two blocks have the same counters only when the increments have gone all
\* the way around (Rabbit.next, Rabbit.Keystream).
CountersInStep ==
    \A s \in Keyed :
        Turns(After(s, s2c.made))
            = (Turns(s) + s2c.made * Value(rabbitA, 0)) % Around
===============================================================================
