----------------------------- MODULE MCTransport -----------------------------
(* Bodies of no byte, of exactly a block, which is also the shortest that  *)
(* Decode accepts, of more than a block, which is the largest that the     *)
(* length field can hold, and one whose length wraps.                      *)
EXTENDS Ciphers, TLC

CONSTANTS none, block, largest, wrapping

MCSizeOf == (none :> 0) @@ (block :> 3) @@ (largest :> 5)
    @@ (wrapping :> 9) @@ (Hello :> 4)

\* The first three bits of the increments of the code.
MCrabbitA == LET digits == <<2, 6, 1>> IN [j \in Limbs |-> digits[(j % 3) + 1]]

\* Words that carry at the next block, at a later one, and everywhere.
MCKeyed ==
    {[c |-> [j \in Limbs |-> 0], b |-> 1],
     [c |-> [j \in Limbs |-> j], b |-> 0],
     [c |-> [j \in Limbs |-> Word - 1], b |-> 1]}
=============================================================================
