-------------------------------- MODULE Rabbit --------------------------------
(***************************************************************************)
(* internal/transport/rabbit.go: the counters of the cipher.  Each block   *)
(* of keystream advances eight words, and the carry out of each goes into  *)
(* the next one, that of the last into the first one of the next block.    *)
(* The code finds a carry by comparing a sum with one of its terms.        *)
(***************************************************************************)
EXTENDS Integers

CONSTANTS Word,         \* values of a word (2^32 in the code)
          rabbitA       \* the increment of each word

Limbs == 0 .. 7

\* No increment is the largest word: the carry would hide it.
ASSUME RabbitAssumption ==
    /\ Word \in Nat \ {0}
    /\ rabbitA \in [Limbs -> Nat]
    /\ \A j \in Limbs : rabbitA[j] < Word - 1

Counters == [c : [Limbs -> 0 .. Word - 1], b : {0, 1}]

\* The word that the sum of the word j, its increment and the carry leaves.
WordSum(s, j) == (s.c[j] + rabbitA[j] + s.b) % Word

\* One turn of the loop over the counters.
Advance(s, j) ==
    [c |-> [s.c EXCEPT ![j] = WordSum(s, j)], b |-> IF WordSum(s, j) < s.c[j] THEN 1 ELSE 0]

\* Mutant: the carry of the last word is dropped.
nextForgets(s) ==
    [Advance(Advance(Advance(Advance(Advance(Advance(Advance(Advance(
        s, 0), 1), 2), 3), 4), 5), 6), 7) EXCEPT !.b = 0]

\* The counters and the carry behind a block.
next(s) ==
    Advance(Advance(Advance(Advance(Advance(Advance(Advance(Advance(
        s, 0), 1), 2), 3), 4), 5), 6), 7)

\* Eight words, and what is carried out of them, as one number.
Value(c, carry) ==
    c[0] + Word * (c[1] + Word * (c[2] + Word * (c[3] + Word * (c[4]
         + Word * (c[5] + Word * (c[6] + Word * (c[7] + Word * carry)))))))
=============================================================================
