-------------------------------- MODULE Pipe --------------------------------
(***************************************************************************)
(* What one direction of a connection promises its two ends: the messages  *)
(* come out as they went in, in the same order, none of them altered, none *)
(* twice and none skipped, until the connection ends.                      *)
(***************************************************************************)
EXTENDS Naturals, Sequences

CONSTANT Message

VARIABLES sent,         \* the messages put in
          got           \* the messages taken out

Init == sent = <<>> /\ got = <<>>

Put == 
    /\ \E m \in Message : sent' = Append(sent, m)
    /\ UNCHANGED got

Get ==
    /\ Len(got) < Len(sent)
    /\ got' = Append(got, sent[Len(got) + 1])
    /\ UNCHANGED sent

Spec == Init /\ [][Put \/ Get]_<<sent, got>>
=============================================================================
