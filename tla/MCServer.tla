------------------------------- MODULE MCServer ------------------------------
(* Three clients: while one is in a handler another can wait in Recv and a *)
(* third in the backlog when the signal comes.                             *)
EXTENDS Server
=============================================================================
