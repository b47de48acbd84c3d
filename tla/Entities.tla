------------------------------- MODULE Entities ------------------------------
(* The names that the store and the world share.                           *)
CONSTANTS Characters,   \* character ids; bounds the characters table
          None          \* nothing: no row, no player, a nil pointer
=============================================================================
