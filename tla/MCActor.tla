------------------------------ MODULE MCActor ------------------------------
(* TLC instances of Actor. *)
EXTENDS Actor
=============================================================================
