------------------------------- MODULE MCPool -------------------------------
(* Pool with small constants, for TLC. *)
EXTENDS Pool

MCConns == 1..7
=============================================================================
