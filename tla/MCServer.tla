------------------------------ MODULE MCServer ------------------------------
(* Server with small constants, for TLC. *)
EXTENDS Server

CONSTANTS c1, c2, c3

MCConns == {c1, c2, c3}
=============================================================================
