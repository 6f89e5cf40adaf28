------------------------------ MODULE MCLogger ------------------------------
(* Logger with small constants, for TLC. *)
EXTENDS Logger

CONSTANTS worker, closer

MCWriters == {worker, closer}
=============================================================================
