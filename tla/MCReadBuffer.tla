---------------------------- MODULE MCReadBuffer ----------------------------
(* ReadBuffer with small constants, for TLC. *)
EXTENDS ReadBuffer
=============================================================================
