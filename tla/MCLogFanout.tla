---------------------------- MODULE MCLogFanout ----------------------------
(* LogFanout with small constants, for TLC. *)
EXTENDS LogFanout

MCMsgs == 1..MaxMsgs
MCConfigs == {<<"nsq", 1>>, <<"conn", 0>>}
=============================================================================
