---------------------------- MODULE MCMysqlConn ----------------------------
(* MysqlConn with small constants, for TLC: the bounds are in the cfg. *)
EXTENDS MysqlConn
=============================================================================
