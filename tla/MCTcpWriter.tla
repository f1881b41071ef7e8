---------------------------- MODULE MCTcpWriter ----------------------------
(* TLC instances of TcpWriter: the constants are given in the .cfg files. *)
EXTENDS TcpWriter
=============================================================================
