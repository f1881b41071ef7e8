---------------------------- MODULE MCTcpReader ----------------------------
(* TLC instances of TcpReader: the constants are given in the .cfg files. *)
EXTENDS TcpReader
=============================================================================
