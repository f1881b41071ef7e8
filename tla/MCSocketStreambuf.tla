------------------------- MODULE MCSocketStreambuf -------------------------
(* A TLC instance of SocketStreambuf; the constants are given in stream.cfg. *)
EXTENDS SocketStreambuf
=============================================================================
