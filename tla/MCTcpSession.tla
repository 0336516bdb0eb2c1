---------------------------- MODULE MCTcpSession ----------------------------
(* Small instances of TcpSession.                                          *)
EXTENDS TcpSession

MCByte == 1 .. 4
=============================================================================
