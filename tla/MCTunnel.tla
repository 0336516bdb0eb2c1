------------------------------ MODULE MCTunnel ------------------------------
(* A small instance of Tunnel: packets of both versions.                   *)
EXTENDS Tunnel

MCPackets == {v4(2), v4(3), v6(1)}
=============================================================================
