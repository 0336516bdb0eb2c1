------------------------------- MODULE Framing -------------------------------
(***************************************************************************)
(* How IP packets are told apart in the byte stream of the tunnel, on both *)
(* sides: IpPacketBuffer (relay-rust/src/relay/ip_packet_buffer.rs) and    *)
(* IPPacketOutputStream (the device's app).  Nothing separates two packets *)
(* but the length the first one announces.                                 *)
(*                                                                         *)
(* A packet is scaled down: an IPv4 packet starts with its version and its *)
(* total length, an IPv6 packet with its version, one more byte and the    *)
(* length of its payload, which follows.  The number of bytes needed to    *)
(* know the length still depends on the version.                           *)
(***************************************************************************)
EXTENDS Naturals, Sequences

CONSTANT Packets    \* the packets that may be sent through the tunnel

V6Header == 3

supported(b) == b[1] \in {4, 6}

\* The length of the packet at the front of b, 0 while it is not known.  (A
\* packet that announces 0 is never taken from the buffer either.)
announced(b) ==
  CASE Len(b) >= 2 /\ b[1] = 4 -> b[2]
    [] Len(b) >= V6Header /\ b[1] = 6 -> b[3] + V6Header
    [] OTHER -> 0

\* Mutant of is_complete: the last byte may be missing.
almostComplete(b) == announced(b) > 0 /\ announced(b) <= Len(b) + 1

is_complete(b) == announced(b) > 0 /\ announced(b) <= Len(b)

front(b, n) == SubSeq(b, 1, IF n <= Len(b) THEN n ELSE Len(b))

rest(b, n) == SubSeq(b, n + 1, Len(b))

v4(n) == [i \in 1 .. n |-> CASE i = 1 -> 4 [] i = 2 -> n [] OTHER -> 0]

v6(n) == [i \in 1 .. (n + V6Header) |-> CASE i = 1 -> 6 [] i = 3 -> n [] OTHER -> 0]
=============================================================================
