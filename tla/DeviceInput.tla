----------------------------- MODULE DeviceInput -----------------------------
(***************************************************************************)
(* What the relay does with a chunk of bytes of a device:                  *)
(* Client::feed_device_data() copies it to the IpPacketBuffer (a           *)
(* ByteBuffer) and routes every complete packet.                           *)
(***************************************************************************)
EXTENDS Framing

CONSTANT InCapacity    \* size of the ByteBuffer (MAX_PACKET_LENGTH)

ASSUME InputAssumption == InCapacity \in Nat

VARIABLES
  inBuffer,  \* client_to_network: the bytes of the ByteBuffer
  routed     \* history: the packets handed to the router

\* Mutant of read_from: the chunk replaces what was there.
read_over(chunk) == front(chunk, InCapacity)

\* ByteBuffer::read_from(): what does not fit is not read.
read_from(chunk) == inBuffer \o front(chunk, InCapacity - Len(inBuffer))

\* The loop of feed_device_data(): as_ip_packet() and next(), skip_malformed(),
\* or wait for more bytes.
Routing[b \in Seq(Nat)] ==
  CASE is_complete(b) ->
         LET n == announced(b)
             r == Routing[rest(b, n)]
         IN  [left |-> r.left, packets |-> <<front(b, n)>> \o r.packets]
    [] b # << >> /\ ~supported(b) -> Routing[rest(b, 1)]
    [] OTHER -> [left |-> b, packets |-> << >>]

route(b) == Routing[b]

feed_device_data(chunk) ==
  LET r == route(read_from(chunk))
  IN  inBuffer' = r.left /\ routed' = routed \o r.packets

InInit == inBuffer = << >> /\ routed = << >>
=============================================================================
