----------------------------- MODULE PacketSink -----------------------------
(***************************************************************************)
(* app/.../IPPacketOutputStream.java, behind Forwarder's tunnel-to-device  *)
(* worker: the bytes of the relay are written in chunks, and whole packets *)
(* go to the VPN interface.                                                *)
(***************************************************************************)
EXTENDS Framing

CONSTANTS
  SinkCapacity,   \* size of the ByteBuffer, 2 * MAX_IP_PACKET_LENGTH
  MaxChunk        \* bytes one receive() returns at most, MAX_IP_PACKET_LENGTH

ASSUME SinkAssumption == MaxChunk \in Nat \ {0} /\ SinkCapacity = 2 * MaxChunk

VARIABLES
  sinkBuffer,  \* the bytes of the ByteBuffer
  delivered,   \* history: the packets written to the VPN interface
  failed       \* "Buffer is unexpectedly full": the worker is dead

\* clear() makes the whole array readable, and compact() then keeps all of it.
cleared_and_compacted == [i \in 1 .. SinkCapacity |-> 0]

\* sink(): sinkPacket() until no packet is complete, and compact().
Sinking[b \in Seq(Nat)] ==
  CASE is_complete(b) ->
         LET n == announced(b)
             r == Sinking[rest(b, n)]
         IN  [left |-> r.left, packets |-> <<front(b, n)>> \o r.packets]
    [] b # << >> /\ ~supported(b) -> [left |-> cleared_and_compacted, packets |-> << >>]
    [] OTHER -> [left |-> b, packets |-> << >>]

\* Mutant of sink: only the first packet of a chunk is written.
sinkOne(b) ==
  IF is_complete(b)
    THEN [left |-> rest(b, announced(b)), packets |-> <<front(b, announced(b))>>]
    ELSE [left |-> b, packets |-> << >>]

sink(b) == Sinking[b]

write(chunk) ==
  /\ ~failed
  /\ Len(chunk) <= SinkCapacity - Len(sinkBuffer)
  /\ LET r == sink(sinkBuffer \o chunk)
     IN  sinkBuffer' = r.left /\ delivered' = delivered \o r.packets
  /\ UNCHANGED failed

write_fails(chunk) ==
  /\ ~failed
  /\ Len(chunk) > SinkCapacity - Len(sinkBuffer)
  /\ failed' = TRUE
  /\ UNCHANGED <<sinkBuffer, delivered>>

SinkInit == sinkBuffer = << >> /\ delivered = << >> /\ failed = FALSE
=============================================================================
