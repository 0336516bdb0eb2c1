------------------------------- MODULE Tunnel -------------------------------
(***************************************************************************)
(* The byte streams between the relay's client loop and the device's       *)
(* forwarder.  Down: the packets of the connections go through the shared  *)
(* StreamBuffer and pending_outgoing to the socket, and the device cuts    *)
(* them out of its IPPacketOutputStream.  Up: the relay cuts the device's  *)
(* packets out of its IpPacketBuffer.                                      *)
(*                                                                         *)
(* The tunnel may be lost and opened again.  The relay then serves the     *)
(* device with a new Client, all of whose buffers are new; the device's    *)
(* forwarder, and the stream object in it, stay.  The two directions share *)
(* nothing else: a behaviour is about one of them.                         *)
(***************************************************************************)
EXTENDS ClientOutput, DeviceInput, PacketSink, SequencesExt

CONSTANTS
  MaxRead,      \* bytes one read of the client loop returns at most
  MaxPackets    \* bound on the packets sent

ASSUME TunnelAssumption ==
  /\ MaxRead \in Nat \ {0} /\ MaxPackets \in Nat /\ Byte \subseteq Nat
  /\ \A p \in Packets : is_complete(p) /\ announced(p) = Len(p)
  /\ \A p \in Packets : Len(p) <= InCapacity /\ Len(p) <= MaxChunk

VARIABLES
  direction,   \* which stream this behaviour is about: "down" or "up"
  wire,        \* bytes under way
  emitted,     \* history: the packets sent, by the relay or by the device
  cut,         \* history: whether the tunnel was cut; "torn" in mid-packet
  overrun      \* history: whether the relay read more than its buffer had room for

downVars == <<outVars, sinkBuffer, delivered, failed>>
upVars == <<inBuffer, routed>>
tunnelVars == <<downVars, upVars, direction, wire, emitted, cut, overrun>>

-----------------------------------------------------------------------------
(* Down *)

Emit(p) ==
  /\ direction = "down" /\ Len(emitted) < MaxPackets
  /\ \/ send_to_client(p) /\ emitted' = Append(emitted, p)
     \/ send_to_client_fails(p) /\ UNCHANGED emitted
  /\ UNCHANGED <<sinkBuffer, delivered, failed, upVars, direction, wire, cut, overrun>>

\* write_partial(): n bytes of what is pending go to the socket.
Transmit(n) ==
  /\ direction = "down" /\ ~(is_empty /\ pending = << >>)
  /\ Flush(n)
  /\ wire' = wire \o front(pending \o outgoing, n)
  /\ UNCHANGED <<sinkBuffer, delivered, failed, upVars, direction, emitted, cut, overrun>>

\* forwardTunnelToDevice(): one receive(), one write().
Deliver(n) ==
  /\ direction = "down" /\ n <= Len(wire)
  /\ write(front(wire, n)) \/ write_fails(front(wire, n))
  /\ wire' = rest(wire, n)
  /\ UNCHANGED <<outVars, upVars, direction, emitted, cut, overrun>>

-----------------------------------------------------------------------------
(* Up *)

\* forwardDeviceToTunnel(): one packet of the VPN interface, one send().
DeviceSends(p) ==
  /\ direction = "up" /\ Len(emitted) < MaxPackets
  /\ wire' = wire \o p
  /\ emitted' = Append(emitted, p)
  /\ UNCHANGED <<downVars, upVars, direction, cut, overrun>>

RelayReads(n) ==
  /\ direction = "up" /\ n <= Len(wire)
  /\ feed_device_data(front(wire, n))
  /\ wire' = rest(wire, n)
  /\ overrun' = (overrun \/ n > InCapacity - Len(inBuffer))
  /\ UNCHANGED <<downVars, direction, emitted, cut>>

-----------------------------------------------------------------------------
\* Mutant of new_client: the packet buffer is that of the old client.
old_input ==
  /\ buf' = [i \in Slots |-> Zero] /\ head' = 0 /\ tail' = 0 /\ sent' = << >>
  /\ pending' = << >> /\ owed' = << >>
  /\ UNCHANGED inBuffer

\* The buffers of a new Client are empty.
new_client ==
  /\ buf' = [i \in Slots |-> Zero] /\ head' = 0 /\ tail' = 0 /\ sent' = << >>
  /\ pending' = << >> /\ owed' = << >>
  /\ inBuffer' = << >>

\* What was under way is lost.
Cut ==
  /\ new_client
  /\ wire' = << >>
  /\ cut' = IF sinkBuffer = << >> /\ cut # "torn" THEN "clean" ELSE "torn"
  /\ UNCHANGED <<sinkBuffer, delivered, failed, routed, direction, emitted, overrun>>

TunnelInit ==
  /\ OutInit /\ SinkInit /\ InInit
  /\ direction \in {"down", "up"}
  /\ wire = << >> /\ emitted = << >> /\ cut = "never" /\ overrun = FALSE

TunnelNext ==
  \/ \E p \in Packets : Emit(p) \/ DeviceSends(p)
  \/ \E n \in 0 .. (MaxPending + 2 * Capacity) : Transmit(n)
  \/ \E n \in 1 .. MaxChunk : Deliver(n)
  \/ \E n \in 1 .. MaxRead : RelayReads(n)
  \/ Cut

TunnelSpec == TunnelInit /\ [][TunnelNext]_tunnelVars

-----------------------------------------------------------------------------
\* The receiver has the packets sent so far, each once and in order, and a
\* packet that is missing waits for bytes that have not arrived.
uptodate(received, waiting) ==
  /\ IsPrefix(received, emitted)
  /\ Len(received) < Len(emitted) => Len(waiting) < Len(emitted[Len(received) + 1])

\* Until the tunnel is cut, every byte of every packet the relay accepted is in
\* the shared buffer, pending, under way, waiting for the rest of its packet or
\* delivered, in order, however few bytes the socket accepts and however the
\* stream is cut into chunks; and the device holds back no complete packet
\* (send_to_client, drain_outgoing, write_partial, sinkPacket).
DownstreamIntact ==
  direction = "down" /\ cut = "never" =>
    /\ FlattenSeq(delivered) \o sinkBuffer \o wire \o pending \o content = FlattenSeq(emitted)
    /\ uptodate(delivered, sinkBuffer)

\* The same of the packets of the device, up to the router (feed_device_data): only a
\* read that does not fit behind the bytes that wait loses any.
UpstreamIntact ==
  direction = "up" /\ cut = "never" /\ ~overrun =>
    /\ FlattenSeq(routed) \o inBuffer \o wire = FlattenSeq(emitted)
    /\ uptodate(routed, inBuffer)

\* Wherever the tunnel is cut, and however often, what is routed is a packet
\* that the device sent: no packet is put together from two connections, unless a
\* read did not fit.
RoutedWhole == direction = "up" /\ ~overrun => \A i \in 1 .. Len(routed) : Contains(emitted, routed[i])

\* "By design, the buffer must always have enough space for one packet".
RoomForOnePacket == SinkCapacity - Len(sinkBuffer) >= MaxChunk

\* The device delivers nothing but packets that the relay sent, and its buffer
\* has room for one more packet, as long as no cut falls inside a packet:
\* reconnecting between two packets, any number of times, leaves nothing behind.
SoundUntilTorn ==
  direction = "down" /\ cut # "torn" =>
    /\ \A i \in 1 .. Len(delivered) : Contains(emitted, delivered[i])
    /\ RoomForOnePacket
=============================================================================
