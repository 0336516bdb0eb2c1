----------------------------- MODULE Packetizer -----------------------------
(***************************************************************************)
(* relay-rust/src/relay/packetizer.rs, as the connections use it: one      *)
(* buffer per connection, made from the headers of the device's first      *)
(* packet, in which every packet to the device is built over the previous  *)
(* one.  A TCP packet that does not fit in the client's buffer stays there *)
(* until it is flushed.                                                    *)
(***************************************************************************)
EXTENDS IcmpHandler

CONSTANTS
  MaxPacketLength,  \* MAX_PACKET_LENGTH: 2^16
  MaxChunk,         \* what one read of a TCP socket is limited to
  FirstPacket,      \* packets of the device that open a connection
  Request,          \* packets of the device that the relay answers itself
  Tcb,              \* what a Tcb asks for: records of seq, ack, flags, window
  Data              \* what one read of a socket returns

VARIABLES
  first,       \* the packet that opened the connection
  pk,          \* its Packetizer
  deferred,    \* packet_for_client_length, an option
  sent,        \* the packet that the last step gave the device, an option: its
               \* bytes, what was asked for, what it answers, and (history)
               \* whether it was overwritten while it was deferred
  overwritten  \* history: another packet was built over the deferred one

packetVars == <<first, pk, deferred, sent, overwritten>>

-----------------------------------------------------------------------------
(* The packetizer *)

payload_index(p) == Len(p.ip.raw) + Len(p.transport.raw)

\* Packetizer::new(): the reference headers, both swapped; the rest is zero.
new(ip, transport) ==
  LET i == swap_addresses(ip)
      t == swap_ports(transport)
  IN  [ip |-> i, transport |-> t,
       body |-> [k \in 1 .. (MaxPacketLength - (Len(i.raw) + Len(t.raw))) |-> 0]]

\* The bytes of the buffer: the headers and the room for a payload.
buffer(p) == p.ip.raw \o p.transport.raw \o p.body

\* recv() into the buffer behind the headers, over what a longer payload left.
received(p, data) ==
  [p EXCEPT !.body = data \o slice(@, Len(data), Len(@))]

compute_checksums(p, n) ==
  LET body == slice(p.body, 0, minus16(n, payload_index(p)))
      d == p.ip.data
  IN  [p EXCEPT !.ip.raw = IF d.version = 4 THEN update_header_checksum(@, d) ELSE @,
                !.transport.raw = update_transport_checksum(@, p.transport.data, d, body)]

\* Mutant of build: the checksums are those of the lengths before.
build_checksums_first(p, n) ==
  LET len == plus16(payload_index(p), n)
      q == compute_checksums(p, total_length(p.ip.data))
  IN  [q EXCEPT !.ip = set_total_length(@, len), !.transport = set_transport_length(@, n)]

\* build(): the packet is the first plus16(payload_index, n) bytes of buffer.
build(p, n) ==
  LET len == plus16(payload_index(p), n)
      q == [p EXCEPT !.ip = set_total_length(@, len),
                     !.transport = set_transport_length(@, n)]
  IN  compute_checksums(q, len)

inflate(p, n) == slice(buffer(p), 0, n)

packet(p) == inflate(p, total_length(p.ip.data))

-----------------------------------------------------------------------------
(* Its uses *)

\* UdpConnection::create(), TcpConnection::create(): a TCP header is cut to its
\* first twenty bytes, a UDP header is used as it is.
create(raw) ==
  LET p == IpPacket(raw)
      t == transport_header(p)
  IN  new(ip_header(p), IF t.data.kind = "Udp" THEN t
                        ELSE shrink_options([t EXCEPT !.raw = slice(@, 0, 20)]))

isTcp == pk.transport.data.kind = "Tcp"

update_headers(p, seq, ack, flags, window) ==
  [p EXCEPT !.transport =
     set_window(set_flags(set_acknowledgement_number(set_sequence_number(@, seq), ack),
                          flags), window)]

asking(p, a) == update_headers(p, a.seq, a.ack, a.flags, a.window)

\* to is the packet of the device that is answered.
Sends(raw, asked, to, spoiled) ==
  sent' = <<[raw |-> raw, asked |-> asked, to |-> to, spoiled |-> spoiled]>>

\* create_empty_response_packet(), for send_empty_packet_to_client() and
\* reply_empty_packet_to_client(), also while a packet is deferred.
SendEmpty(a) ==
  /\ isTcp
  /\ pk' = build(asking(pk, a), 0)
  /\ overwritten' = (deferred # << >>)
  /\ Sends(packet(pk'), <<a, << >>>>, first, FALSE)
  /\ UNCHANGED <<first, deferred>>

\* process_receive(), with bytes to read: the packet goes to the client, or
\* stays in the buffer.
Receive(a, data) ==
  /\ isTcp /\ deferred = << >> /\ Len(data) \in 1 .. MaxChunk
  /\ pk' = build(received(asking(pk, a), data), Len(data))
  /\ \/ Sends(packet(pk'), <<a, data>>, first, FALSE) /\ UNCHANGED deferred
     \/ /\ deferred' = <<[length |-> total_length(pk'.ip.data), asked |-> <<a, data>>]>>
        /\ sent' = << >>
  /\ UNCHANGED <<first, overwritten>>

\* process_receive(), with nothing to read or the end of the stream: the
\* headers have been updated, no packet is built.
ReceiveNothing(a) ==
  /\ isTcp /\ deferred = << >>
  /\ pk' = asking(pk, a) /\ sent' = << >>
  /\ UNCHANGED <<first, deferred, overwritten>>

\* flush_pending_packet()
Flush ==
  /\ isTcp /\ deferred # << >>
  /\ Sends(inflate(pk, deferred[1].length), deferred[1].asked, first, overwritten)
  /\ deferred' = << >> /\ overwritten' = FALSE
  /\ UNCHANGED <<first, pk>>

\* UdpConnection::read(): a datagram (cut to the room there is) becomes a packet,
\* which is dropped when the client's buffer is full.
ReadDatagram(data) ==
  /\ ~isTcp
  /\ LET n == Min({Len(data), Len(pk.body)})
     IN  pk' = build(received(pk, slice(data, 0, n)), n)
  /\ \/ Sends(packet(pk'), <<[flags |-> 0], data>>, first, FALSE)
     \/ sent' = << >>
  /\ UNCHANGED <<first, deferred, overwritten>>

\* Router::send_to_network(), of what it answers itself.
Answers(raw) ==
  LET p == IpPacket(raw)
      answer == CASE is_icmp_echo_request(p) -> build_echo_reply(p.raw)
                  [] is_quic(p) -> build_port_unreachable(p)
                  [] OTHER -> << >>
  IN  /\ answer # << >>
      /\ Sends(answer[1], << >>, raw, FALSE)
      /\ UNCHANGED <<first, pk, deferred, overwritten>>

PacketInit ==
  /\ first \in FirstPacket /\ pk = create(first)
  /\ deferred = << >> /\ sent = << >> /\ overwritten = FALSE

-----------------------------------------------------------------------------
(* What the device's own stack, which knows nothing of the parsed copies,   *)
(* makes of the bytes it receives.                                         *)

\* The sum of the words of an even number of bytes.
words(raw) == MapThenSumSet(LAMBDA k : read_u16(raw, 2 * k), 0 .. ((Len(raw) \div 2) - 1))

\* A one's complement sum of words that includes a right checksum is zero.
Verifies(raw) ==
  LET sum == words(IF Len(raw) % 2 = 1 THEN Append(raw, 0) ELSE raw)
  IN  sum > 0 /\ sum % 65535 = 0

ihl(raw) == IF raw[1] \div 16 = 4 THEN 4 * (raw[1] % 16) ELSE 40

protocol(raw) == IF raw[1] \div 16 = 4 THEN raw[10] ELSE raw[7]

PseudoHeader(raw) ==
  LET n == Len(raw) - ihl(raw)
  IN  (IF raw[1] \div 16 = 4 THEN slice(raw, 12, 20) ELSE slice(raw, 8, 40))
        \o <<0, protocol(raw), n \div 256, n % 256>>

LengthsAgree(raw) ==
  IF raw[1] \div 16 = 4 THEN read_u16(raw, 2) = Len(raw) ELSE 40 + read_u16(raw, 4) = Len(raw)

Octet == {x \in Nat : x < 256}
Half  == {x \in Nat : x < 65536}

\* A packet of the device's own stack: its headers and its lengths are right.
WholePacket(raw) ==
  /\ raw \in Seq(Octet) /\ Len(raw) \in 20 .. (U16 - 1) /\ raw[1] \div 16 \in {4, 6}
  /\ ihl(raw) \in 20 .. Len(raw) /\ LengthsAgree(raw)
  /\ protocol(raw) = 17 => ihl(raw) + 8 <= Len(raw)
  /\ protocol(raw) = 6 => LET n == 4 * (raw[ihl(raw) + 13] \div 16)
                         IN  ihl(raw) + 20 <= Len(raw) /\ n >= 20 /\ ihl(raw) + n <= Len(raw)

\* The packets of the device are whole, and no packet for it is longer than a u16
\* counts: process_receive() limits what it reads, and a datagram has at most 65507
\* bytes.  Behind IP options or an IPv6 header the longest ones would make the
\* length of build() wrap; they are left out.
ASSUME PacketizerAssumption ==
  /\ U16 \in Nat /\ U16 <= 65536 /\ MaxPacketLength = U16 /\ MaxChunk \in Nat
  /\ \A raw \in FirstPacket \cup Request : WholePacket(raw)
  /\ \A raw \in FirstPacket :
       \/ protocol(raw) = 6 /\ ihl(raw) + 20 + MaxChunk < U16
       \/ protocol(raw) = 17 /\ \A data \in Data : ihl(raw) + 8 + Len(data) < U16
  /\ Tcb \subseteq [seq : Half \X Half, ack : Half \X Half, flags : Half, window : Half]
  /\ \A a \in Tcb : a.flags < 512
  /\ Data \subseteq Seq(Octet)

TransportSound(raw) ==
  LET transport == slice(raw, ihl(raw), Len(raw))
  IN  CASE protocol(raw) = 6 -> Verifies(PseudoHeader(raw) \o transport)
        [] protocol(raw) = 17 -> read_u16(transport, 4) = Len(transport)
        [] protocol(raw) = 1 -> Verifies(transport)

\* Every packet for the device has the lengths and the checksums its stack asks
\* for, however many packets of other lengths were built in the same buffer
\* before, and although some of them were never sent.  Two exceptions, both
\* of which the code really makes: a deferred packet over which an empty one
\* was built, and the checksum of UDP, which is always 0.
DeviceAccepts ==
  sent # << >> /\ ~sent[1].spoiled =>
    LET raw == sent[1].raw
    IN  /\ LengthsAgree(raw) /\ TransportSound(raw)
        /\ raw[1] \div 16 = 4 => Verifies(slice(raw, 0, ihl(raw)))

\* A packet of a connection comes from the other end of the device's first
\* packet, and carries the numbers, flags and window of the Tcb and exactly the
\* bytes that were read: none of a longer packet built before, none of an
\* update of the headers that led to no packet.
AsAsked ==
  sent # << >> /\ ~sent[1].spoiled /\ sent[1].asked # << >> =>
    LET p == IpPacket(sent[1].raw)
        q == IpPacket(sent[1].to)
        a == sent[1].asked[1]
        t == p.transport[1]
    IN  /\ <<p.data.source, p.data.destination>> = <<q.data.destination, q.data.source>>
        /\ t.source_port = q.transport[1].destination_port
        /\ t.destination_port = q.transport[1].source_port
        /\ payload(p) = sent[1].asked[2]
        /\ t.kind = "Tcp" =>
             <<t.sequence_number, t.acknowledgement_number, t.flags, t.window>>
               = <<a.seq, a.ack, a.flags, a.window>>

\* An answer of the relay itself goes back to the sender, and the device can tell
\* what it is about: an echo reply has the identifier, number and bytes of the
\* request, an error quotes the addresses, the protocol and the ports of the
\* datagram.
AnswersMatch ==
  sent # << >> /\ sent[1].asked = << >> =>
    LET raw == sent[1].raw
        to == sent[1].to
        quote == slice(raw, 28, Len(raw))
    IN  /\ slice(raw, 12, 20) = slice(to, 16, 20) \o slice(to, 12, 16)
        /\ CASE protocol(to) = 1 ->
                  /\ raw[ihl(raw) + 1] = 0
                  /\ slice(raw, ihl(raw) + 4, Len(raw)) = slice(to, ihl(to) + 4, Len(to))
             [] OTHER ->
                  /\ slice(raw, 20, 22) = <<3, 3>>
                  /\ slice(quote, 9, 10) = slice(to, 9, 10)
                  /\ slice(quote, 12, 20) = slice(to, 12, 20)
                  /\ slice(quote, ihl(quote), ihl(quote) + 4) = slice(to, ihl(to), ihl(to) + 4)
=============================================================================
