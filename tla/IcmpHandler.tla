---------------------------- MODULE IcmpHandler ----------------------------
(***************************************************************************)
(* relay-rust/src/relay/icmp_handler.rs, and the parsing of ip_packet.rs   *)
(* and ipv4_packet.rs: the packets of the device, and the two the relay    *)
(* answers by itself (an echo request; a datagram to UDP port 443).        *)
(* An answer is a sequence of at most one packet.                          *)
(***************************************************************************)
EXTENDS Headers

\* IpPacket::parse(): the headers are where the IP header says, the packet is
\* as long as it says.  transport is empty when the protocol has no ports.
IpPacket(raw) ==
  LET d == IpHeaderData(raw)
      rest == slice(raw, header_length(d), total_length(d))
  IN  [raw |-> slice(raw, 0, total_length(d)), data |-> d,
       transport |-> CASE d.protocol = "Udp" -> <<UdpHeaderData(rest)>>
                       [] d.protocol = "Tcp" -> <<TcpHeaderData(rest)>>
                       [] OTHER -> << >>]

\* Of a packet with a transport header: what the two headers are bound to, and
\* what comes after them.
ip_header(p) == [raw |-> slice(p.raw, 0, header_length(p.data)), data |-> p.data]

transport_header(p) ==
  LET at == header_length(p.data)
  IN  [raw |-> slice(p.raw, at, at + transport_header_length(p.transport[1])),
       data |-> p.transport[1]]

payload(p) ==
  slice(p.raw, header_length(p.data) + transport_header_length(p.transport[1]), Len(p.raw))

is_icmp_echo_request(p) ==
  /\ p.data.version = 4 /\ p.data.protocol = "Icmp"
  /\ Len(p.raw) > p.data.header_length /\ p.raw[p.data.header_length + 1] = 8

checksum(raw) == complement(sum16(raw))

with_header_checksum(raw, ihl) ==
  LET zeroed == write_u16(raw, 10, 0)
  IN  write_u16(raw, 10, checksum(slice(zeroed, 0, ihl)))

with_icmp_checksum(raw, ihl) ==
  LET zeroed == write_u16(raw, ihl + 2, 0)
  IN  write_u16(raw, ihl + 2, checksum(slice(zeroed, ihl, Len(raw))))

build_echo_reply(raw) ==
  LET ihl == 4 * (raw[1] % 16)
      total == read_u16(raw, 2)
      reply == [swapped(slice(raw, 0, total), 12, 4) EXCEPT ![ihl + 1] = 0]
  IN  IF Len(raw) < 28 \/ raw[1] \div 16 # 4 \/ ihl < 20 \/ Len(raw) < ihl + 8
         \/ raw[10] # 1 \/ raw[ihl + 1] # 8 \/ total > Len(raw) \/ total < ihl + 8
      THEN << >>
      ELSE <<with_header_checksum(with_icmp_checksum(reply, ihl), ihl)>>

\* Mutant of quoted: the quotation starts behind the original IP header.
quotedPayload(p) ==
  slice(p.raw, p.data.header_length, Min({Len(p.raw), 2 * p.data.header_length + 8}))

\* The original IP header and the first eight bytes behind it.
quoted(p) == slice(p.raw, 0, Min({Len(p.raw), p.data.header_length + 8}))

build_port_unreachable(p) ==
  LET quote == quoted(p)
      ip == <<69, 0, 0, 28 + Len(quote), 0, 0, 0, 0, 64, 1, 0, 0>>
              \o slice(p.raw, 16, 20) \o slice(p.raw, 12, 16)
      icmp == <<3, 3, 0, 0, 0, 0, 0, 0>>
  IN  IF p.data.version # 4 \/ Len(p.raw) < p.data.header_length THEN << >>
      ELSE <<with_icmp_checksum(with_header_checksum(ip \o icmp \o quote, 20), 20)>>

is_quic(p) == /\ p.data.protocol = "Udp" /\ p.transport # << >>
              /\ p.transport[1].destination_port = 443
=============================================================================
