------------------------------ MODULE Headers ------------------------------
(***************************************************************************)
(* The IP, TCP and UDP headers of relay-rust (ipv4_header.rs,              *)
(* ipv6_header.rs, ip_header.rs, tcp_header.rs, udp_header.rs,             *)
(* transport_header.rs): what is parsed from the bytes of a packet, what   *)
(* is written back into them, and the checksums.                           *)
(*                                                                         *)
(* A header in use has two copies of most fields: its bytes, raw, and the  *)
(* parsed data.  A setter is an operator from <<raw, data>>, as a record,   *)
(* to the record it leaves behind.  Offsets count from 0, as in the code.  *)
(* A u32 is the pair of its 16-bit halves.                                 *)
(***************************************************************************)
EXTENDS Naturals, Sequences, FiniteSetsExt

CONSTANT U16    \* lengths are u16: 2^16

slice(raw, i, j) == SubSeq(raw, i + 1, j)

read_u16(raw, i) == 256 * raw[i + 1] + raw[i + 2]
read_u32(raw, i) == <<read_u16(raw, i), read_u16(raw, i + 2)>>

write_u16(raw, i, v) == [raw EXCEPT ![i + 1] = v \div 256, ![i + 2] = v % 256]
write_u32(raw, i, v) == write_u16(write_u16(raw, i, v[1]), i + 2, v[2])

\* n bytes at offset i exchanged with the n bytes that follow them.
swapped(raw, i, n) ==
  slice(raw, 0, i) \o slice(raw, i + n, i + 2 * n) \o slice(raw, i, i + n)
    \o slice(raw, i + 2 * n, Len(raw))

\* Arithmetic on u16 lengths wraps (the release build does not check it).
plus16(a, b)  == (a + b) % U16
minus16(a, b) == ((a + U16) - b) % U16

-----------------------------------------------------------------------------
(* Checksums *)

\* The sum of a slice as big-endian words; the last byte of an odd slice is a
\* high-order one.
sum16(raw) ==
  MapThenSumSet(LAMBDA k : IF k % 2 = 1 THEN 256 * raw[k] ELSE raw[k], DOMAIN raw)

\* while (sum & !0xFFFF) != 0 { sum = (sum & 0xFFFF) + (sum >> 16) }
carried[s \in Nat] == IF s < 65536 THEN s ELSE carried[(s % 65536) + (s \div 65536)]

complement(s) == 65535 - carried[s]

-----------------------------------------------------------------------------
(* IP headers *)

ProtocolV4(n) == CASE n = 1 -> "Icmp" [] n = 6 -> "Tcp" [] n = 17 -> "Udp" [] OTHER -> "Other"
ProtocolV6(n) == CASE n = 6 -> "Tcp" [] n = 17 -> "Udp" [] OTHER -> "Other"

Ipv4HeaderData(raw) ==
  [version |-> 4, header_length |-> 4 * (raw[1] % 16), total_length |-> read_u16(raw, 2),
   protocol |-> ProtocolV4(raw[10]),
   source |-> read_u32(raw, 12), destination |-> read_u32(raw, 16)]

Ipv6HeaderData(raw) ==
  [version |-> 6, payload_length |-> read_u16(raw, 4), protocol |-> ProtocolV6(raw[7]),
   hop_limit |-> raw[8],
   source |-> slice(raw, 8, 24), destination |-> slice(raw, 24, 40)]

IpHeaderData(raw) == IF raw[1] \div 16 = 4 THEN Ipv4HeaderData(raw) ELSE Ipv6HeaderData(raw)

header_length(d) == IF d.version = 4 THEN d.header_length ELSE 40
total_length(d)  == IF d.version = 4 THEN d.total_length ELSE plus16(40, d.payload_length)

set_total_length_v4(h, n) ==
  [raw |-> write_u16(h.raw, 2, n), data |-> [h.data EXCEPT !.total_length = n]]

set_payload_length(h, n) ==
  [raw |-> write_u16(h.raw, 4, n), data |-> [h.data EXCEPT !.payload_length = n]]

set_total_length(h, n) ==
  IF h.data.version = 4 THEN set_total_length_v4(h, n)
  ELSE set_payload_length(h, minus16(n, header_length(h.data)))

swap_addresses_v4(h) ==
  [raw |-> swapped(h.raw, 12, 4),
   data |-> [h.data EXCEPT !.source = h.data.destination, !.destination = h.data.source]]

swap_addresses_v6(h) ==
  [raw |-> swapped(h.raw, 8, 16),
   data |-> [h.data EXCEPT !.source = h.data.destination, !.destination = h.data.source]]

swap_addresses(h) ==
  IF h.data.version = 4 THEN swap_addresses_v4(h) ELSE swap_addresses_v6(h)

\* update_checksum() of an IPv4 header, the checksum at 10..12 being skipped.
update_header_checksum(raw, d) ==
  write_u16(raw, 10,
    complement(sum16(slice(raw, 0, 10)) + sum16(slice(raw, 12, d.header_length))))

-----------------------------------------------------------------------------
(* Transport headers *)

TcpHeaderData(raw) ==
  [kind |-> "Tcp",
   source_port |-> read_u16(raw, 0), destination_port |-> read_u16(raw, 2),
   sequence_number |-> read_u32(raw, 4), acknowledgement_number |-> read_u32(raw, 8),
   header_length |-> 4 * (raw[13] \div 16), flags |-> read_u16(raw, 12) % 512,
   window |-> read_u16(raw, 14)]

UdpHeaderData(raw) ==
  [kind |-> "Udp",
   source_port |-> read_u16(raw, 0), destination_port |-> read_u16(raw, 2)]

transport_header_length(t) == IF t.kind = "Tcp" THEN t.header_length ELSE 8

swap_ports(h) ==
  [raw |-> swapped(h.raw, 0, 2),
   data |-> [h.data EXCEPT !.source_port = h.data.destination_port,
                           !.destination_port = h.data.source_port]]

set_sequence_number(h, v) ==
  [raw |-> write_u32(h.raw, 4, v), data |-> [h.data EXCEPT !.sequence_number = v]]

set_acknowledgement_number(h, v) ==
  [raw |-> write_u32(h.raw, 8, v), data |-> [h.data EXCEPT !.acknowledgement_number = v]]

\* Mutant of set_flags: the flags are added to the ones that are there.
add_flags(h, v) ==
  LET w == read_u16(h.raw, 12)
  IN  [raw |-> write_u16(h.raw, 12, IF (w % 512) < v THEN (w - (w % 512)) + v ELSE w),
       data |-> [h.data EXCEPT !.flags = v]]

set_flags(h, v) ==
  LET w == read_u16(h.raw, 12)
  IN  [raw |-> write_u16(h.raw, 12, (w - (w % 512)) + (v % 512)),
       data |-> [h.data EXCEPT !.flags = v]]

set_window(h, v) == [raw |-> write_u16(h.raw, 14, v), data |-> [h.data EXCEPT !.window = v]]

\* set_data_offset(5)
shrink_options(h) ==
  [raw |-> write_u16(h.raw, 12, (read_u16(h.raw, 12) % 4096) + 5 * 4096),
   data |-> [h.data EXCEPT !.header_length = 20]]

\* The length of a UDP datagram is not in the data; TCP does not store one.
set_transport_length(h, n) ==
  IF h.data.kind = "Tcp" THEN h
  ELSE [h EXCEPT !.raw = write_u16(h.raw, 4, plus16(8, n))]

\* The bytes that update_checksum() reads: the header, its checksum field
\* zeroed, then the payload, as long as the IP header says it is.
tcp_sum(raw, t, payload, transport_length) ==
  LET len == minus16(transport_length, t.header_length)
  IN  sum16(slice(write_u16(raw, 16, 0), 0, t.header_length)) + sum16(slice(payload, 0, len))

tcp_checksum_v4(raw, t, d, payload) ==
  LET len == minus16(d.total_length, d.header_length)
  IN  complement(6 + d.source[1] + d.source[2] + d.destination[1] + d.destination[2]
                   + len + tcp_sum(raw, t, payload, len))

tcp_checksum_v6(raw, t, d, payload) ==
  complement(sum16(d.source) + sum16(d.destination) + d.payload_length + 6
               + tcp_sum(raw, t, payload, d.payload_length))

\* UDP checksums are switched off.
update_transport_checksum(raw, t, d, payload) ==
  IF t.kind = "Udp" THEN write_u16(raw, 6, 0)
  ELSE write_u16(raw, 16, IF d.version = 4 THEN tcp_checksum_v4(raw, t, d, payload)
                                           ELSE tcp_checksum_v6(raw, t, d, payload))
=============================================================================
