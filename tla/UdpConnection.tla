--------------------------- MODULE UdpConnection ---------------------------
(***************************************************************************)
(* relay-rust/src/relay/udp_connection.rs: a UDP connection owns a         *)
(* DatagramBuffer for what the device sends and a Packetizer for what it   *)
(* receives.  A behaviour follows one connection; when it is a TCP one     *)
(* (see TcpConnection), only its Packetizer is followed.                   *)
(***************************************************************************)
EXTENDS DatagramBuffer, Packetizer

VARIABLE closed

udpVars == <<blocks, head, tail, queue, fed, first, pk, deferred, sent, overwritten, closed>>

\* send_to_network(): a datagram for which there is no space is dropped.
send_to_network(d) ==
  /\ ~isTcp /\ ~closed
  /\ read_from(d) \/ read_from_fails(d)
  /\ sent' = << >>
  /\ UNCHANGED <<first, pk, deferred, overwritten, closed>>

\* poll_self(): sends one datagram if there is any, then reads one if there is
\* any; an error of the socket, writing or reading, closes the connection.
\* The router collects it after the poll.
poll_self ==
  /\ ~isTcp /\ ~closed
  /\ write_to \/ (is_empty /\ UNCHANGED vars)
  /\ \/ closed' = FALSE /\ \E data \in Data : ReadDatagram(data)
     \/ /\ closed' \in BOOLEAN /\ sent' = << >>
        /\ UNCHANGED <<first, pk, deferred, overwritten>>

\* What the connection's Packetizer builds when it is a TCP one.
TcpPackets ==
  /\ \/ Flush
     \/ \E a \in Tcb : \/ SendEmpty(a) \/ ReceiveNothing(a)
                      \/ \E data \in Data : Receive(a, data)
  /\ UNCHANGED <<vars, closed>>

\* The router's own answers, in between.
RouterAnswers ==
  /\ \E raw \in Request : Answers(raw)
  /\ UNCHANGED <<vars, closed>>

UdpInit == Init /\ PacketInit /\ closed = FALSE

UdpNext ==
  \/ \E d \in Datagram : send_to_network(d)
  \/ poll_self \/ TcpPackets \/ RouterAnswers

UdpSpec == UdpInit /\ [][UdpNext]_udpVars
=============================================================================
