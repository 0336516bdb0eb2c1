---------------------------- MODULE TcpConnection ----------------------------
(***************************************************************************)
(* relay-rust/src/relay/tcp_connection.rs: the relay's half of one TCP     *)
(* connection.  The relay terminates the device's TCP itself: it answers   *)
(* the device's segments with segments of its own (written to the client's *)
(* shared buffer) and moves the payloads to and from a socket.             *)
(*                                                                         *)
(* The connection is one record, c; every method of the code that mutates  *)
(* it is an operator from c to the c it leaves behind.  One poll_self() is *)
(* four consecutive steps (flush, send, receive, connect): the relay does  *)
(* nothing else in between, but the peers do.                              *)
(*                                                                         *)
(* This module lets the device send any segment at all and the socket      *)
(* return any outcome.  TcpSession adds a device that speaks TCP.          *)
(***************************************************************************)
EXTENDS Naturals, Sequences, FiniteSets

CONSTANTS
  SeqMod,      \* sequence numbers are Wrapping<u32>: 2^32
  MaxWindow,   \* u16::MAX
  HeaderLen,   \* bytes of the IP and TCP headers
  MaxPayload,  \* MAX_PAYLOAD_LENGTH
  MaxReads,    \* MAX_PACKETS_PER_POLL
  NetCap,      \* capacity of client_to_network
  ClientCap,   \* capacity of the client's shared buffer
  Byte         \* what a payload is made of

ASSUME SizesAssumption ==
  /\ SeqMod \in Nat /\ MaxWindow \in Nat /\ 2 * MaxWindow < SeqMod
  /\ HeaderLen \in Nat \ {0} /\ MaxPayload \in Nat \ {0} /\ MaxReads \in Nat \ {0}
  /\ NetCap \in Nat \ {0} /\ ClientCap \in Nat

VARIABLES
  c,      \* the TcpConnection and its Tcb
  pc,     \* where poll_self() is; "idle" between two polls, "gone" when the
          \* router has forgotten the connection
  reads   \* iterations of the loop of process_receive()

connVars == <<c, pc, reads>>

States == {"Init", "SynSent", "SynReceived", "Established",
           "LastAck", "Closing", "FinWait1", "FinWait2"}
Flag   == {"SYN", "ACK", "FIN", "RST"}
SeqNum == 0 .. (SeqMod - 1)
Window == 0 .. MaxWindow

Segment == [flags : SUBSET Flag, seq : SeqNum, ack : SeqNum, window : Window,
            data : Seq(Byte),
            total : Nat]    \* the length its IP header announces

\* Option<T>: a sequence of at most one element.
None == << >>
Some(x) == << x >>

plus(a, b)  == (a + b) % SeqMod
minus(a, b) == ((a + SeqMod) - b) % SeqMod

smaller(a, b) == IF a <= b THEN a ELSE b

-----------------------------------------------------------------------------
(* TcpState, Tcb *)

is_connected(s) == s \notin {"Init", "SynSent", "SynReceived"}

is_closed(s) == s \in {"FinWait1", "FinWait2", "Closing", "LastAck"}

New == [state |-> "Init", synSeq |-> 0, seq |-> 0, ack |-> 0, theirAck |-> 0,
        finSeq |-> None, finReceived |-> FALSE, window |-> 0,
        toNetwork |-> << >>,    \* client_to_network
        deferred |-> None,      \* packet_for_client_length, with that packet
        closed |-> FALSE,
        buffer |-> << >>,       \* this connection's segments in the shared buffer
        used |-> 0,             \* bytes in the shared buffer, whoever wrote them
        garbled |-> FALSE]      \* the shared buffer holds a malformed packet

\* Mutant of remaining_client_window: what is in flight is not subtracted.
wholeWindow(d) == d.window

remaining_client_window(d) ==
  LET left == minus(plus(d.theirAck, d.window), d.seq)
  IN  IF d.window # 0 /\ left <= d.window THEN left ELSE 0

\* Mutant of advertised_window: the capacity instead of what is left of it.
capacityWindow(d) == smaller(NetCap, MaxWindow)

advertised_window(d) == smaller(NetCap - Len(d.toNetwork), MaxWindow)

-----------------------------------------------------------------------------
(* Writing segments to the client *)

rawLength(p) == HeaderLen + Len(p.data)

segment(d, flags, data) ==
  [flags |-> flags, seq |-> d.seq, ack |-> d.ack, window |-> advertised_window(d),
   data |-> data, total |-> HeaderLen + Len(data)]

\* send_packet_to_buffer(): the check is on the announced length, the copy is
\* of the raw bytes; when the two differ the byte stream is malformed.
fits(d, p) == p.total + d.used <= ClientCap

sent_to_buffer(d, p) ==
  [d EXCEPT !.buffer = Append(@, p), !.used = @ + rawLength(p),
            !.garbled = @ \/ p.total # rawLength(p)]

\* send_empty_packet_to_client(): built in the packetizer's only buffer, over
\* the headers of the deferred packet if there is one, and dropped when the
\* client's buffer is full.
send_empty(d, flags) ==
  LET p == segment(d, flags, << >>)
      e == IF d.deferred = None THEN d
           ELSE [d EXCEPT !.deferred = Some([p EXCEPT !.data = d.deferred[1].data])]
  IN  IF fits(e, p) THEN sent_to_buffer(e, p) ELSE e

close(d) == [d EXCEPT !.closed = TRUE]

-----------------------------------------------------------------------------
(* Segments from the device *)

\* random::<u32>() is the parameter isn.
handle_first_packet(d, p, isn) ==
  IF "SYN" \in p.flags
    THEN [d EXCEPT !.ack = plus(p.seq, 1), !.synSeq = p.seq, !.seq = isn,
                   !.window = p.window, !.state = "SynSent"]
    ELSE close(send_empty([d EXCEPT !.seq = p.ack], {"RST"}))

handle_duplicate_syn(d, p) ==
  IF d.state = "SynSent" THEN [d EXCEPT !.synSeq = p.seq, !.ack = plus(p.seq, 1)]
  ELSE IF p.seq # d.synSeq THEN close(send_empty(d, {"RST"}))
  ELSE d

\* Mutant of do_handle_fin: the state is not looked at.
finInAnyState(d) ==
  LET a == [d EXCEPT !.ack = plus(@, 1)]
  IN  [send_empty(a, {"FIN", "ACK"}) EXCEPT
         !.finSeq = Some(a.seq), !.seq = plus(@, 1), !.state = "LastAck"]

\* Mutant of do_handle_fin: the FIN is not counted in the acknowledgement.
finNotCounted(d) ==
  IF d.state = "Established"
    THEN [send_empty(d, {"FIN", "ACK"}) EXCEPT
            !.finSeq = Some(d.seq), !.seq = plus(@, 1), !.state = "LastAck"]
    ELSE d

do_handle_fin(d) ==
  LET a == [d EXCEPT !.ack = plus(@, 1)]
  IN  CASE a.state = "Established" ->
             [send_empty(a, {"FIN", "ACK"}) EXCEPT
                !.finSeq = Some(a.seq), !.seq = plus(@, 1), !.state = "LastAck"]
        [] a.state = "FinWait1" -> [send_empty(a, {"ACK"}) EXCEPT !.state = "Closing"]
        [] a.state = "FinWait2" -> close(send_empty(a, {"ACK"}))
        [] OTHER -> a

\* Mutant of handle_fin: pending data do not delay the FIN.
finAtOnce(d) == do_handle_fin([d EXCEPT !.finReceived = TRUE])

handle_fin(d) ==
  LET f == [d EXCEPT !.finReceived = TRUE]
  IN  IF d.toNetwork = << >> THEN do_handle_fin(f) ELSE f

handle_fin_ack(d) ==
  CASE d.state \in {"LastAck", "Closing"} -> close(d)
    [] d.state = "FinWait1" -> [d EXCEPT !.state = "FinWait2"]
    [] OTHER -> d

\* Mutant of handle_ack: a payload that does not fit is acknowledged.
ackDropped(d, p) ==
  IF d.state = "SynReceived" THEN [d EXCEPT !.state = "Established"]
  ELSE IF p.data = << >> THEN d
  ELSE IF NetCap - Len(d.toNetwork) < Len(p.data)
    THEN send_empty([d EXCEPT !.ack = plus(@, Len(p.data))], {"ACK"})
  ELSE send_empty([d EXCEPT !.toNetwork = @ \o p.data, !.ack = plus(@, Len(p.data))], {"ACK"})

\* Mutant of handle_ack: the acknowledgement covers one byte too many.
ackOneTooMany(d, p) ==
  IF d.state = "SynReceived" THEN [d EXCEPT !.state = "Established"]
  ELSE IF p.data = << >> THEN d
  ELSE IF NetCap - Len(d.toNetwork) < Len(p.data) THEN send_empty(d, {"ACK"})
  ELSE send_empty([d EXCEPT !.toNetwork = @ \o p.data, !.ack = plus(@, Len(p.data) + 1)], {"ACK"})

handle_ack(d, p) ==
  IF d.state = "SynReceived" THEN [d EXCEPT !.state = "Established"]
  ELSE IF p.data = << >> THEN d
  ELSE IF NetCap - Len(d.toNetwork) < Len(p.data) THEN send_empty(d, {"ACK"})
  ELSE send_empty([d EXCEPT !.toNetwork = @ \o p.data, !.ack = plus(@, Len(p.data))], {"ACK"})

\* The rest of handle_packet(), on the segment that is expected next: the
\* window and the acknowledgement first, then RST, ACK and FIN in turn.
updated(d, p) == [d EXCEPT !.window = p.window, !.theirAck = p.ack]

after_ack(d, p) == IF "ACK" \in p.flags THEN handle_ack(d, p) ELSE d

after_fin(d, p) == IF "FIN" \in p.flags THEN handle_fin(d) ELSE d

after_fin_ack(d, p) ==
  IF d.finSeq # None /\ p.ack = plus(d.finSeq[1], 1) THEN handle_fin_ack(d) ELSE d

handle_expected(d, p) ==
  IF "RST" \in p.flags THEN close(updated(d, p))
  ELSE after_fin_ack(after_fin(after_ack(updated(d, p), p), p), p)

\* Mutant of handle_packet: the sequence number is not compared.
anySequence(d, p, isn) ==
  IF d.state = "Init" THEN handle_first_packet(d, p, isn)
  ELSE IF "SYN" \in p.flags THEN handle_duplicate_syn(d, p)
  ELSE handle_expected(d, p)

\* seq < expected under wrapping arithmetic is answered with the current ACK,
\* seq > expected is ignored.
handle_packet(d, p, isn) ==
  IF d.state = "Init" THEN handle_first_packet(d, p, isn)
  ELSE IF "SYN" \in p.flags THEN handle_duplicate_syn(d, p)
  ELSE IF p.seq = d.ack THEN handle_expected(d, p)
  ELSE IF 2 * minus(p.seq, d.ack) >= SeqMod THEN send_empty(d, {"ACK"})
  ELSE d

-----------------------------------------------------------------------------
(* The socket *)

\* flush_pending_packet() on a packet that fits.
flush_pending_packet(d) ==
  LET p == d.deferred[1]
  IN  [sent_to_buffer(d, p) EXCEPT !.seq = plus(@, rawLength(p)), !.deferred = None]

\* Mutant of process_send: the window that opened is not announced.
sendSilently(d, w) ==
  LET s == [d EXCEPT !.toNetwork = SubSeq(@, w + 1, Len(@))]
  IN  IF s.finReceived /\ s.toNetwork = << >> THEN do_handle_fin(s) ELSE s

\* process_send() when the socket accepted w > 0 bytes.
process_send(d, w) ==
  LET s == [d EXCEPT !.toNetwork = SubSeq(@, w + 1, Len(@))]
  IN  IF s.finReceived /\ s.toNetwork = << >> THEN do_handle_fin(s)
      ELSE send_empty(s, {"ACK"})

reset_and_close(d) == close(send_empty(d, {"RST"}))

may_read(d) ==
  /\ is_connected(d.state) /\ ~is_closed(d.state)
  /\ d.deferred = None
  /\ remaining_client_window(d) > 0

\* Mutant of process_receive: the packet counts for one in the sequence.
countPackets(d, data) ==
  LET p == segment(d, {"ACK"}, data)
  IN  IF fits(d, p) THEN [sent_to_buffer(d, p) EXCEPT !.seq = plus(@, 1)]
      ELSE [d EXCEPT !.deferred = Some(p)]

\* process_receive(), one packet: deferred when the client's buffer is full.
process_receive(d, data) ==
  LET p == segment(d, {"ACK"}, data)
  IN  IF fits(d, p) THEN [sent_to_buffer(d, p) EXCEPT !.seq = plus(@, Len(data))]
      ELSE [d EXCEPT !.deferred = Some(p)]

eof(d) ==
  LET a == [d EXCEPT !.ack = plus(@, 1)]
  IN  [send_empty(a, {"FIN", "ACK"}) EXCEPT
         !.finSeq = Some(a.seq), !.seq = plus(@, 1), !.state = "FinWait1"]

process_connect(d) ==
  [send_empty([d EXCEPT !.state = "SynReceived"], {"SYN", "ACK"}) EXCEPT !.seq = plus(@, 1)]

-----------------------------------------------------------------------------
(* Actions *)

\* Mutant of remaining_in_router: a closed connection is kept.
kept_in_router(d) == "idle"

\* The router forgets a connection it finds closed, after a segment or a poll.
remaining_in_router(d) == IF d.closed THEN "gone" ELSE "idle"

\* Router::send_to_network(), between two polls.  The segment that creates the
\* connection may close it too; it then stays in the router until it is polled
\* or handles another segment.
Handle(p, isn) ==
  /\ pc = "idle"
  /\ c' = handle_packet(c, p, isn)
  /\ pc' = IF c = New THEN "idle" ELSE remaining_in_router(c')
  /\ UNCHANGED reads

PollClosed ==
  /\ pc = "idle" /\ c.closed
  /\ pc' = "gone"
  /\ UNCHANGED <<c, reads>>

\* poll_self() returns at once when the deferred packet still does not fit.
PollFlush ==
  /\ pc = "idle" /\ ~c.closed
  /\ \/ /\ c.deferred # None
        /\ fits(c, c.deferred[1])
        /\ c' = flush_pending_packet(c)
     \/ /\ c.deferred = None
        /\ UNCHANGED c
  /\ pc' = "send"
  /\ UNCHANGED reads

\* may_write() and process_send(): the socket takes w bytes, would block, takes
\* none, or fails.
PollSendBytes(w) ==
  /\ pc = "send" /\ c.toNetwork # << >>
  /\ c' = process_send(c, w)
  /\ pc' = "receive" /\ reads' = 0

PollSendSkip ==
  /\ pc = "send"
  /\ pc' = "receive" /\ reads' = 0
  /\ UNCHANGED c

PollSendFails ==
  /\ pc = "send" /\ c.toNetwork # << >>
  /\ \/ c' = close(c)
     \/ c' = reset_and_close(c)
  /\ pc' = "receive" /\ reads' = 0

\* One iteration of process_receive(): it goes on while whole packets fit.
can_receive == pc = "receive" /\ ~c.closed /\ may_read(c) /\ reads < MaxReads

PollReceiveBytes(data) ==
  /\ can_receive
  /\ Len(data) <= smaller(remaining_client_window(c), MaxPayload)
  /\ c' = process_receive(c, data)
  /\ reads' = reads + 1
  /\ UNCHANGED pc

PollReceiveEof ==
  /\ can_receive
  /\ c' = eof(c)
  /\ pc' = "connect" /\ UNCHANGED reads

PollReceiveFails ==
  /\ can_receive
  /\ c' = reset_and_close(c)
  /\ pc' = "connect" /\ UNCHANGED reads

\* Nothing to read, or not allowed to read (any more).
PollReceiveEnd ==
  /\ pc = "receive"
  /\ pc' = "connect"
  /\ UNCHANGED <<c, reads>>

\* The empty write that ends a pending connect: connected, or failed.
PollConnected ==
  /\ pc = "connect" /\ c.state = "SynSent"
  /\ c' = process_connect(c)
  /\ pc' = remaining_in_router(c') /\ UNCHANGED reads

PollConnectFails ==
  /\ pc = "connect" /\ c.state = "SynSent"
  /\ c' = close(c)
  /\ pc' = remaining_in_router(c') /\ UNCHANGED reads

PollEnd ==
  /\ pc = "connect"
  /\ pc' = remaining_in_router(c)
  /\ UNCHANGED <<c, reads>>

\* The client loop empties the shared buffer after the polls of an iteration.
Drain ==
  /\ pc \in {"idle", "gone"}
  /\ c' = [c EXCEPT !.buffer = << >>, !.used = 0]
  /\ UNCHANGED <<pc, reads>>

\* Other connections of the client write n bytes to the shared buffer.
OtherTraffic(n) ==
  /\ pc \in {"idle", "gone"}
  /\ c.used + n <= ClientCap
  /\ c' = [c EXCEPT !.used = @ + n]
  /\ UNCHANGED <<pc, reads>>

Init == c = New /\ pc = "idle" /\ reads = 0

Next ==
  \/ \E p \in Segment, isn \in SeqNum : Handle(p, isn)
  \/ PollClosed \/ PollFlush
  \/ \E w \in 1 .. Len(c.toNetwork) : PollSendBytes(w)
  \/ PollSendSkip \/ PollSendFails
  \/ \E data \in Seq(Byte) : data # << >> /\ PollReceiveBytes(data)
  \/ PollReceiveEof \/ PollReceiveFails \/ PollReceiveEnd
  \/ PollConnected \/ PollConnectFails \/ PollEnd
  \/ Drain
  \/ \E n \in 1 .. ClientCap : OtherTraffic(n)

Spec == Init /\ [][Next]_connVars

-----------------------------------------------------------------------------
(* Invariants *)

Connection ==
  [state : States, synSeq : SeqNum, seq : SeqNum, ack : SeqNum, theirAck : SeqNum,
   finSeq : Seq(SeqNum), finReceived : BOOLEAN, window : Window,
   toNetwork : Seq(Byte), deferred : Seq(Segment), closed : BOOLEAN,
   buffer : Seq(Segment), used : Nat, garbled : BOOLEAN]

TypeOK ==
  /\ c \in Connection
  /\ Len(c.finSeq) <= 1 /\ Len(c.deferred) <= 1
  /\ pc \in {"idle", "send", "receive", "connect", "gone"}
  /\ reads \in 0 .. MaxReads

\* client_to_network never holds more than its capacity, so that remaining(),
\* an unsigned subtraction behind every advertised window, cannot underflow,
\* whatever the device sends.
NetworkBufferBounded == Len(c.toNetwork) <= NetCap

\* The states in which may_read() refuses to read are the ones in which the
\* relay has sent its FIN, and only in them is there a FIN to be acknowledged
\* (eof, do_handle_fin).
FinSentMatchesState == c.finSeq # None <=> is_closed(c.state)

\* The states a connection may still be in, for each state it is in.
Later == [s \in States |->
  CASE s = "Init" -> States
    [] s = "SynSent" -> States \ {"Init"}
    [] s = "SynReceived" -> States \ {"Init", "SynSent"}
    [] s = "Established" -> {"Established", "LastAck", "Closing", "FinWait1", "FinWait2"}
    [] s = "FinWait1" -> {"FinWait1", "FinWait2", "Closing"}
    [] OTHER -> {s}]

onward(d, e) ==
  /\ e.state \in Later[d.state]
  /\ d.closed => e.closed
  /\ d.finSeq # None => e.finSeq = d.finSeq

\* No segment, however unexpected, and no outcome of the socket takes a
\* connection back: its state only moves forward in the diagram, a closed
\* connection stays closed, and the position of the FIN it sent never moves.
NeverGoesBack == [][onward(c, c')]_connVars
=============================================================================
