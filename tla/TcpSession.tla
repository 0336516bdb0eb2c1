----------------------------- MODULE TcpSession -----------------------------
(***************************************************************************)
(* One TCP connection end to end: the relay's TcpConnection between the    *)
(* device's own TCP stack (outside the repository, modelled from what the  *)
(* relay expects of it and from RFC 9293) and a server behind a socket.    *)
(* Device and relay talk through the tunnel, which is reliable and FIFO:   *)
(* what gets lost is what the relay itself drops, and what is repeated is  *)
(* what the device retransmits while an answer is on its way.              *)
(*                                                                         *)
(* Byte i of the device's stream is the number i, and so is byte i of the  *)
(* server's, so that a payload says where in its stream it belongs.        *)
(***************************************************************************)
EXTENDS TcpConnection

CONSTANTS
  DeviceIsn,     \* the device's initial sequence number
  RelayIsns,     \* outcomes of random::<u32>() considered
  MaxSent,       \* bytes the device's application writes
  MaxServed,     \* bytes the server writes
  Windows,       \* receive windows the device may advertise
  Overshoot,     \* bytes the device may send beyond the relay's window
  MaxUp,         \* bound on the segments under way to the relay
  MaxDown,       \* bound on the segments under way to the device
  DeviceEnds,    \* whether the device's application closes
  ServerEnds,    \* whether the server may close its side first
  Failures,      \* whether the socket may fail and the device may reset
  Others         \* bytes other connections may put in the shared buffer at once

ASSUME SessionAssumption ==
  /\ DeviceIsn \in SeqNum /\ RelayIsns \subseteq SeqNum
  /\ MaxSent \in Nat /\ MaxServed \in Nat
  /\ {1 .. MaxSent, 1 .. MaxServed} \subseteq SUBSET Byte
  /\ Windows \subseteq Window /\ \E w \in Windows : \A v \in Windows : v <= w
  /\ Overshoot \in Nat /\ Others \subseteq Nat
  /\ DeviceEnds \in BOOLEAN /\ ServerEnds \in BOOLEAN /\ Failures \in BOOLEAN

\* The bytes exchanged do not go round the sequence space, so that an offset
\* stands for one byte, even though flush_pending_packet() counts the headers of
\* a deferred packet too; DeviceIsn and RelayIsns being arbitrary, the sequence
\* numbers do wrap.
ASSUME StreamsAssumption ==
  /\ 2 * (MaxSent + 4) <= SeqMod
  /\ MaxServed * (HeaderLen + 1) + 4 <= SeqMod

VARIABLES
  dev,     \* the device's end of the connection
  up,      \* segments from the device, oldest first
  down,    \* segments to the device, oldest first
  net      \* the socket: out, the bytes written to it; in, the bytes read from it

envVars == <<dev, up, down, net>>
vars == <<connVars, envVars>>

range(i, j) == [k \in 1 .. (j + 1 - i) |-> (i + k) - 1]

-----------------------------------------------------------------------------
(***************************************************************************)
(* The device.  Positions in its stream are offsets from DeviceIsn: the    *)
(* SYN is at 0, byte i at i, the FIN after the last byte.                  *)
(***************************************************************************)
devNext == dev.sent + 1 + (IF dev.fin THEN 1 ELSE 0)

segment_of(d, flags, at, data) ==
  [flags |-> flags, seq |-> plus(DeviceIsn, at), ack |-> d.rcvNext, window |-> d.window,
   data |-> data, total |-> HeaderLen + Len(data)]

devSegment(flags, at, data) == segment_of(dev, flags, at, data)

Send(p) == Len(up) < MaxUp /\ up' = Append(up, p)

\* Replies are not bounded: each one consumes a segment of down.
Reply(d) == up' = Append(up, segment_of(d, {"ACK"}, devNext, << >>))

\* Residual segments of an older connection on the same ports.
DevStray ==
  /\ dev.phase = "closed" /\ Failures
  /\ \E flags \in {{"RST"}, {"ACK"}, {"SYN"}} : Send(devSegment(flags, MaxSent + 2, << >>))
  /\ UNCHANGED <<connVars, dev, down, net>>

DevOpen ==
  /\ dev.phase = "closed"
  /\ Send(devSegment({"SYN"}, 0, << >>))
  /\ dev' = [dev EXCEPT !.phase = "synSent"]
  /\ UNCHANGED <<connVars, down, net>>

\* New bytes, within the window the relay advertised, or Overshoot beyond it
\* (a probe of a closed window).
DevSend(n) ==
  /\ dev.phase = "established" /\ ~dev.fin
  /\ dev.sent + n <= MaxSent
  /\ dev.sent + n < dev.edge + Overshoot
  /\ Send(devSegment({"ACK"}, dev.sent + 1, range(dev.sent + 1, dev.sent + n)))
  /\ dev' = [dev EXCEPT !.sent = @ + n]
  /\ UNCHANGED <<connVars, down, net>>

DevFin ==
  /\ dev.phase = "established" /\ ~dev.fin /\ DeviceEnds
  /\ Send(devSegment({"FIN", "ACK"}, dev.sent + 1, << >>))
  /\ dev' = [dev EXCEPT !.fin = TRUE]
  /\ UNCHANGED <<connVars, down, net>>

\* The retransmission timer: everything unacknowledged that makes one segment,
\* the FIN with the last bytes.
DevResend ==
  /\ \/ /\ dev.phase = "synSent"
        /\ Send(devSegment({"SYN"}, 0, << >>))
     \/ /\ dev.phase = "established" /\ dev.una < devNext
        /\ LET last == smaller(dev.sent, (dev.una + MaxPayload) - 1)
           IN  Send(devSegment(IF dev.fin /\ last = dev.sent THEN {"FIN", "ACK"} ELSE {"ACK"},
                               dev.una, range(dev.una, last)))
  /\ UNCHANGED <<connVars, dev, down, net>>

DevWindow ==
  /\ dev.phase = "established"
  /\ \E w \in Windows \ {dev.window} :
       /\ dev' = [dev EXCEPT !.window = w]
       /\ Send(segment_of([dev EXCEPT !.window = w], {"ACK"}, devNext, << >>))
  /\ UNCHANGED <<connVars, down, net>>

DevReset ==
  /\ dev.phase = "established" /\ Failures
  /\ Send(devSegment({"RST", "ACK"}, devNext, << >>))
  /\ dev' = [dev EXCEPT !.phase = "done"]
  /\ UNCHANGED <<connVars, down, net>>

(* What the device does with the segment p it receives. *)

acked(p) == minus(p.ack, DeviceIsn)

is_syn_ack(p) == p.flags = {"SYN", "ACK"} /\ acked(p) = 1

occupies(p) == Len(p.data) + (IF "FIN" \in p.flags THEN 1 ELSE 0)

\* An acknowledgement of bytes never sent makes the segment unacceptable
\* (RFC 9293, 3.10.7.4).
acceptable(p) == dev.una <= acked(p) /\ acked(p) <= devNext

with_ack(p) == [dev EXCEPT !.una = acked(p), !.edge = acked(p) + p.window]

\* The relay's RSTs acknowledge nothing, which SYN-SENT requires of a RST.
GetReset(p) ==
  /\ dev.phase = "established" /\ "RST" \in p.flags
  /\ dev' = [dev EXCEPT !.phase = "done"]
  /\ UNCHANGED up

GetSynAck(p) ==
  /\ dev.phase = "synSent" /\ is_syn_ack(p)
  /\ dev' = [with_ack(p) EXCEPT !.phase = "established", !.rcvNext = plus(p.seq, 1)]
  /\ Reply(dev')

GetAck(p) ==
  /\ dev.phase = "established" /\ "RST" \notin p.flags /\ acceptable(p)
  /\ occupies(p) = 0
  /\ dev' = with_ack(p)
  /\ UNCHANGED up

\* Data and FINs are acknowledged, in order or not.
GetData(p) ==
  /\ dev.phase = "established" /\ "RST" \notin p.flags /\ acceptable(p)
  /\ occupies(p) > 0
  /\ dev' = IF p.seq = dev.rcvNext
              THEN [with_ack(p) EXCEPT !.got = @ \o p.data, !.rcvNext = plus(@, occupies(p))]
              ELSE with_ack(p)
  /\ Reply(dev')

Ignore(p) ==
  /\ \/ dev.phase \in {"closed", "done"}
     \/ dev.phase = "synSent" /\ ~is_syn_ack(p)
     \/ dev.phase = "established" /\ ~acceptable(p) /\ "RST" \notin p.flags
  /\ UNCHANGED <<dev, up>>

DevReceive ==
  /\ down # << >> /\ ~c.garbled
  /\ LET p == Head(down)
     IN  GetReset(p) \/ GetSynAck(p) \/ GetAck(p) \/ GetData(p) \/ Ignore(p)
  /\ down' = Tail(down)
  /\ UNCHANGED <<connVars, net>>

-----------------------------------------------------------------------------
(* The relay, fed by the tunnel and the socket *)

\* MaxDown also bounds what the relay may still add to its buffer.
roomDown == Len(down) + Len(c.buffer) < MaxDown

RelayHandle ==
  /\ up # << >> /\ roomDown
  /\ up' = Tail(up)
  /\ \E isn \in RelayIsns : Handle(Head(up), isn)
  /\ UNCHANGED <<dev, down, net>>

\* The router absorbs what arrives for a connection that closed recently.
RouterAbsorbs ==
  /\ up # << >> /\ pc = "gone"
  /\ up' = Tail(up)
  /\ UNCHANGED <<connVars, dev, down, net>>

RelayFlush == roomDown /\ (PollFlush \/ PollClosed) /\ UNCHANGED envVars

SocketAccepts ==
  \E w \in 1 .. Len(c.toNetwork) :
    /\ PollSendBytes(w)
    /\ net' = [net EXCEPT !.out = @ \o SubSeq(c.toNetwork, 1, w)]
    /\ UNCHANGED <<dev, up, down>>

RelaySend ==
  \/ SocketAccepts
  \/ PollSendSkip /\ UNCHANGED envVars
  \/ Failures /\ PollSendFails /\ UNCHANGED envVars

RelayReceive ==
  \/ \E n \in 1 .. (MaxServed - net.in) :
       /\ PollReceiveBytes(range(net.in + 1, net.in + n))
       /\ net' = [net EXCEPT !.in = @ + n]
       /\ UNCHANGED <<dev, up, down>>
  \/ ServerEnds /\ PollReceiveEof /\ UNCHANGED envVars
  \/ Failures /\ PollReceiveFails /\ UNCHANGED envVars
  \/ PollReceiveEnd /\ UNCHANGED envVars

SocketConnects == PollConnected /\ UNCHANGED envVars

RelayConnect ==
  \/ SocketConnects
  \/ Failures /\ PollConnectFails /\ UNCHANGED envVars
  \/ PollEnd /\ UNCHANGED envVars

RelayDrain ==
  /\ c.used > 0
  /\ Drain
  /\ down' = down \o c.buffer
  /\ UNCHANGED <<dev, up, net>>

OtherConnections == \E n \in Others : OtherTraffic(n) /\ UNCHANGED envVars

SessionInit ==
  /\ Init
  /\ dev = [phase |-> "closed", sent |-> 0, una |-> 0, fin |-> FALSE, edge |-> 0,
            window |-> CHOOSE w \in Windows : \A v \in Windows : v <= w,
            rcvNext |-> 0, got |-> << >>]
  /\ up = << >> /\ down = << >>
  /\ net = [out |-> << >>, in |-> 0]

Device == DevStray \/ DevOpen \/ DevFin \/ DevResend \/ DevWindow \/ DevReset \/ DevReceive
            \/ \E n \in 1 .. MaxPayload : DevSend(n)

Relay == RelayHandle \/ RouterAbsorbs \/ RelayFlush \/ RelaySend \/ RelayReceive
           \/ RelayConnect \/ RelayDrain

\* In the middle of a poll the relay shares nothing with the device, so the
\* device's steps are taken between two polls only.
SessionNext == (pc \in {"idle", "gone"} /\ Device) \/ Relay \/ OtherConnections

SessionSpec == SessionInit /\ [][SessionNext]_vars

(***************************************************************************)
(* Fairness.  run_blocking() is an endless loop that reads the tunnel,     *)
(* polls every connection to the end and drains the buffer, so none of its *)
(* steps is put off for ever; a working socket connects, and accepts bytes *)
(* now and then.  The device's stack processes what it receives, opens the *)
(* connection, and its application has MaxSent bytes to send, unless it    *)
(* closes earlier.  Nothing is assumed of retransmissions.                 *)
(***************************************************************************)
Fairness ==
  /\ SF_vars(RelayHandle) /\ SF_vars(RelayFlush) /\ SF_vars(RelayDrain)
  /\ WF_vars(RelaySend) /\ WF_vars(RelayReceive) /\ WF_vars(RelayConnect)
  /\ SF_vars(SocketAccepts) /\ SF_vars(SocketConnects)
  /\ SF_vars(pc \in {"idle", "gone"} /\ DevOpen)
  /\ SF_vars(pc \in {"idle", "gone"} /\ DevReceive)
  /\ SF_vars(pc \in {"idle", "gone"} /\ \E n \in 1 .. MaxPayload : DevSend(n))

FairSpec == SessionSpec /\ Fairness

-----------------------------------------------------------------------------
(* Properties *)

isPrefixOfCount(s) == s = range(1, Len(s))

accepted == Len(net.out) + Len(c.toNetwork)

\* The bytes written to the socket, followed by the ones buffered for it, are
\* the device's stream from its first byte, without gap, repetition or
\* reordering, whatever was retransmitted meanwhile (handle_packet, handle_ack,
\* process_send).
UploadIntact == isPrefixOfCount(net.out \o c.toNetwork)

\* The relay acknowledges exactly the bytes it took charge of, plus the SYN,
\* plus the FIN once it has processed it: an acknowledged byte is never lost,
\* and an accepted one is never asked for again (handle_ack, do_handle_fin).
AckIsAccepted ==
  c.state # "Init" /\ ~c.closed =>
    c.ack = plus(DeviceIsn, 1 + accepted + (IF c.finSeq # None THEN 1 ELSE 0))

\* What handle_packet() takes for "a segment we already acknowledged" carries
\* nothing that the relay has not accepted: re-ACKing it loses no byte.
RetransmissionIsOld ==
  up # << >> /\ c.state # "Init" /\ 2 * minus(Head(up).seq, c.ack) >= SeqMod =>
    \A i \in 1 .. Len(Head(up).data) : Head(up).data[i] <= accepted

\* The advertised window is a promise: the payload of an expected segment of a
\* device that respects it always fits in client_to_network, so that the "Not
\* enough space" branch of handle_ack() is never taken.
WindowIsHonest ==
  up # << >> /\ c.state # "Init" /\ Head(up).seq = c.ack =>
    Len(Head(up).data) <= NetCap - Len(c.toNetwork)

\* The relay answers the device's FIN (LastAck) only once every byte the device
\* sent before it is in the socket, however many polls that took (handle_fin,
\* process_send).
FinAfterData ==
  c.state = "LastAck" => dev.fin /\ net.out = range(1, dev.sent)

\* The device receives a prefix of the server's stream.
DownloadIntact == isPrefixOfCount(dev.got)

\* The bytes read from the server that the device has not received never exceed
\* the largest window the device advertised: remaining_client_window() counts
\* what is in flight, acknowledgements crossing data included.
DeviceNeverOverrun ==
  \E w \in Windows : net.in - Len(dev.got) <= w

\* A RST ends a connection: nothing that still arrives for it, and no later
\* poll, makes the relay say anything but RST again.
NothingAfterReset ==
  LET sent == down \o c.buffer
  IN  \A i, j \in 1 .. Len(sent) :
        i < j /\ "RST" \in sent[i].flags => "RST" \in sent[j].flags

\* Everything the device's application wants to send reaches the socket: a
\* window that closed is opened again by the ACK of process_send(), although
\* the device sends nothing that would ask for it.
UploadCompletes ==
  <>[](net.out = range(1, dev.sent) /\ (dev.fin \/ dev.sent = MaxSent))

\* When the device closes, the connection ends: its FIN is acknowledged, the
\* relay's own FIN is acknowledged in turn, and the router may forget it.
FinCloses == dev.fin ~> c.closed
=============================================================================
