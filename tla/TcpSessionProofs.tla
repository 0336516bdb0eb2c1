--------------------------- MODULE TcpSessionProofs ---------------------------
(***************************************************************************)
(* Theorems about TcpConnection and TcpSession, for every size of the      *)
(* windows, buffers, streams and sequence space.                           *)
(*                                                                         *)
(* The first part is about the connection alone, for every segment a       *)
(* device may send and every outcome of the socket.  Its inductive         *)
(* invariant is Sound(c): the type of the record, the bound of             *)
(* client_to_network and the link between fin_sequence_number and the      *)
(* state.  The type alone is not inductive: an advertised window is a      *)
(* window only because the buffer is within its capacity.  The other parts *)
(* add the device and the channels.                                        *)
(***************************************************************************)
EXTENDS TcpSession, SequenceTheorems, TLAPS

Typed(d) ==
  /\ d \in Connection
  /\ Len(d.finSeq) <= 1 /\ Len(d.deferred) <= 1
  /\ Len(d.toNetwork) <= NetCap

FinMatches(d) == d.finSeq # None <=> is_closed(d.state)

Sound(d) == Typed(d) /\ FinMatches(d)

\* Everything the invariants and NeverGoesBack look at is the same in d and e.
SameCore(d, e) ==
  /\ e.state = d.state /\ e.closed = d.closed /\ e.finSeq = d.finSeq
  /\ e.toNetwork = d.toNetwork /\ e.seq = d.seq /\ e.ack = d.ack

-----------------------------------------------------------------------------
(* Arithmetic *)

\* Wrapping addition and subtraction stay in the sequence space.
LEMMA SeqArith ==
  ASSUME NEW a \in Nat, NEW b \in Nat, b < SeqMod
  PROVE  plus(a, b) \in SeqNum /\ minus(a, b) \in SeqNum
  BY SizesAssumption, Z3 DEF plus, minus, SeqNum

\* What the failed comparison of handle_ack() means.
LEMMA NotLess ==
  ASSUME NEW n \in Nat, NEW l \in Nat, NEW k \in Nat, ~(n - l < k)
  PROVE  k <= n - l
  OBVIOUS

\* Wrapping addition of anything stays in the sequence space.
LEMMA PlusType ==
  ASSUME NEW a \in Nat, NEW b \in Nat
  PROVE  plus(a, b) \in SeqNum
  BY SizesAssumption, Z3 DEF plus, SeqNum

\* The numbers of a typed connection are natural numbers.
LEMMA NumbersAreNat ==
  ASSUME NEW d, Typed(d)
  PROVE  /\ d.seq \in SeqNum /\ d.ack \in SeqNum
         /\ d.seq \in Nat /\ d.ack \in Nat
<1>1. d.seq \in SeqNum /\ d.ack \in SeqNum
  BY DEF Typed, Connection
<1>. QED
  BY <1>1, SizesAssumption DEF SeqNum

\* A segment the relay builds is a segment: its window is one because the
\* buffer is within its capacity.
LEMMA SegmentType ==
  ASSUME NEW d, Typed(d), NEW flags \in SUBSET Flag, NEW data \in Seq(Byte)
  PROVE  segment(d, flags, data) \in Segment
<1>1. Len(d.toNetwork) \in Nat
  BY LenProperties DEF Typed, Connection
<1>2. advertised_window(d) \in Window
  BY <1>1, SizesAssumption DEF Typed, advertised_window, smaller, Window
<1>3. HeaderLen + Len(data) \in Nat
  BY LenProperties, SizesAssumption
<1>. QED
  BY <1>2, <1>3 DEF Typed, Connection, segment, Segment

-----------------------------------------------------------------------------
(* Writing segments to the client *)

\* Writing a segment to the shared buffer changes nothing else.
LEMMA SentToBuffer ==
  ASSUME NEW d, Typed(d), NEW p \in Segment
  PROVE  /\ Typed(sent_to_buffer(d, p))
         /\ SameCore(d, sent_to_buffer(d, p))
         /\ sent_to_buffer(d, p).deferred = d.deferred
<1>1. rawLength(p) \in Nat
  BY LenProperties, SizesAssumption DEF rawLength, Segment
<1>2. Append(d.buffer, p) \in Seq(Segment)
  BY AppendProperties DEF Typed, Connection
<1>3. d.used + rawLength(p) \in Nat
  BY <1>1 DEF Typed, Connection
<1>. QED
  BY <1>2, <1>3 DEF Typed, Connection, SameCore, sent_to_buffer

\* A control segment changes the shared buffer and the deferred packet only.
LEMMA SendEmpty ==
  ASSUME NEW d, Typed(d), NEW flags \in SUBSET Flag
  PROVE  Typed(send_empty(d, flags)) /\ SameCore(d, send_empty(d, flags))
<1>. DEFINE p == segment(d, flags, << >>)
            q == [p EXCEPT !.data = d.deferred[1].data]
            e == IF d.deferred = None THEN d ELSE [d EXCEPT !.deferred = Some(q)]
<1>0. << >> \in Seq(Byte)
  OBVIOUS
<1>1. p \in Segment
  BY <1>0, SegmentType
<1>2. Typed(e) /\ SameCore(d, e)
  <2>1. CASE d.deferred = None
    BY <2>1 DEF SameCore
  <2>2. CASE d.deferred # None
    <3>1. d.deferred[1] \in Segment
      BY <2>2 DEF Typed, Connection, None
    <3>2. q \in Segment
      BY <1>1, <3>1 DEF Segment
    <3>. HIDE DEF q
    <3>3. <<q>> \in Seq(Segment) /\ Len(<<q>>) = 1
      BY <3>2
    <3>4. e = [d EXCEPT !.deferred = <<q>>]
      BY <2>2 DEF Some
    <3>. HIDE DEF e
    <3>5. e \in Connection
      BY <3>3, <3>4 DEF Typed, Connection
    <3>. QED
      BY <3>3, <3>4, <3>5 DEF Typed, Connection, SameCore
  <2>. QED
    BY <2>1, <2>2
<1>3. send_empty(d, flags) = IF fits(e, p) THEN sent_to_buffer(e, p) ELSE e
  BY DEF send_empty
<1>. HIDE DEF p, e
<1>4. Typed(sent_to_buffer(e, p)) /\ SameCore(e, sent_to_buffer(e, p))
  BY <1>1, <1>2, SentToBuffer
<1>. QED
  BY <1>2, <1>3, <1>4 DEF SameCore

-----------------------------------------------------------------------------
(* onward is what every method preserves; it composes. *)

\* A record is onward of itself and of any record with the same core.
LEMMA OnwardSame ==
  ASSUME NEW d, NEW e, d.state \in States, SameCore(d, e)
  PROVE  onward(d, e)
  BY DEF onward, SameCore, Later, States

\* onward is transitive.
LEMMA OnwardTrans ==
  ASSUME NEW d, NEW e, NEW f, d.state \in States, onward(d, e), onward(e, f)
  PROVE  onward(d, f)
<1>1. e.state \in States
  BY DEF onward, Later, States
<1>2. f.state \in Later[d.state]
  BY <1>1 DEF onward, Later, States
<1>. QED
  BY <1>2 DEF onward

\* What every method does to a sound connection.
Preserves(d, e) == Sound(e) /\ onward(d, e)

\* Two methods in a row.
LEMMA PreservesTrans ==
  ASSUME NEW d, NEW e, NEW f, Sound(d), Preserves(d, e), Preserves(e, f)
  PROVE  Preserves(d, f)
  BY OnwardTrans DEF Preserves, Sound, Typed, Connection

\* Doing nothing.
LEMMA PreservesSame ==
  ASSUME NEW d, Sound(d)
  PROVE  Preserves(d, d)
  BY OnwardSame DEF Preserves, Sound, Typed, Connection, SameCore

\* Sending a control segment.
LEMMA PreservesSend ==
  ASSUME NEW d, Sound(d), NEW flags \in SUBSET Flag
  PROVE  Preserves(d, send_empty(d, flags))
<1>1. Typed(send_empty(d, flags)) /\ SameCore(d, send_empty(d, flags))
  BY SendEmpty DEF Sound
<1>2. onward(d, send_empty(d, flags))
  BY <1>1, OnwardSame DEF Sound, Typed, Connection
<1>. QED
  BY <1>1, <1>2 DEF Preserves, Sound, FinMatches, SameCore

\* close().
LEMMA PreservesClose ==
  ASSUME NEW d, Sound(d)
  PROVE  Preserves(d, close(d))
<1>1. Sound(close(d))
  BY DEF Sound, Typed, Connection, FinMatches, close
<1>2. onward(d, close(d))
  BY DEF Sound, Typed, Connection, close, onward, Later, States
<1>. QED
  BY <1>1, <1>2 DEF Preserves

\* send_empty_packet_to_client(RST) and close().
LEMMA PreservesReset ==
  ASSUME NEW d, Sound(d)
  PROVE  Preserves(d, reset_and_close(d))
<1>1. Preserves(d, send_empty(d, {"RST"}))
  BY PreservesSend DEF Flag
<1>2. Preserves(send_empty(d, {"RST"}), close(send_empty(d, {"RST"})))
  BY <1>1, PreservesClose DEF Preserves
<1>. QED
  BY <1>1, <1>2, PreservesTrans DEF reset_and_close

-----------------------------------------------------------------------------
(* Segments from the device *)

\* handle_first_packet(), in state Init only.
LEMMA FirstPacket ==
  ASSUME NEW d, Sound(d), d.state = "Init", NEW p \in Segment, NEW isn \in SeqNum
  PROVE  Preserves(d, handle_first_packet(d, p, isn))
<1>1. CASE "SYN" \in p.flags
  <2>. DEFINE e == [d EXCEPT !.ack = plus(p.seq, 1), !.synSeq = p.seq, !.seq = isn,
                             !.window = p.window, !.state = "SynSent"]
  <2>1. plus(p.seq, 1) \in SeqNum
    BY PlusType, SMTT(40) DEF Segment, SeqNum
  <2>2. Typed(e)
    BY <2>1 DEF Sound, Typed, Connection, Segment, States
  <2>3. FinMatches(e) /\ onward(d, e)
    BY DEF Sound, Typed, Connection, FinMatches, is_closed, onward, Later, States
  <2>. QED
    BY <1>1, <2>2, <2>3 DEF Preserves, Sound, handle_first_packet
<1>2. CASE "SYN" \notin p.flags
  <2>. DEFINE e == [d EXCEPT !.seq = p.ack]
  <2>1. Preserves(d, e)
    BY DEF Preserves, Sound, Typed, Connection, FinMatches, Segment, onward, Later, States
  <2>. HIDE DEF e
  <2>2. Preserves(e, reset_and_close(e))
    BY <2>1, PreservesReset DEF Preserves
  <2>3. Preserves(d, reset_and_close(e))
    BY <2>1, <2>2, PreservesTrans
  <2>. QED
    BY <1>2, <2>3 DEF handle_first_packet, reset_and_close, e
<1>. QED
  BY <1>1, <1>2

\* handle_duplicate_syn().
LEMMA DuplicateSyn ==
  ASSUME NEW d, Sound(d), NEW p \in Segment
  PROVE  Preserves(d, handle_duplicate_syn(d, p))
<1>. DEFINE e == [d EXCEPT !.synSeq = p.seq, !.ack = plus(p.seq, 1)]
<1>1. plus(p.seq, 1) \in SeqNum
  BY PlusType DEF Segment, SeqNum
<1>2. Preserves(d, e)
  BY <1>1 DEF Preserves, Sound, Typed, Connection, FinMatches, Segment, onward, Later, States
<1>. HIDE DEF e
<1>3. Preserves(d, reset_and_close(d)) /\ Preserves(d, d)
  BY PreservesReset, PreservesSame
<1>. QED
  BY <1>2, <1>3 DEF handle_duplicate_syn, reset_and_close, e

\* do_handle_fin(), in any state.
LEMMA DoHandleFin ==
  ASSUME NEW d, Sound(d)
  PROVE  Preserves(d, do_handle_fin(d))
<1>. DEFINE a == [d EXCEPT !.ack = plus(@, 1)]
            s == send_empty(a, {"FIN", "ACK"})
            t == send_empty(a, {"ACK"})
<1>1. plus(d.ack, 1) \in SeqNum
  BY NumbersAreNat, PlusType DEF Sound
<1>2. Preserves(d, a)
  BY <1>1 DEF Preserves, Sound, Typed, Connection, FinMatches, onward, Later, States
<1>3. a.state = d.state /\ a.finSeq = d.finSeq /\ a.seq = d.seq /\ a.closed = d.closed
  BY DEF Sound, Typed, Connection
<1>. HIDE DEF a
<1>4. Sound(s) /\ SameCore(a, s) /\ Sound(t) /\ SameCore(a, t)
      /\ Preserves(a, s) /\ Preserves(a, t)
  BY <1>2, SendEmpty, PreservesSend DEF Preserves, Sound, Flag
<1>. HIDE DEF s, t
<1>5. CASE d.state = "Established"
  <2>. DEFINE e == [s EXCEPT !.finSeq = Some(a.seq), !.seq = plus(@, 1), !.state = "LastAck"]
  <2>0. a.seq \in SeqNum /\ s.seq \in Nat
    BY <1>2, <1>4, NumbersAreNat DEF Preserves, Sound
  <2>1. plus(s.seq, 1) \in SeqNum /\ Some(a.seq) \in Seq(SeqNum) /\ Len(Some(a.seq)) = 1
    BY <2>0, PlusType DEF Some
  <2>2. e \in Connection
    BY <1>4, <2>1 DEF Sound, Typed, Connection, States
  <2>3. Typed(e)
    <3>1. e.finSeq = Some(a.seq) /\ e.deferred = s.deferred /\ e.toNetwork = s.toNetwork
      BY <1>4 DEF Sound, Typed, Connection
    <3>. HIDE DEF e
    <3>2. Len(e.finSeq) <= 1
      <4>1. Len(e.finSeq) = 1
        BY <2>1, <3>1
      <4>. QED
        BY <4>1
    <3>3. Len(e.deferred) <= 1 /\ Len(e.toNetwork) <= NetCap
      BY <1>4, <3>1 DEF Sound, Typed
    <3>. QED
      BY <2>2, <3>2, <3>3 DEF Typed
  <2>4. e.state = "LastAck" /\ e.finSeq # None /\ e.closed = d.closed
    BY <1>3, <1>4, <2>1 DEF Sound, Typed, Connection, SameCore, None, Some
  <2>5. d.finSeq = None
    BY <1>5 DEF Sound, FinMatches, is_closed
  <2>6. do_handle_fin(d) = e
    BY <1>3, <1>5 DEF do_handle_fin, a, s
  <2>. HIDE DEF e
  <2>. QED
    BY <1>5, <2>3, <2>4, <2>5, <2>6
       DEF Preserves, Sound, FinMatches, is_closed, onward, Later, States
<1>6. CASE d.state = "FinWait1"
  <2>. DEFINE e == [t EXCEPT !.state = "Closing"]
  <2>1. Typed(e)
    BY <1>4 DEF Sound, Typed, Connection, States
  <2>2. e.state = "Closing" /\ e.finSeq = d.finSeq /\ e.closed = d.closed
    BY <1>3, <1>4 DEF Sound, Typed, Connection, SameCore
  <2>3. do_handle_fin(d) = e
    BY <1>3, <1>6 DEF do_handle_fin, a, t
  <2>. HIDE DEF e
  <2>. QED
    BY <1>6, <2>1, <2>2, <2>3
       DEF Preserves, Sound, FinMatches, is_closed, onward, Later, States
<1>7. CASE d.state = "FinWait2"
  <2>1. do_handle_fin(d) = close(t)
    BY <1>3, <1>7 DEF do_handle_fin, a, t
  <2>2. Preserves(t, close(t)) /\ Preserves(d, t)
    BY <1>2, <1>4, PreservesClose, PreservesTrans
  <2>. QED
    BY <1>4, <2>1, <2>2, PreservesTrans
<1>8. CASE d.state \notin {"Established", "FinWait1", "FinWait2"}
  <2>1. do_handle_fin(d) = a
    BY <1>3, <1>8 DEF do_handle_fin, a
  <2>. QED
    BY <1>2, <2>1
<1>. QED
  BY <1>5, <1>6, <1>7, <1>8

\* handle_fin().
LEMMA HandleFin ==
  ASSUME NEW d, Sound(d)
  PROVE  Preserves(d, handle_fin(d))
<1>. DEFINE f == [d EXCEPT !.finReceived = TRUE]
<1>1. Preserves(d, f)
  BY DEF Preserves, Sound, Typed, Connection, FinMatches, onward, Later, States
<1>. HIDE DEF f
<1>2. Preserves(f, do_handle_fin(f))
  BY <1>1, DoHandleFin DEF Preserves
<1>3. Preserves(d, do_handle_fin(f))
  BY <1>1, <1>2, PreservesTrans
<1>. QED
  BY <1>1, <1>3 DEF handle_fin, f

\* handle_fin_ack(), which is only called when a FIN was sent.
LEMMA HandleFinAck ==
  ASSUME NEW d, Sound(d)
  PROVE  Preserves(d, handle_fin_ack(d))
<1>1. Preserves(d, close(d)) /\ Preserves(d, d)
  BY PreservesClose, PreservesSame
<1>2. CASE d.state = "FinWait1"
  <2>. DEFINE e == [d EXCEPT !.state = "FinWait2"]
  <2>1. Typed(e)
    BY DEF Sound, Typed, Connection, States
  <2>2. e.state = "FinWait2" /\ e.finSeq = d.finSeq /\ e.closed = d.closed
    BY DEF Sound, Typed, Connection
  <2>3. handle_fin_ack(d) = e
    BY <1>2 DEF handle_fin_ack
  <2>. HIDE DEF e
  <2>. QED
    BY <1>2, <2>1, <2>2, <2>3
       DEF Preserves, Sound, FinMatches, is_closed, onward, Later, States
<1>3. CASE d.state \in {"LastAck", "Closing"}
  BY <1>1, <1>3 DEF handle_fin_ack
<1>4. CASE d.state \notin {"LastAck", "Closing", "FinWait1"}
  BY <1>1, <1>4 DEF handle_fin_ack
<1>. QED
  BY <1>2, <1>3, <1>4

\* Accepting a payload that fits.
LEMMA AcceptPayload ==
  ASSUME NEW d, Sound(d), NEW data \in Seq(Byte), Len(data) <= NetCap - Len(d.toNetwork)
  PROVE  Preserves(d, [d EXCEPT !.toNetwork = @ \o data, !.ack = plus(@, Len(data))])
<1>. DEFINE b == d.toNetwork \o data
            e == [d EXCEPT !.toNetwork = b, !.ack = plus(d.ack, Len(data))]
<1>1. d.toNetwork \in Seq(Byte) /\ Len(data) \in Nat /\ Len(d.toNetwork) \in Nat
  BY LenProperties DEF Sound, Typed, Connection
<1>2. b \in Seq(Byte) /\ Len(b) <= NetCap
  BY <1>1, ConcatProperties, SizesAssumption
<1>3. plus(d.ack, Len(data)) \in SeqNum
  BY <1>1, NumbersAreNat, PlusType DEF Sound
<1>. HIDE DEF b
<1>4. e \in Connection
  BY <1>2, <1>3 DEF Sound, Typed, Connection
<1>5. /\ e.toNetwork = b /\ e.deferred = d.deferred /\ e.finSeq = d.finSeq
      /\ e.state = d.state /\ e.closed = d.closed
  BY DEF Sound, Typed, Connection
<1>6. d.state \in States
  BY DEF Sound, Typed, Connection
<1>7. [d EXCEPT !.toNetwork = @ \o data, !.ack = plus(@, Len(data))] = e
  BY DEF b, Sound, Typed, Connection
<1>. HIDE DEF e
<1>8. Sound(e)
  BY <1>2, <1>4, <1>5 DEF Sound, Typed, FinMatches
<1>9. onward(d, e)
  BY <1>5, <1>6 DEF onward, Later, States
<1>. QED
  BY <1>7, <1>8, <1>9 DEF Preserves

\* handle_ack().
LEMMA HandleAck ==
  ASSUME NEW d, Sound(d), NEW p \in Segment
  PROVE  Preserves(d, handle_ack(d, p))
<1>0. p.data \in Seq(Byte) /\ Len(p.data) \in Nat /\ Len(d.toNetwork) \in Nat
  BY LenProperties DEF Segment, Sound, Typed, Connection
<1>1. CASE d.state = "SynReceived"
  <2>. DEFINE e == [d EXCEPT !.state = "Established"]
  <2>1. Typed(e)
    BY DEF Sound, Typed, Connection, States
  <2>2. e.state = "Established" /\ e.finSeq = d.finSeq /\ e.closed = d.closed
    BY DEF Sound, Typed, Connection
  <2>3. handle_ack(d, p) = e
    BY <1>1 DEF handle_ack
  <2>. HIDE DEF e
  <2>. QED
    BY <1>1, <2>1, <2>2, <2>3
       DEF Preserves, Sound, FinMatches, is_closed, onward, Later, States
<1>2. CASE d.state # "SynReceived" /\ p.data = << >>
  BY <1>2, PreservesSame DEF handle_ack
<1>3. CASE d.state # "SynReceived" /\ p.data # << >> /\ NetCap - Len(d.toNetwork) < Len(p.data)
  BY <1>3, PreservesSend DEF handle_ack, Flag
<1>4. CASE d.state # "SynReceived" /\ p.data # << >> /\ ~(NetCap - Len(d.toNetwork) < Len(p.data))
  <2>. DEFINE e == [d EXCEPT !.toNetwork = @ \o p.data, !.ack = plus(@, Len(p.data))]
  <2>1. Len(p.data) <= NetCap - Len(d.toNetwork)
    <3>1. ~(NetCap - Len(d.toNetwork) < Len(p.data)) /\ NetCap \in Nat
      BY <1>4, SizesAssumption
    <3>2. Len(p.data) \in Nat /\ Len(d.toNetwork) \in Nat
      BY <1>0
    <3>. QED
      BY <3>1, <3>2, NotLess
  <2>2. Preserves(d, e)
    BY <1>0, <2>1, AcceptPayload
  <2>3. handle_ack(d, p) = send_empty(e, {"ACK"})
    BY <1>4 DEF handle_ack
  <2>. HIDE DEF e
  <2>4. Preserves(e, send_empty(e, {"ACK"}))
    BY <2>2, PreservesSend DEF Preserves, Flag
  <2>. QED
    BY <2>2, <2>3, <2>4, PreservesTrans
<1>. QED
  BY <1>1, <1>2, <1>3, <1>4

\* handle_packet(), on the expected segment.
LEMMA HandleExpected ==
  ASSUME NEW d, Sound(d), NEW p \in Segment
  PROVE  Preserves(d, handle_expected(d, p))
<1>. DEFINE u == updated(d, p)
            a == after_ack(u, p)
            f == after_fin(a, p)
            g == after_fin_ack(f, p)
<1>1. Preserves(d, u)
  BY DEF updated, Preserves, Sound, Typed, Connection, Segment, FinMatches, onward, Later, States
<1>. HIDE DEF u
<1>2. Preserves(u, a)
  BY <1>1, HandleAck, PreservesSame DEF after_ack, Preserves
<1>. HIDE DEF a
<1>3. Preserves(a, f)
  BY <1>2, HandleFin, PreservesSame DEF after_fin, Preserves
<1>. HIDE DEF f
<1>4. Preserves(f, g)
  BY <1>3, HandleFinAck, PreservesSame DEF after_fin_ack, Preserves
<1>. HIDE DEF g
<1>5. Preserves(d, g)
  BY <1>1, <1>2, <1>3, <1>4, PreservesTrans DEF Preserves
<1>6. Preserves(d, close(u))
  BY <1>1, PreservesClose, PreservesTrans DEF Preserves
<1>. QED
  BY <1>5, <1>6 DEF handle_expected, u, a, f, g

\* handle_packet(), on any segment.
LEMMA HandlePacket ==
  ASSUME NEW d, Sound(d), NEW p \in Segment, NEW isn \in SeqNum
  PROVE  Preserves(d, handle_packet(d, p, isn))
<1>1. Preserves(d, d) /\ Preserves(d, send_empty(d, {"ACK"}))
  BY PreservesSame, PreservesSend DEF Flag
<1>. QED
  BY <1>1, FirstPacket, DuplicateSyn, HandleExpected DEF handle_packet

-----------------------------------------------------------------------------
(* The socket *)

\* A record whose sequence number moved is as sound as before.
LEMMA PreservesSeq ==
  ASSUME NEW d, Sound(d), NEW n \in SeqNum
  PROVE  Preserves(d, [d EXCEPT !.seq = n])
  BY DEF Preserves, Sound, Typed, Connection, FinMatches, onward, Later, States

\* Writing a segment to the shared buffer.
LEMMA PreservesBuffer ==
  ASSUME NEW d, Sound(d), NEW p \in Segment
  PROVE  Preserves(d, sent_to_buffer(d, p))
<1>1. Typed(sent_to_buffer(d, p)) /\ SameCore(d, sent_to_buffer(d, p))
  BY SentToBuffer DEF Sound
<1>2. onward(d, sent_to_buffer(d, p))
  BY <1>1, OnwardSame DEF Sound, Typed, Connection
<1>. QED
  BY <1>1, <1>2 DEF Preserves, Sound, FinMatches, SameCore

\* Deferring a packet, or forgetting the deferred one.
LEMMA PreservesDeferred ==
  ASSUME NEW d, Sound(d), NEW q \in Seq(Segment), Len(q) <= 1
  PROVE  Preserves(d, [d EXCEPT !.deferred = q])
<1>. DEFINE e == [d EXCEPT !.deferred = q]
<1>1. e \in Connection
  BY DEF Sound, Typed, Connection
<1>2. e.deferred = q /\ SameCore(d, e)
  BY DEF Sound, Typed, Connection, SameCore
<1>. HIDE DEF e
<1>3. Sound(e)
  BY <1>1, <1>2 DEF Sound, Typed, FinMatches, SameCore
<1>4. onward(d, e)
  BY <1>2, OnwardSame DEF Sound, Typed, Connection
<1>. QED
  BY <1>3, <1>4 DEF Preserves, e

\* flush_pending_packet().
LEMMA FlushPendingPacket ==
  ASSUME NEW d, Sound(d), d.deferred # None
  PROVE  Preserves(d, flush_pending_packet(d))
<1>. DEFINE p == d.deferred[1]
            s == sent_to_buffer(d, p)
            e == [s EXCEPT !.seq = plus(s.seq, rawLength(p))]
            f == [e EXCEPT !.deferred = None]
<1>1. p \in Segment
  BY DEF Sound, Typed, Connection, None
<1>2. rawLength(p) \in Nat
  BY <1>1, LenProperties, SizesAssumption DEF rawLength, Segment
<1>3. flush_pending_packet(d) = f
  BY DEF flush_pending_packet
<1>. HIDE DEF p
<1>4. Preserves(d, s)
  BY <1>1, PreservesBuffer
<1>. HIDE DEF s
<1>5. plus(s.seq, rawLength(p)) \in SeqNum
  BY <1>2, <1>4, NumbersAreNat, PlusType DEF Preserves, Sound
<1>6. Preserves(s, e)
  BY <1>4, <1>5, PreservesSeq DEF Preserves
<1>. HIDE DEF e
<1>7. None \in Seq(Segment) /\ Len(None) <= 1
  BY DEF None
<1>8. Preserves(e, f)
  BY <1>6, <1>7, PreservesDeferred DEF Preserves
<1>. QED
  BY <1>3, <1>4, <1>6, <1>8, PreservesTrans DEF Preserves

\* process_send(): the buffer shrinks.
LEMMA ProcessSend ==
  ASSUME NEW d, Sound(d), NEW w \in 1 .. Len(d.toNetwork)
  PROVE  Preserves(d, process_send(d, w))
<1>. DEFINE b == SubSeq(d.toNetwork, w + 1, Len(d.toNetwork))
            s == [d EXCEPT !.toNetwork = b]
<1>1. d.toNetwork \in Seq(Byte) /\ Len(d.toNetwork) \in Nat /\ Len(d.toNetwork) <= NetCap
  BY LenProperties DEF Sound, Typed, Connection
<1>2. b \in Seq(Byte) /\ Len(b) <= NetCap
  <2>1. b \in Seq(Byte)
    BY <1>1, SubSeqProperties
  <2>2. Len(b) = IF w + 1 <= Len(d.toNetwork) THEN (Len(d.toNetwork) - (w + 1)) + 1 ELSE 0
    BY <1>1, SubSeqProperties
  <2>. HIDE DEF b
  <2>. QED
    BY <1>1, <2>1, <2>2, SizesAssumption
<1>. HIDE DEF b
<1>3. s \in Connection
  BY <1>2 DEF Sound, Typed, Connection
<1>4. /\ s.toNetwork = b /\ s.deferred = d.deferred /\ s.finSeq = d.finSeq
      /\ s.state = d.state /\ s.closed = d.closed
  BY DEF Sound, Typed, Connection
<1>5. process_send(d, w) = IF s.finReceived /\ s.toNetwork = << >> THEN do_handle_fin(s)
                           ELSE send_empty(s, {"ACK"})
  BY DEF process_send, b
<1>. HIDE DEF s
<1>6. Sound(s)
  BY <1>2, <1>3, <1>4 DEF Sound, Typed, FinMatches
<1>7. onward(d, s)
  BY <1>4 DEF Sound, Typed, Connection, onward, Later, States
<1>8. Preserves(d, s)
  BY <1>6, <1>7 DEF Preserves
<1>9. Preserves(s, do_handle_fin(s)) /\ Preserves(s, send_empty(s, {"ACK"}))
  BY <1>6, DoHandleFin, PreservesSend DEF Flag
<1>. QED
  BY <1>5, <1>8, <1>9, PreservesTrans

\* process_receive(), one packet.
LEMMA ProcessReceive ==
  ASSUME NEW d, Sound(d), NEW data \in Seq(Byte)
  PROVE  Preserves(d, process_receive(d, data))
<1>. DEFINE p == segment(d, {"ACK"}, data)
            s == sent_to_buffer(d, p)
            e == [s EXCEPT !.seq = plus(s.seq, Len(data))]
<1>1. p \in Segment
  BY SegmentType DEF Sound, Flag
<1>2. process_receive(d, data) = IF fits(d, p) THEN e ELSE [d EXCEPT !.deferred = Some(p)]
  BY DEF process_receive
<1>. HIDE DEF p
<1>3. Preserves(d, s)
  BY <1>1, PreservesBuffer
<1>. HIDE DEF s
<1>4. plus(s.seq, Len(data)) \in SeqNum
  BY <1>3, NumbersAreNat, PlusType, LenProperties DEF Preserves, Sound
<1>5. Preserves(s, e)
  BY <1>3, <1>4, PreservesSeq DEF Preserves
<1>. HIDE DEF e
<1>6. Preserves(d, e)
  BY <1>3, <1>5, PreservesTrans
<1>7. Some(p) \in Seq(Segment) /\ Len(Some(p)) <= 1
  BY <1>1 DEF Some
<1>8. Preserves(d, [d EXCEPT !.deferred = Some(p)])
  BY <1>7, PreservesDeferred
<1>. QED
  BY <1>2, <1>6, <1>8

\* eof(), which process_receive() reaches in state Established only.
LEMMA Eof ==
  ASSUME NEW d, Sound(d), d.state = "Established"
  PROVE  Preserves(d, eof(d))
<1>. DEFINE a == [d EXCEPT !.ack = plus(d.ack, 1)]
            s == send_empty(a, {"FIN", "ACK"})
            e == [s EXCEPT !.finSeq = Some(a.seq), !.seq = plus(s.seq, 1), !.state = "FinWait1"]
<1>1. plus(d.ack, 1) \in SeqNum
  BY NumbersAreNat, PlusType DEF Sound
<1>2. Typed(a) /\ a.state = d.state /\ a.closed = d.closed /\ a.finSeq = d.finSeq
  BY <1>1 DEF Sound, Typed, Connection
<1>3. eof(d) = e
  BY DEF eof, Sound, Typed, Connection
<1>. HIDE DEF a
<1>4. Typed(s) /\ SameCore(a, s)
  BY <1>2, SendEmpty DEF Flag
<1>. HIDE DEF s
<1>5. a.seq \in SeqNum /\ s.seq \in Nat
  BY <1>2, <1>4, NumbersAreNat
<1>6. plus(s.seq, 1) \in SeqNum /\ Some(a.seq) \in Seq(SeqNum) /\ Len(Some(a.seq)) = 1
  BY <1>5, PlusType DEF Some
<1>7. e \in Connection
  BY <1>4, <1>6 DEF Typed, Connection, States
<1>8. /\ e.finSeq = Some(a.seq) /\ e.deferred = s.deferred /\ e.toNetwork = s.toNetwork
      /\ e.state = "FinWait1" /\ e.closed = s.closed
  BY <1>4 DEF Typed, Connection
<1>. HIDE DEF e
<1>9. e.finSeq # None
  BY <1>8 DEF Some, None
<1>10. Typed(e)
  <2>1. Len(e.finSeq) = 1
    BY <1>6, <1>8
  <2>2. Len(e.deferred) <= 1 /\ Len(e.toNetwork) <= NetCap
    BY <1>4, <1>8 DEF Typed
  <2>. QED
    BY <1>7, <2>1, <2>2 DEF Typed
<1>11. d.finSeq = None
  BY DEF Sound, FinMatches, is_closed
<1>12. onward(d, e)
  BY <1>2, <1>4, <1>8, <1>11 DEF SameCore, onward, Later, States
<1>. QED
  BY <1>3, <1>8, <1>9, <1>10, <1>12 DEF Preserves, Sound, FinMatches, is_closed

\* process_connect(), in state SynSent only.
LEMMA ProcessConnect ==
  ASSUME NEW d, Sound(d), d.state = "SynSent"
  PROVE  Preserves(d, process_connect(d))
<1>. DEFINE a == [d EXCEPT !.state = "SynReceived"]
            s == send_empty(a, {"SYN", "ACK"})
            e == [s EXCEPT !.seq = plus(s.seq, 1)]
<1>1. Typed(a) /\ a.state = "SynReceived" /\ a.finSeq = d.finSeq /\ a.closed = d.closed
  BY DEF Sound, Typed, Connection, States
<1>2. process_connect(d) = e
  BY DEF process_connect
<1>. HIDE DEF a
<1>3. Preserves(d, a)
  BY <1>1 DEF Preserves, Sound, FinMatches, is_closed, onward, Later, States
<1>4. Preserves(a, s)
  BY <1>3, PreservesSend DEF Preserves, Flag
<1>. HIDE DEF s
<1>5. plus(s.seq, 1) \in SeqNum
  BY <1>4, NumbersAreNat, PlusType DEF Preserves, Sound
<1>6. Preserves(s, e)
  BY <1>4, <1>5, PreservesSeq DEF Preserves
<1>. QED
  BY <1>2, <1>3, <1>4, <1>6, PreservesTrans

-----------------------------------------------------------------------------
(* The specification *)

Inv ==
  /\ Sound(c)
  /\ pc \in {"idle", "send", "receive", "connect", "gone"}
  /\ reads \in 0 .. MaxReads

\* Every step of the specification preserves the invariant, and takes the
\* connection onward.
LEMMA Inductive ==
  ASSUME Inv, [Next]_connVars
  PROVE  Inv' /\ onward(c, c')
<1>0. Sound(c) /\ Preserves(c, c)
  BY PreservesSame DEF Inv
<1>. SUFFICES Preserves(c, c') /\ pc' \in {"idle", "send", "receive", "connect", "gone"}
              /\ reads' \in 0 .. MaxReads
  BY DEF Inv, Sound, Typed, FinMatches, Preserves
<1>1. CASE UNCHANGED connVars
  BY <1>0, <1>1 DEF Inv, connVars
<1>2. ASSUME NEW p \in Segment, NEW isn \in SeqNum, Handle(p, isn)
      PROVE  Preserves(c, c') /\ pc' \in {"idle", "gone"} /\ UNCHANGED reads
  <2>1. Preserves(c, c')
    BY <1>0, <1>2, HandlePacket DEF Handle
  <2>. QED
    BY <1>2, <2>1 DEF Handle, remaining_in_router
<1>3. CASE PollFlush \/ PollClosed
  <2>1. Preserves(c, c')
    BY <1>0, <1>3, FlushPendingPacket DEF PollFlush, PollClosed
  <2>. QED
    BY <1>3, <2>1 DEF PollFlush, PollClosed, Inv
<1>4. ASSUME NEW w \in 1 .. Len(c.toNetwork), PollSendBytes(w)
      PROVE  Preserves(c, c') /\ pc' = "receive" /\ reads' = 0
  BY <1>0, <1>4, ProcessSend DEF PollSendBytes
<1>5. CASE PollSendSkip \/ PollSendFails
  <2>1. Preserves(c, c')
    BY <1>0, <1>5, PreservesClose, PreservesReset DEF PollSendSkip, PollSendFails
  <2>2. pc' = "receive" /\ reads' = 0
    BY <1>5 DEF PollSendSkip, PollSendFails
  <2>. QED
    BY <2>1, <2>2, SizesAssumption
<1>6. ASSUME NEW data \in Seq(Byte), PollReceiveBytes(data)
      PROVE  Preserves(c, c') /\ UNCHANGED pc /\ reads' \in 0 .. MaxReads
  <2>1. Preserves(c, c')
    BY <1>0, <1>6, ProcessReceive DEF PollReceiveBytes
  <2>2. reads' \in 0 .. MaxReads
    BY <1>6, SizesAssumption DEF PollReceiveBytes, can_receive, Inv
  <2>. QED
    BY <1>6, <2>1, <2>2 DEF PollReceiveBytes
<1>7. CASE PollReceiveEof
  <2>1. c.state = "Established"
    BY <1>0, <1>7 DEF PollReceiveEof, can_receive, may_read, is_connected, is_closed,
                      Sound, Typed, Connection, States
  <2>2. Preserves(c, c')
    BY <1>0, <1>7, <2>1, Eof DEF PollReceiveEof
  <2>. QED
    BY <1>7, <2>2 DEF PollReceiveEof, Inv
<1>8. CASE PollReceiveFails \/ PollReceiveEnd
  <2>1. Preserves(c, c')
    BY <1>0, <1>8, PreservesReset DEF PollReceiveFails, PollReceiveEnd
  <2>. QED
    BY <1>8, <2>1 DEF PollReceiveFails, PollReceiveEnd, Inv
<1>9. CASE PollConnected
  <2>1. Preserves(c, c')
    BY <1>0, <1>9, ProcessConnect DEF PollConnected
  <2>. QED
    BY <1>9, <2>1 DEF PollConnected, Inv, remaining_in_router
<1>10. CASE PollConnectFails \/ PollEnd
  <2>1. Preserves(c, c')
    BY <1>0, <1>10, PreservesClose DEF PollConnectFails, PollEnd
  <2>. QED
    BY <1>10, <2>1 DEF PollConnectFails, PollEnd, Inv, remaining_in_router
<1>11. CASE Drain
  <2>1. << >> \in Seq(Segment)
    OBVIOUS
  <2>2. Typed(c') /\ SameCore(c, c')
    BY <1>0, <1>11, <2>1 DEF Drain, Sound, Typed, Connection, SameCore
  <2>3. Preserves(c, c')
    BY <1>0, <2>2, OnwardSame DEF Preserves, Sound, Typed, Connection, FinMatches, SameCore
  <2>. QED
    BY <1>11, <2>3 DEF Drain, Inv
<1>12. ASSUME NEW n \in 1 .. ClientCap, OtherTraffic(n)
       PROVE  Preserves(c, c') /\ UNCHANGED <<pc, reads>>
  <2>1. c.used + n \in Nat
    BY <1>0, SizesAssumption DEF Sound, Typed, Connection
  <2>2. Typed(c') /\ SameCore(c, c')
    BY <1>0, <1>12, <2>1 DEF OtherTraffic, Sound, Typed, Connection, SameCore
  <2>3. Preserves(c, c')
    BY <1>0, <2>2, OnwardSame DEF Preserves, Sound, Typed, Connection, FinMatches, SameCore
  <2>. QED
    BY <1>12, <2>3 DEF OtherTraffic
<1>13. 0 \in 0 .. MaxReads
  BY SizesAssumption
<1>. QED
  BY <1>1, <1>2, <1>3, <1>4, <1>5, <1>6, <1>7, <1>8, <1>9, <1>10, <1>11, <1>12, <1>13
     DEF Next, Inv

\* The initial record is sound.
LEMMA Initial ==
  ASSUME Init
  PROVE  Inv
<1>1. << >> \in Seq(SeqNum) /\ << >> \in Seq(Byte) /\ << >> \in Seq(Segment) /\ Len(<< >>) = 0
  OBVIOUS
<1>2. 0 \in SeqNum /\ 0 \in Window
  BY SizesAssumption DEF SeqNum, Window
<1>3. New \in Connection
  BY <1>1, <1>2 DEF New, Connection, States, None
<1>4. Sound(New)
  BY <1>1, <1>3, SizesAssumption DEF Sound, Typed, FinMatches, New, None, is_closed
<1>. QED
  BY <1>4, SizesAssumption DEF Init, Inv

\* Whatever the device sends and the socket does, the connection's record stays
\* well typed: numbers in the sequence space, windows within u16, at most one
\* deferred packet.
THEOREM TypeCorrect == Spec => []TypeOK
<1>1. Inv => TypeOK
  BY DEF Inv, Sound, Typed, TypeOK
<1>. QED
  BY <1>1, Initial, Inductive, PTL DEF Spec

\* client_to_network stays within its capacity, so that the unsigned
\* subtraction in remaining() never underflows.
THEOREM BufferBounded == Spec => []NetworkBufferBounded
<1>1. Inv => NetworkBufferBounded
  BY DEF Inv, Sound, Typed, NetworkBufferBounded
<1>. QED
  BY <1>1, Initial, Inductive, PTL DEF Spec

\* A FIN has been sent exactly in the states that say so.
THEOREM FinSent == Spec => []FinSentMatchesState
<1>1. Inv => FinSentMatchesState
  BY DEF Inv, Sound, FinMatches, FinSentMatchesState
<1>. QED
  BY <1>1, Initial, Inductive, PTL DEF Spec

\* No segment and no outcome of the socket takes a connection back in the
\* state diagram, reopens it, or moves the position of its FIN.
THEOREM Forward == Spec => NeverGoesBack
<1>1. Inv /\ [Next]_connVars => [onward(c, c')]_connVars
  BY Inductive
<1>2. Inv /\ [Next]_connVars => Inv'
  BY Inductive
<1>. QED
  BY <1>1, <1>2, Initial, PTL DEF Spec, NeverGoesBack

-----------------------------------------------------------------------------
(* Types, and the session as an instance of the connection *)

DeviceRecord ==
  [phase : {"closed", "synSent", "established", "done"},
   sent : 0 .. MaxSent, una : Nat, fin : BOOLEAN, edge : Nat,
   window : Windows, rcvNext : SeqNum, got : Seq(Byte)]

DeviceType ==
  /\ dev \in DeviceRecord
  /\ dev.phase = "established" => dev.una >= 1

SessionType ==
  /\ Inv /\ DeviceType
  /\ up \in Seq(Segment) /\ down \in Seq(Segment)
  /\ net \in [out : Seq(Byte), in : 0 .. MaxServed]

\* A segment the device builds is a segment.
LEMMA SegmentOfType ==
  ASSUME NEW d, d.rcvNext \in SeqNum, d.window \in Windows,
         NEW flags \in SUBSET Flag, NEW k \in Nat, NEW data \in Seq(Byte)
  PROVE  segment_of(d, flags, k, data) \in Segment
<1>0. DeviceIsn \in Nat
  BY SessionAssumption, SizesAssumption DEF SeqNum
<1>1. plus(DeviceIsn, k) \in SeqNum
  BY <1>0, PlusType
<1>2. HeaderLen + Len(data) \in Nat
  BY LenProperties, SizesAssumption
<1>3. d.window \in Window
  BY SessionAssumption
<1>. QED
  BY <1>1, <1>2, <1>3 DEF segment_of, Segment

\* A part of a stream of numbers, as a sequence.
LEMMA RangeType ==
  ASSUME NEW i \in Nat \ {0}, NEW j \in Nat, NEW n \in Nat, j <= n, 1 .. n \subseteq Byte
  PROVE  /\ range(i, j) \in Seq(Byte)
         /\ Len(range(i, j)) = IF i <= j THEN (j + 1) - i ELSE 0
         /\ \A k \in 1 .. Len(range(i, j)) : range(i, j)[k] = (i + k) - 1
<1>1. \A k \in 1 .. ((j + 1) - i) : (i + k) - 1 \in 1 .. n
  OBVIOUS
<1>2. \A k \in 1 .. ((j + 1) - i) : (i + k) - 1 \in Byte
  BY <1>1
<1>3. CASE i <= j
  <2>1. (j + 1) - i \in Nat
    BY <1>3
  <2>. QED
    BY <1>2, <1>3, <2>1 DEF range
<1>4. CASE ~(i <= j)
  <2>1. 1 .. ((j + 1) - i) = 1 .. 0
    BY <1>4
  <2>2. range(i, j) = [k \in 1 .. 0 |-> (i + k) - 1]
    BY <2>1 DEF range
  <2>3. range(i, j) \in Seq(Byte) /\ Len(range(i, j)) = 0
    BY <2>2
  <2>. QED
    BY <1>4, <2>3
<1>. QED
  BY <1>3, <1>4

\* devNext is where the device's next new byte goes.
LEMMA DevNextType ==
  ASSUME DeviceType
  PROVE  devNext \in Nat /\ devNext \in 1 .. (MaxSent + 2)
  BY SessionAssumption DEF DeviceType, DeviceRecord, devNext

\* The device's steps leave everything in its type.
LEMMA DeviceTyped ==
  ASSUME SessionType, Device
  PROVE  SessionType'
<1>0. /\ MaxSent \in Nat /\ 1 .. MaxSent \subseteq Byte /\ MaxPayload \in Nat \ {0}
      /\ devNext \in Nat /\ << >> \in Seq(Byte) /\ MaxSent + 2 \in Nat
  BY DevNextType, SessionAssumption, SizesAssumption DEF SessionType
<1>1. /\ dev.rcvNext \in SeqNum /\ dev.window \in Windows /\ dev.una \in Nat
      /\ dev.sent \in 0 .. MaxSent /\ dev.fin \in BOOLEAN
      /\ dev.phase = "established" => dev.una >= 1
  BY DEF SessionType, DeviceType, DeviceRecord
<1>2. \A p \in Segment : Append(up, p) \in Seq(Segment)
  BY DEF SessionType
<1>3. ASSUME NEW flags \in SUBSET Flag, NEW k \in Nat, NEW data \in Seq(Byte),
             Send(devSegment(flags, k, data))
      PROVE  up' \in Seq(Segment)
  <2>1. devSegment(flags, k, data) \in Segment
    BY <1>1, SegmentOfType DEF devSegment
  <2>. HIDE DEF devSegment
  <2>. QED
    BY <1>2, <1>3, <2>1 DEF Send
<1>4. /\ {"SYN"} \in SUBSET Flag /\ {"ACK"} \in SUBSET Flag /\ {"RST"} \in SUBSET Flag
      /\ {"FIN", "ACK"} \in SUBSET Flag /\ {"RST", "ACK"} \in SUBSET Flag
  BY DEF Flag
<1>5. UNCHANGED <<connVars, net>> => Inv' /\ net' \in [out : Seq(Byte), in : 0 .. MaxServed]
  BY DEF SessionType, Inv, connVars, Sound, Typed, FinMatches
<1>6. CASE DevStray
  <2>1. up' \in Seq(Segment)
    BY <1>0, <1>3, <1>4, <1>6 DEF DevStray
  <2>. QED
    BY <1>5, <1>6, <2>1 DEF DevStray, SessionType, DeviceType, DeviceRecord
<1>7. CASE DevOpen
  <2>1. up' \in Seq(Segment)
    BY <1>0, <1>3, <1>4, <1>7 DEF DevOpen
  <2>. QED
    BY <1>5, <1>7, <2>1 DEF DevOpen, SessionType, DeviceType, DeviceRecord
<1>8. CASE DevFin
  <2>0. dev.sent + 1 \in Nat
    BY <1>0, <1>1
  <2>1. up' \in Seq(Segment)
    BY <1>0, <1>3, <1>4, <1>8, <2>0 DEF DevFin
  <2>. QED
    BY <1>5, <1>8, <2>1 DEF DevFin, SessionType, DeviceType, DeviceRecord
<1>9. CASE DevResend
  <2>. DEFINE last == smaller(dev.sent, (dev.una + MaxPayload) - 1)
  <2>1. ASSUME Send(devSegment({"SYN"}, 0, << >>))
        PROVE  up' \in Seq(Segment)
    BY <1>0, <1>3, <1>4, <2>1
  <2>2. ASSUME dev.phase = "established",
               NEW flags \in SUBSET Flag, Send(devSegment(flags, dev.una, range(dev.una, last)))
        PROVE  up' \in Seq(Segment)
    <3>1. last \in Nat /\ last <= MaxSent
      BY <1>0, <1>1, <2>2 DEF smaller
    <3>2. dev.una \in Nat \ {0}
      BY <1>1, <2>2
    <3>. HIDE DEF last
    <3>3. range(dev.una, last) \in Seq(Byte)
      BY <1>0, <3>1, <3>2, RangeType
    <3>. QED
      BY <1>1, <1>3, <2>2, <3>3
  <2>3. up' \in Seq(Segment)
    BY <1>4, <1>9, <2>1, <2>2 DEF DevResend
  <2>. QED
    BY <1>5, <1>9, <2>3 DEF DevResend, SessionType, DeviceType, DeviceRecord
<1>10. CASE DevWindow
  <2>1. PICK w \in Windows : /\ dev' = [dev EXCEPT !.window = w]
                             /\ Send(segment_of([dev EXCEPT !.window = w], {"ACK"}, devNext, << >>))
    BY <1>10 DEF DevWindow
  <2>2. dev'.rcvNext \in SeqNum /\ dev'.window \in Windows /\ DeviceType'
    BY <1>10, <2>1 DEF DevWindow, SessionType, DeviceType, DeviceRecord
  <2>3. segment_of(dev', {"ACK"}, devNext, << >>) \in Segment
    BY <1>0, <1>4, <2>2, SegmentOfType
  <2>4. up' \in Seq(Segment)
    BY <1>2, <2>1, <2>3 DEF Send
  <2>. QED
    BY <1>5, <1>10, <2>2, <2>4 DEF DevWindow, SessionType
<1>11. CASE DevReset
  <2>1. up' \in Seq(Segment)
    BY <1>0, <1>3, <1>4, <1>11 DEF DevReset
  <2>. QED
    BY <1>5, <1>11, <2>1 DEF DevReset, SessionType, DeviceType, DeviceRecord
<1>12. ASSUME NEW n \in 1 .. MaxPayload, DevSend(n)
       PROVE  SessionType'
  <2>1. dev.sent + n \in 0 .. MaxSent /\ dev.sent + n \in Nat /\ dev.sent + n <= MaxSent
        /\ dev.sent + 1 \in Nat \ {0}
    BY <1>0, <1>1, <1>12 DEF DevSend
  <2>2. range(dev.sent + 1, dev.sent + n) \in Seq(Byte)
    BY <1>0, <2>1, RangeType
  <2>3. up' \in Seq(Segment)
    BY <1>0, <1>3, <1>4, <1>12, <2>1, <2>2 DEF DevSend
  <2>. QED
    BY <1>5, <1>12, <2>1, <2>3 DEF DevSend, SessionType, DeviceType, DeviceRecord
<1>13. CASE DevReceive
  <2>. DEFINE p == Head(down)
  <2>1. p \in Segment /\ down' \in Seq(Segment)
    BY <1>13 DEF DevReceive, SessionType
  <2>. HIDE DEF p
  <2>2. acked(p) \in Nat /\ acked(p) + p.window \in Nat
    <3>1. p.ack \in Nat /\ DeviceIsn \in Nat /\ DeviceIsn < SeqMod /\ p.window \in Nat
      BY <2>1, SessionAssumption, SizesAssumption DEF Segment, SeqNum, Window
    <3>2. acked(p) \in SeqNum
      BY <3>1, SeqArith DEF acked
    <3>. QED
      BY <3>1, <3>2, SizesAssumption DEF SeqNum
  <2>3. GetReset(p) \/ GetSynAck(p) \/ GetAck(p) \/ GetData(p) \/ Ignore(p)
    BY <1>13 DEF DevReceive, p
  <2>4. ASSUME NEW d, d.rcvNext \in SeqNum, d.window \in Windows, Reply(d)
        PROVE  up' \in Seq(Segment)
    <3>1. segment_of(d, {"ACK"}, devNext, << >>) \in Segment
      BY <1>0, <1>4, <2>4, SegmentOfType
    <3>. QED
      BY <1>2, <2>4, <3>1 DEF Reply
  <2>. DEFINE a == with_ack(p)
  <2>a. a \in DeviceRecord /\ a.phase = dev.phase /\ a.una = acked(p)
        /\ a.got = dev.got /\ a.rcvNext = dev.rcvNext
    BY <2>2 DEF with_ack, SessionType, DeviceType, DeviceRecord
  <2>. HIDE DEF a
  <2>5. DeviceType' /\ up' \in Seq(Segment)
    <3>1. CASE GetReset(p)
      BY <3>1 DEF GetReset, SessionType, DeviceType, DeviceRecord
    <3>2. CASE GetSynAck(p)
      <4>1. plus(p.seq, 1) \in SeqNum
        BY <2>1, PlusType DEF Segment, SeqNum
      <4>2. acked(p) = 1
        BY <3>2 DEF GetSynAck, is_syn_ack
      <4>3. DeviceType'
        <5>1. dev' = [a EXCEPT !.phase = "established", !.rcvNext = plus(p.seq, 1)]
          BY <3>2 DEF GetSynAck, a
        <5>2. dev' \in DeviceRecord /\ dev'.una = 1
          BY <2>a, <4>1, <4>2, <5>1 DEF DeviceRecord
        <5>. QED
          BY <5>2 DEF DeviceType
      <4>. QED
        BY <2>4, <3>2, <4>3 DEF GetSynAck, DeviceType, DeviceRecord
    <3>3. CASE GetAck(p)
      <4>1. acked(p) >= dev.una
        BY <1>1, <2>2, <3>3 DEF GetAck, acceptable
      <4>2. DeviceType'
        BY <1>1, <2>2, <2>a, <3>3, <4>1 DEF GetAck, a, DeviceType
      <4>. QED
        BY <3>3, <4>2 DEF GetAck, SessionType
    <3>4. CASE GetData(p)
      <4>1. acked(p) >= dev.una
        BY <1>1, <2>2, <3>4 DEF GetData, acceptable
      <4>2. plus(dev.rcvNext, occupies(p)) \in SeqNum
        <5>1. occupies(p) \in Nat
          BY <2>1, LenProperties DEF occupies, Segment
        <5>2. dev.rcvNext \in Nat
          BY <1>1, SizesAssumption DEF SeqNum
        <5>. QED
          BY <5>1, <5>2, PlusType
      <4>3. dev.got \o p.data \in Seq(Byte)
        BY <2>1, ConcatProperties DEF SessionType, DeviceType, DeviceRecord, Segment
      <4>4. DeviceType'
        <5>1. CASE p.seq = dev.rcvNext
          <6>1. dev' = [a EXCEPT !.got = dev.got \o p.data, !.rcvNext = plus(dev.rcvNext, occupies(p))]
            BY <2>a, <3>4, <5>1 DEF GetData, a, DeviceRecord
          <6>2. dev' \in DeviceRecord /\ dev'.una = acked(p)
            BY <2>a, <4>2, <4>3, <6>1 DEF DeviceRecord
          <6>. QED
            BY <1>1, <2>2, <3>4, <4>1, <6>2 DEF GetData, DeviceType
        <5>2. CASE p.seq # dev.rcvNext
          BY <1>1, <2>2, <2>a, <3>4, <4>1, <5>2 DEF GetData, a, DeviceType
        <5>. QED
          BY <5>1, <5>2
      <4>. QED
        BY <2>4, <3>4, <4>4 DEF GetData, DeviceType, DeviceRecord
    <3>5. CASE Ignore(p)
      BY <3>5 DEF Ignore, SessionType, DeviceType, DeviceRecord
    <3>. QED
      BY <2>3, <3>1, <3>2, <3>3, <3>4, <3>5
  <2>. QED
    BY <1>5, <1>13, <2>1, <2>5 DEF DevReceive, SessionType
<1>. QED
  BY <1>6, <1>7, <1>8, <1>9, <1>10, <1>11, <1>12, <1>13 DEF Device

\* A relay's step of the session is a step of the connection on its own.
LEMMA RelayIsConnection ==
  ASSUME SessionType, Relay \/ OtherConnections
  PROVE  [Next]_connVars
<1>1. \A p \in Segment, isn \in RelayIsns : Handle(p, isn) => Next
  BY SessionAssumption DEF Next
<1>2. CASE RelayHandle
  <2>1. Head(up) \in Segment
    BY <1>2 DEF RelayHandle, SessionType
  <2>. QED
    BY <1>1, <1>2, <2>1 DEF RelayHandle
<1>3. CASE RouterAbsorbs
  BY <1>3 DEF RouterAbsorbs
<1>4. CASE RelayFlush
  BY <1>4 DEF RelayFlush, Next
<1>5. CASE RelaySend
  BY <1>5 DEF RelaySend, SocketAccepts, envVars, Next
<1>6. CASE RelayReceive
  <2>1. ASSUME NEW n \in 1 .. (MaxServed - net.in),
               PollReceiveBytes(range(net.in + 1, net.in + n))
        PROVE  Next
    <3>1. /\ net.in + 1 \in Nat \ {0} /\ net.in + n \in Nat /\ net.in + n <= MaxServed
          /\ MaxServed \in Nat /\ 1 .. MaxServed \subseteq Byte /\ n \in Nat \ {0}
      BY SessionAssumption DEF SessionType
    <3>. DEFINE i == net.in + 1
                j == net.in + n
    <3>a. i <= j /\ (j + 1) - i = n
      BY SessionAssumption DEF SessionType
    <3>. HIDE DEF i, j
    <3>2. range(i, j) \in Seq(Byte) /\ Len(range(i, j)) = n
      BY <3>1, <3>a, RangeType DEF i, j
    <3>3. range(i, j) # << >>
      BY <3>1, <3>2
    <3>. QED
      BY <2>1, <3>2, <3>3 DEF Next, i, j
  <2>. QED
    BY <1>6, <2>1 DEF RelayReceive, Next
<1>7. CASE RelayConnect
  BY <1>7 DEF RelayConnect, SocketConnects, Next
<1>8. CASE RelayDrain
  BY <1>8 DEF RelayDrain, Next
<1>9. CASE OtherConnections
  <2>1. PICK n \in Others : OtherTraffic(n)
    BY <1>9 DEF OtherConnections
  <2>2. n \in Nat /\ c.used \in Nat /\ c \in Connection /\ ClientCap \in Nat
    BY SessionAssumption, SizesAssumption DEF SessionType, Inv, Sound, Typed, Connection
  <2>3. CASE n = 0
    BY <2>1, <2>2, <2>3 DEF OtherTraffic, connVars, Connection
  <2>4. CASE n # 0
    <3>1. n \in 1 .. ClientCap
      BY <2>1, <2>2, <2>4 DEF OtherTraffic
    <3>. QED
      BY <2>1, <3>1 DEF Next
  <2>. QED
    BY <2>3, <2>4
<1>. QED
  BY <1>2, <1>3, <1>4, <1>5, <1>6, <1>7, <1>8, <1>9 DEF Relay

\* The relay's steps leave everything in its type.
LEMMA RelayTyped ==
  ASSUME SessionType, Relay \/ OtherConnections
  PROVE  SessionType'
<1>0. /\ Inv' /\ net.out \in Seq(Byte) /\ net.in \in 0 .. MaxServed /\ MaxServed \in Nat
      /\ c.buffer \in Seq(Segment) /\ c.toNetwork \in Seq(Byte)
  BY RelayIsConnection, Inductive, SessionAssumption DEF SessionType, Inv, Sound, Typed, Connection
<1>1. UNCHANGED dev => DeviceType'
  BY DEF SessionType, DeviceType
<1>2. CASE RelayHandle \/ RouterAbsorbs
  <2>1. Tail(up) \in Seq(Segment)
    BY <1>2 DEF RelayHandle, RouterAbsorbs, SessionType
  <2>. QED
    BY <1>0, <1>1, <1>2, <2>1 DEF RelayHandle, RouterAbsorbs, SessionType
<1>3. CASE RelayFlush \/ RelayConnect \/ OtherConnections
  BY <1>0, <1>1, <1>3 DEF RelayFlush, RelayConnect, SocketConnects, OtherConnections,
                          envVars, SessionType
<1>4. CASE RelaySend
  <2>1. ASSUME NEW w \in 1 .. Len(c.toNetwork),
               net' = [net EXCEPT !.out = @ \o SubSeq(c.toNetwork, 1, w)]
        PROVE  net' \in [out : Seq(Byte), in : 0 .. MaxServed]
    <3>1. SubSeq(c.toNetwork, 1, w) \in Seq(Byte)
      BY <1>0, SubSeqProperties
    <3>2. net.out \o SubSeq(c.toNetwork, 1, w) \in Seq(Byte)
      BY <1>0, <3>1, ConcatProperties
    <3>. QED
      BY <2>1, <3>2 DEF SessionType
  <2>2. net' \in [out : Seq(Byte), in : 0 .. MaxServed]
    BY <1>4, <2>1 DEF RelaySend, SocketAccepts, envVars, SessionType
  <2>. QED
    BY <1>0, <1>1, <1>4, <2>2 DEF RelaySend, SocketAccepts, envVars, SessionType
<1>5. CASE RelayReceive
  <2>1. ASSUME NEW n \in 1 .. (MaxServed - net.in), net' = [net EXCEPT !.in = @ + n]
        PROVE  net' \in [out : Seq(Byte), in : 0 .. MaxServed]
    <3>1. net.in + n \in 0 .. MaxServed
      BY <1>0
    <3>. QED
      BY <2>1, <3>1 DEF SessionType
  <2>2. net' \in [out : Seq(Byte), in : 0 .. MaxServed]
    BY <1>5, <2>1 DEF RelayReceive, envVars, SessionType
  <2>. QED
    BY <1>0, <1>1, <1>5, <2>2 DEF RelayReceive, envVars, SessionType
<1>6. CASE RelayDrain
  <2>1. down \o c.buffer \in Seq(Segment)
    BY <1>0, ConcatProperties DEF SessionType
  <2>. QED
    BY <1>0, <1>1, <1>6, <2>1 DEF RelayDrain, SessionType
<1>. QED
  BY <1>2, <1>3, <1>4, <1>5, <1>6 DEF Relay

\* Every step of the session preserves the types and is a step of the
\* connection, or none.
LEMMA SessionStep ==
  ASSUME SessionType, [SessionNext]_vars
  PROVE  SessionType' /\ [Next]_connVars
<1>1. CASE UNCHANGED vars
  BY <1>1 DEF vars, envVars, connVars, SessionType, DeviceType, Inv, Sound, Typed, FinMatches
<1>2. CASE Device
  <2>1. UNCHANGED connVars
    BY <1>2 DEF Device, DevStray, DevOpen, DevFin, DevResend, DevWindow, DevReset, DevReceive, DevSend
  <2>. QED
    BY <1>2, <2>1, DeviceTyped
<1>3. CASE Relay \/ OtherConnections
  BY <1>3, RelayTyped, RelayIsConnection
<1>. QED
  BY <1>1, <1>2, <1>3 DEF SessionNext

\* The initial state is well typed.
LEMMA SessionInitial ==
  ASSUME SessionInit
  PROVE  SessionType
<1>1. Inv
  BY Initial DEF SessionInit
<1>2. dev.window \in Windows
  BY SessionAssumption DEF SessionInit
<1>3. << >> \in Seq(Byte) /\ << >> \in Seq(Segment) /\ 0 \in SeqNum
      /\ 0 \in 0 .. MaxSent /\ 0 \in 0 .. MaxServed
  BY SizesAssumption, SessionAssumption DEF SeqNum
<1>4. DeviceType
  BY <1>2, <1>3 DEF SessionInit, DeviceType, DeviceRecord
<1>. QED
  BY <1>1, <1>3, <1>4 DEF SessionInit, SessionType

\* Between a TCP device and a server the connection does nothing but what
\* TcpConnection lets it do, so everything proved of TcpConnection holds of it.
THEOREM SessionIsConnection == SessionSpec => Spec
<1>1. SessionInit => SessionType /\ Init
  BY SessionInitial DEF SessionInit
<1>. QED
  BY <1>1, SessionStep, PTL DEF SessionSpec, Spec

\* Nothing the device sends and no outcome of the socket takes a connection
\* back in the state diagram, reopens it, or moves its FIN.
THEOREM SessionForward == SessionSpec => NeverGoesBack
  BY SessionIsConnection, Forward, PTL

-----------------------------------------------------------------------------
(* What the relay's methods write *)

\* Everything but what is on its way to the client.
SameTcb(d, e) ==
  /\ SameCore(d, e)
  /\ e.synSeq = d.synSeq /\ e.theirAck = d.theirAck
  /\ e.finReceived = d.finReceived /\ e.window = d.window

\* A control segment p is written to the shared buffer or dropped; the headers
\* of a deferred packet become those of p.
Answered(d, e, p) ==
  /\ SameTcb(d, e)
  /\ e.buffer = d.buffer \/ e.buffer = Append(d.buffer, p)
  /\ \/ e.deferred = d.deferred
     \/ d.deferred # None /\ e.deferred = Some([p EXCEPT !.data = d.deferred[1].data])

\* That is what send_empty_packet_to_client() does.
LEMMA SendEmptyAnswers ==
  ASSUME NEW d, Typed(d), NEW flags \in SUBSET Flag
  PROVE  Answered(d, send_empty(d, flags), segment(d, flags, << >>))
<1>. DEFINE p == segment(d, flags, << >>)
            q == [p EXCEPT !.data = d.deferred[1].data]
            e == IF d.deferred = None THEN d ELSE [d EXCEPT !.deferred = Some(q)]
<1>1. send_empty(d, flags) = IF fits(e, p) THEN sent_to_buffer(e, p) ELSE e
  BY DEF send_empty
<1>2. Answered(d, e, p) /\ e.buffer = d.buffer /\ e \in Connection
  <2>1. CASE d.deferred = None
    BY <2>1 DEF Answered, SameTcb, SameCore, Typed
  <2>2. CASE d.deferred # None
    <3>1. e = [d EXCEPT !.deferred = Some(q)]
      BY <2>2
    <3>2. Some(q) \in Seq(Segment)
      <4>1. d.deferred[1] \in Segment
        BY <2>2 DEF Typed, Connection, None
      <4>2. p \in Segment
        BY EmptySeq, SegmentType
      <4>. HIDE DEF p
      <4>3. q \in Segment
        BY <4>1, <4>2 DEF Segment
      <4>. QED
        BY <4>3 DEF Some
    <3>. HIDE DEF q, e
    <3>3. e \in Connection
      BY <3>1, <3>2 DEF Typed, Connection
    <3>4. e.deferred = Some(q) /\ e.buffer = d.buffer /\ SameTcb(d, e)
      BY <3>1 DEF Typed, Connection, SameTcb, SameCore
    <3>. QED
      BY <2>2, <3>3, <3>4 DEF Answered, q
  <2>. QED
    BY <2>1, <2>2
<1>. HIDE DEF p, e
<1>3. /\ SameTcb(e, sent_to_buffer(e, p)) /\ sent_to_buffer(e, p).deferred = e.deferred
      /\ sent_to_buffer(e, p).buffer = Append(e.buffer, p)
  BY <1>2 DEF sent_to_buffer, SameTcb, SameCore, Connection
<1>4. Answered(d, sent_to_buffer(e, p), p)
  BY <1>2, <1>3 DEF Answered, SameTcb, SameCore
<1>. QED
  BY <1>1, <1>2, <1>4 DEF p

-----------------------------------------------------------------------------
(* Nothing but RSTs after a RST *)

NoReset(s) == \A i \in 1 .. Len(s) : "RST" \notin s[i].flags

ResetLast(s) == \A i \in 1 .. (Len(s) - 1) : "RST" \notin s[i].flags

ResetsOnlyAfter(s) ==
  \A i, j \in 1 .. Len(s) : i < j /\ "RST" \in s[i].flags => "RST" \in s[j].flags

\* No RST is written, nor waiting to be.
Clean(d) == NoReset(d.buffer) /\ NoReset(d.deferred)

\* What a method may turn a clean connection into.
CleanOrClosed(e) == Clean(e) \/ (e.closed /\ ResetLast(e.buffer))

\* Adding a segment that is not a RST, or the first RST.
LEMMA AppendClean ==
  ASSUME NEW b \in Seq(Segment), NEW p \in Segment, NoReset(b)
  PROVE  /\ ResetLast(Append(b, p))
         /\ "RST" \notin p.flags => NoReset(Append(b, p))
<1>1. /\ Len(Append(b, p)) = Len(b) + 1 /\ Len(b) \in Nat
      /\ \A i \in 1 .. Len(b) : Append(b, p)[i] = b[i]
      /\ Append(b, p)[Len(b) + 1] = p
  BY AppendProperties, LenProperties
<1>. HIDE DEF NoReset
<1>2. \A i \in 1 .. Len(b) : "RST" \notin Append(b, p)[i].flags
  BY <1>1 DEF NoReset
<1>3. (Len(b) + 1) - 1 = Len(b) /\ \A i \in 1 .. (Len(b) + 1) : i \in 1 .. Len(b) \/ i = Len(b) + 1
  BY <1>1
<1>. QED
  BY <1>1, <1>2, <1>3, Zenon DEF NoReset, ResetLast

\* Control segments that are not RSTs.
LEMMA CleanSend ==
  ASSUME NEW d, Typed(d), Clean(d), NEW flags \in SUBSET Flag
  PROVE  /\ "RST" \notin flags => Clean(send_empty(d, flags))
         /\ ResetLast(send_empty(d, flags).buffer)
<1>. DEFINE p == segment(d, flags, << >>)
            e == send_empty(d, flags)
            q == [p EXCEPT !.data = d.deferred[1].data]
<1>1. Answered(d, e, p)
  BY SendEmptyAnswers
<1>2. p \in Segment /\ p.flags = flags
  <2>1. p \in Segment
    BY EmptySeq, SegmentType
  <2>. QED
    BY <2>1 DEF segment
<1>3. q.flags = flags
  BY <1>2 DEF Segment
<1>. HIDE DEF p, e
<1>4. d.buffer \in Seq(Segment)
  BY DEF Typed, Connection
<1>5. ResetLast(d.buffer)
  BY <1>4, LenProperties DEF Clean, NoReset, ResetLast
<1>6. ResetLast(e.buffer) /\ ("RST" \notin flags => NoReset(e.buffer))
  BY <1>1, <1>2, <1>4, <1>5, AppendClean DEF Answered, Clean
<1>7. ASSUME "RST" \notin flags
      PROVE  NoReset(e.deferred)
  <2>. HIDE DEF q
  <2>1. NoReset(Some(q))
    BY <1>3, <1>7 DEF NoReset, Some
  <2>. QED
    BY <1>1, <2>1 DEF Answered, Clean, q
<1>. QED
  BY <1>6, <1>7 DEF Clean, e

\* send_empty_packet_to_client(RST) and close().
LEMMA CleanReset ==
  ASSUME NEW d, Typed(d), Clean(d)
  PROVE  CleanOrClosed(reset_and_close(d))
<1>. DEFINE e == send_empty(d, {"RST"})
<1>1. ResetLast(e.buffer) /\ e \in Connection
  BY CleanSend, SendEmpty DEF Flag, Typed
<1>. HIDE DEF e
<1>2. close(e).buffer = e.buffer /\ close(e).closed
  BY <1>1 DEF close, Connection
<1>3. reset_and_close(d) = close(e)
  BY DEF reset_and_close, e
<1>. QED
  BY <1>1, <1>2, <1>3 DEF CleanOrClosed

\* do_handle_fin() writes a FIN or an ACK.
LEMMA CleanFin ==
  ASSUME NEW d, Sound(d), Clean(d)
  PROVE  Clean(do_handle_fin(d))
<1>. DEFINE a == [d EXCEPT !.ack = plus(@, 1)]
            s == send_empty(a, {"FIN", "ACK"})
            t == send_empty(a, {"ACK"})
<1>1. plus(d.ack, 1) \in SeqNum
  BY NumbersAreNat, PlusType DEF Sound
<1>2. Typed(a) /\ Clean(a) /\ a.state = d.state
  BY <1>1 DEF Sound, Typed, Connection, Clean
<1>. HIDE DEF a
<1>3. Clean(s) /\ Clean(t) /\ s \in Connection /\ t \in Connection
  <2>1. {"FIN", "ACK"} \in SUBSET Flag /\ {"ACK"} \in SUBSET Flag
        /\ "RST" \notin {"FIN", "ACK"} /\ "RST" \notin {"ACK"}
    BY DEF Flag
  <2>. QED
    BY <1>2, <2>1, CleanSend, SendEmpty DEF Typed
<1>. HIDE DEF s, t
<1>4. /\ Clean([s EXCEPT !.finSeq = Some(a.seq), !.seq = plus(@, 1), !.state = "LastAck"])
      /\ Clean([t EXCEPT !.state = "Closing"]) /\ Clean(close(t))
  BY <1>3 DEF Clean, Connection, close
<1>. QED
  BY <1>2, <1>3, <1>4 DEF do_handle_fin, a, s, t

\* handle_packet() on the expected segment writes no RST.
LEMMA CleanExpected ==
  ASSUME NEW d, Sound(d), Clean(d), NEW p \in Segment
  PROVE  Clean(handle_expected(d, p))
<1>. DEFINE u == updated(d, p)
            a == after_ack(u, p)
            f == after_fin(a, p)
            g == after_fin_ack(f, p)
<1>1. Sound(u) /\ Clean(u)
  BY DEF updated, Sound, Typed, Connection, Segment, FinMatches, Clean
<1>. HIDE DEF u
<1>2. Sound(a) /\ Clean(a)
  <2>1. Sound(a)
    BY <1>1, HandleAck DEF after_ack, Preserves
  <2>2. Clean(handle_ack(u, p))
    <3>. DEFINE v == [u EXCEPT !.toNetwork = @ \o p.data, !.ack = plus(@, Len(p.data))]
    <3>0. {"ACK"} \in SUBSET Flag /\ "RST" \notin {"ACK"}
      BY DEF Flag
    <3>1. Clean(send_empty(u, {"ACK"})) /\ Clean([u EXCEPT !.state = "Established"])
      BY <1>1, <3>0, CleanSend DEF Sound, Typed, Connection, Clean
    <3>2. ASSUME ~(NetCap - Len(u.toNetwork) < Len(p.data))
          PROVE  Clean(send_empty(v, {"ACK"}))
      <4>1. Len(p.data) \in Nat /\ Len(u.toNetwork) \in Nat /\ p.data \in Seq(Byte) /\ NetCap \in Nat
        BY <1>1, LenProperties, SizesAssumption DEF Segment, Sound, Typed, Connection
      <4>2. Len(p.data) <= NetCap - Len(u.toNetwork)
        BY <3>2, <4>1, NotLess
      <4>3. Sound(v)
        BY <1>1, <4>1, <4>2, AcceptPayload DEF Preserves
      <4>4. Clean(v)
        BY <1>1 DEF Clean, Sound, Typed, Connection
      <4>. HIDE DEF v
      <4>. QED
        BY <3>0, <4>3, <4>4, CleanSend DEF Sound
    <3>. QED
      BY <1>1, <3>1, <3>2 DEF handle_ack
  <2>. QED
    BY <1>1, <2>1, <2>2 DEF after_ack
<1>. HIDE DEF a
<1>3. Sound(f) /\ Clean(f)
  <2>1. Sound(f)
    BY <1>2, HandleFin DEF after_fin, Preserves
  <2>. DEFINE r == [a EXCEPT !.finReceived = TRUE]
  <2>2. Sound(r) /\ Clean(r)
    BY <1>2 DEF Sound, Typed, Connection, FinMatches, Clean
  <2>3. Clean(handle_fin(a))
    BY <2>2, CleanFin DEF handle_fin
  <2>. QED
    BY <1>2, <2>1, <2>3 DEF after_fin
<1>. HIDE DEF f
<1>4. Clean(g)
  BY <1>3 DEF after_fin_ack, handle_fin_ack, close, Sound, Typed, Connection, Clean
<1>5. Clean(close(u))
  BY <1>1 DEF close, Sound, Typed, Connection, Clean
<1>. QED
  BY <1>4, <1>5 DEF handle_expected, u, a, f, g

\* handle_packet() either writes no RST, or one as its last word, and closes.
LEMMA CleanPacket ==
  ASSUME NEW d, Sound(d), Clean(d), NEW p \in Segment, NEW isn \in SeqNum
  PROVE  CleanOrClosed(handle_packet(d, p, isn))
<1>1. CleanOrClosed(handle_first_packet(d, p, isn))
  <2>. DEFINE e == [d EXCEPT !.seq = p.ack]
              f == [d EXCEPT !.ack = plus(p.seq, 1), !.synSeq = p.seq, !.seq = isn,
                             !.window = p.window, !.state = "SynSent"]
  <2>1. Typed(e) /\ Clean(e)
    BY DEF Sound, Typed, Connection, Segment, Clean
  <2>2. Clean(f)
    BY DEF Sound, Typed, Connection, Clean
  <2>. HIDE DEF e
  <2>3. CleanOrClosed(close(send_empty(e, {"RST"})))
    BY <2>1, CleanReset DEF reset_and_close
  <2>. QED
    BY <2>2, <2>3 DEF handle_first_packet, CleanOrClosed, e
<1>2. CleanOrClosed(handle_duplicate_syn(d, p))
  <2>1. CleanOrClosed(close(send_empty(d, {"RST"})))
    BY CleanReset DEF reset_and_close, Sound
  <2>2. Clean([d EXCEPT !.synSeq = p.seq, !.ack = plus(p.seq, 1)])
    BY DEF Sound, Typed, Connection, Clean
  <2>. QED
    BY <2>1, <2>2 DEF handle_duplicate_syn, CleanOrClosed
<1>3. Clean(send_empty(d, {"ACK"}))
  <2>1. {"ACK"} \in SUBSET Flag /\ "RST" \notin {"ACK"}
    BY DEF Flag
  <2>. QED
    BY <2>1, CleanSend DEF Sound
<1>. QED
  BY <1>1, <1>2, <1>3, CleanExpected DEF handle_packet, CleanOrClosed

\* The methods of a poll that close nothing write no RST.
LEMMA CleanPoll ==
  ASSUME NEW d, Sound(d), Clean(d)
  PROVE  /\ d.deferred # None => Clean(flush_pending_packet(d))
         /\ \A w \in 1 .. Len(d.toNetwork) : Clean(process_send(d, w))
         /\ \A data \in Seq(Byte) : Clean(process_receive(d, data))
         /\ Clean(eof(d)) /\ Clean(process_connect(d)) /\ Clean(close(d))
<1>0. /\ {"ACK"} \in SUBSET Flag /\ {"FIN", "ACK"} \in SUBSET Flag /\ {"SYN", "ACK"} \in SUBSET Flag
      /\ "RST" \notin {"ACK"} /\ "RST" \notin {"FIN", "ACK"} /\ "RST" \notin {"SYN", "ACK"}
  BY DEF Flag
<1>a. Typed(d) /\ d \in Connection /\ d.buffer \in Seq(Segment)
  BY DEF Sound, Typed, Connection
<1>1. ASSUME d.deferred # None
      PROVE  Clean(flush_pending_packet(d))
  <2>. DEFINE p == d.deferred[1]
              s == sent_to_buffer(d, p)
  <2>1. p \in Segment /\ "RST" \notin p.flags
    BY <1>1 DEF Sound, Typed, Connection, None, Clean, NoReset
  <2>2. flush_pending_packet(d) = [s EXCEPT !.seq = plus(@, rawLength(p)), !.deferred = None]
    BY DEF flush_pending_packet
  <2>. HIDE DEF p
  <2>3. s.buffer = Append(d.buffer, p) /\ s \in Connection
    BY <1>a, <2>1, SentToBuffer DEF Typed, sent_to_buffer, Connection
  <2>4. NoReset(s.buffer) /\ NoReset(None)
    BY <1>a, <2>1, <2>3, AppendClean DEF Clean, NoReset, None
  <2>. HIDE DEF s
  <2>5. /\ flush_pending_packet(d).buffer = s.buffer
        /\ flush_pending_packet(d).deferred = None
    BY <2>2, <2>3 DEF Connection
  <2>. QED
    BY <2>4, <2>5 DEF Clean
<1>2. ASSUME NEW w \in 1 .. Len(d.toNetwork)
      PROVE  Clean(process_send(d, w))
  <2>. DEFINE b == SubSeq(d.toNetwork, w + 1, Len(d.toNetwork))
              s == [d EXCEPT !.toNetwork = b]
  <2>1. process_send(d, w) = IF s.finReceived /\ s.toNetwork = << >> THEN do_handle_fin(s)
                             ELSE send_empty(s, {"ACK"})
    BY DEF process_send
  <2>2. Sound(s)
    <3>1. d.toNetwork \in Seq(Byte) /\ Len(d.toNetwork) \in Nat /\ Len(d.toNetwork) <= NetCap
      BY LenProperties DEF Sound, Typed, Connection
    <3>2. b \in Seq(Byte)
      BY <3>1, SubSeqProperties
    <3>3. Len(b) = IF w + 1 <= Len(d.toNetwork) THEN (Len(d.toNetwork) - (w + 1)) + 1 ELSE 0
      BY <3>1, SubSeqProperties
    <3>. HIDE DEF b
    <3>4. Len(b) <= NetCap
      BY <3>1, <3>3, SizesAssumption
    <3>5. s \in Connection /\ s.toNetwork = b /\ s.deferred = d.deferred /\ s.finSeq = d.finSeq
          /\ s.state = d.state
      BY <3>2 DEF Sound, Typed, Connection
    <3>. HIDE DEF s
    <3>. QED
      BY <3>4, <3>5 DEF Sound, Typed, FinMatches
  <2>3. Clean(s)
    BY DEF Clean, Sound, Typed, Connection
  <2>. HIDE DEF s
  <2>. QED
    BY <1>0, <2>1, <2>2, <2>3, CleanFin, CleanSend DEF Sound
<1>3. ASSUME NEW data \in Seq(Byte)
      PROVE  Clean(process_receive(d, data))
  <2>. DEFINE p == segment(d, {"ACK"}, data)
              s == sent_to_buffer(d, p)
  <2>1. p \in Segment
    BY <1>0, <1>a, SegmentType
  <2>2. "RST" \notin p.flags
    BY <1>0, <2>1 DEF segment
  <2>3. process_receive(d, data) = IF fits(d, p) THEN [s EXCEPT !.seq = plus(@, Len(data))]
                                   ELSE [d EXCEPT !.deferred = Some(p)]
    BY DEF process_receive
  <2>. HIDE DEF p
  <2>4. s.buffer = Append(d.buffer, p) /\ s.deferred = d.deferred /\ s \in Connection
    BY <1>a, <2>1, SentToBuffer DEF Typed, sent_to_buffer, Connection
  <2>5. Clean(s)
    BY <1>a, <2>1, <2>2, <2>4, AppendClean DEF Clean
  <2>. HIDE DEF s
  <2>6. Clean([s EXCEPT !.seq = plus(@, Len(data))])
    BY <2>4, <2>5 DEF Clean, Connection
  <2>7. Clean([d EXCEPT !.deferred = Some(p)])
    <3>1. NoReset(Some(p))
      BY <2>2 DEF NoReset, Some
    <3>2. /\ [d EXCEPT !.deferred = Some(p)].deferred = Some(p)
          /\ [d EXCEPT !.deferred = Some(p)].buffer = d.buffer
      BY <1>a DEF Connection
    <3>. QED
      BY <3>1, <3>2 DEF Clean
  <2>. QED
    BY <2>3, <2>6, <2>7
<1>4. Clean(eof(d))
  <2>. DEFINE a == [d EXCEPT !.ack = plus(@, 1)]
              s == send_empty(a, {"FIN", "ACK"})
  <2>1. plus(d.ack, 1) \in SeqNum
    BY <1>a, NumbersAreNat, PlusType
  <2>2. Typed(a) /\ Clean(a)
    BY <1>a, <2>1 DEF Typed, Connection, Clean
  <2>. HIDE DEF a
  <2>3. Clean(s) /\ s \in Connection
    BY <1>0, <2>2, CleanSend, SendEmpty DEF Typed
  <2>. HIDE DEF s
  <2>4. Clean([s EXCEPT !.finSeq = Some(a.seq), !.seq = plus(@, 1), !.state = "FinWait1"])
    BY <2>3 DEF Clean, Connection
  <2>. QED
    BY <2>4 DEF eof, a, s
<1>5. Clean(process_connect(d))
  <2>. DEFINE a == [d EXCEPT !.state = "SynReceived"]
              s == send_empty(a, {"SYN", "ACK"})
  <2>2. Typed(a) /\ Clean(a)
    BY <1>a DEF Typed, Connection, Clean, States
  <2>. HIDE DEF a
  <2>3. Clean(s) /\ s \in Connection
    BY <1>0, <2>2, CleanSend, SendEmpty DEF Typed
  <2>. HIDE DEF s
  <2>4. Clean([s EXCEPT !.seq = plus(@, 1)])
    BY <2>3 DEF Clean, Connection
  <2>. QED
    BY <2>4 DEF process_connect, a, s
<1>6. Clean(close(d))
  BY <1>a DEF Clean, close, Connection
<1>. QED
  BY <1>1, <1>2, <1>3, <1>4, <1>5, <1>6

-----------------------------------------------------------------------------
(* Before the connection is established *)

Opening(s) == s \in {"Init", "SynSent"}

NoSynAck(s) == s \in Seq({p \in Segment : p.flags # {"SYN", "ACK"}})

\* Until the handshake is over there is nothing for the server and nothing
\* deferred; until the socket is connected no SYN-ACK has been sent.
Young(d) ==
  /\ ~is_connected(d.state) => d.toNetwork = << >> /\ d.deferred = None
  /\ Opening(d.state) => NoSynAck(d.buffer)

\* A connected connection has left all this behind, and remains connected.
LEMMA GrownUp ==
  ASSUME NEW d, is_connected(d.state)
  PROVE  /\ Young(d)
         /\ \A e : d.state \in States /\ onward(d, e) => is_connected(e.state)
  BY DEF Young, is_connected, Opening, onward, Later, States

\* A step back to the first states is a step from them.
LEMMA OpeningBefore ==
  ASSUME NEW d, NEW e, d.state \in States, onward(d, e), Opening(e.state)
  PROVE  Opening(d.state)
  BY DEF Opening, onward, Later, States

\* Control segments that are not SYN-ACKs.
LEMMA YoungSend ==
  ASSUME NEW d, Typed(d), Young(d), NEW flags \in SUBSET Flag, flags # {"SYN", "ACK"}
  PROVE  Young(send_empty(d, flags))
<1>. DEFINE p == segment(d, flags, << >>)
            e == send_empty(d, flags)
<1>1. Answered(d, e, p)
  BY SendEmptyAnswers
<1>2. p \in Segment
  BY EmptySeq, SegmentType
<1>3. p.flags # {"SYN", "ACK"}
  BY DEF segment
<1>. HIDE DEF p, e
<1>4. d.buffer \in Seq(Segment)
  BY DEF Typed, Connection
<1>5. NoSynAck(d.buffer) => NoSynAck(Append(d.buffer, p))
  BY <1>2, <1>3, AppendProperties DEF NoSynAck
<1>6. e.state = d.state /\ e.toNetwork = d.toNetwork /\ (d.deferred = None => e.deferred = None)
      /\ (e.buffer = d.buffer \/ e.buffer = Append(d.buffer, p))
  BY <1>1 DEF Answered, SameTcb, SameCore
<1>. QED
  BY <1>5, <1>6 DEF Young, e

\* handle_packet(), on a segment of a device that has nothing to say before it
\* is answered.
LEMMA YoungPacket ==
  ASSUME NEW d, Sound(d), Young(d), NEW p \in Segment, NEW isn \in SeqNum,
         Opening(d.state) => p.data = << >>
  PROVE  Young(handle_packet(d, p, isn))
<1>. DEFINE e == handle_packet(d, p, isn)
<1>0. Sound(e) /\ onward(d, e) /\ d.state \in States /\ Typed(d) /\ d \in Connection
  BY HandlePacket DEF Preserves, Sound, Typed, Connection
<1>f. /\ {"RST"} \in SUBSET Flag /\ {"ACK"} \in SUBSET Flag
      /\ {"RST"} # {"SYN", "ACK"} /\ {"ACK"} # {"SYN", "ACK"}
  <2>1. "SYN" \notin {"RST"} /\ "SYN" \notin {"ACK"} /\ "SYN" \in {"SYN", "ACK"}
    OBVIOUS
  <2>2. {"RST"} # {"SYN", "ACK"} /\ {"ACK"} # {"SYN", "ACK"}
    BY <2>1
  <2>. QED
    BY <2>2 DEF Flag
<1>1. ASSUME NEW x, Typed(x), Young(x)
      PROVE  Young(reset_and_close(x))
  <2>1. Young(send_empty(x, {"RST"})) /\ send_empty(x, {"RST"}) \in Connection
    BY <1>1, <1>f, YoungSend, SendEmpty DEF Typed
  <2>. QED
    BY <2>1 DEF reset_and_close, close, Young, Connection
<1>2. CASE d.state = "Init"
  <2>. DEFINE f == [d EXCEPT !.ack = plus(p.seq, 1), !.synSeq = p.seq, !.seq = isn,
                             !.window = p.window, !.state = "SynSent"]
              g == [d EXCEPT !.seq = p.ack]
  <2>1. Young(f)
    BY <1>0, <1>2 DEF Young, Opening, is_connected, Connection
  <2>2. Typed(g) /\ Young(g)
    BY <1>0 DEF Typed, Young, Connection, Segment
  <2>. HIDE DEF g
  <2>3. Young(reset_and_close(g))
    BY <1>1, <2>2
  <2>. QED
    BY <1>2, <2>1, <2>3 DEF handle_packet, handle_first_packet, reset_and_close, g
<1>3. CASE d.state # "Init" /\ "SYN" \in p.flags
  <2>1. Young([d EXCEPT !.synSeq = p.seq, !.ack = plus(p.seq, 1)])
    BY <1>0 DEF Young, Connection
  <2>2. Young(reset_and_close(d))
    BY <1>0, <1>1
  <2>. QED
    BY <1>3, <2>1, <2>2 DEF handle_packet, handle_duplicate_syn, reset_and_close
<1>4. CASE d.state # "Init" /\ "SYN" \notin p.flags /\ p.seq # d.ack
  BY <1>0, <1>4, <1>f, YoungSend DEF handle_packet
<1>5. CASE d.state # "Init" /\ "SYN" \notin p.flags /\ p.seq = d.ack /\ is_connected(d.state)
  BY <1>0, <1>5, GrownUp
<1>6. CASE d.state # "Init" /\ "SYN" \notin p.flags /\ p.seq = d.ack /\ ~is_connected(d.state)
  <2>. DEFINE u == updated(d, p)
              a == after_ack(u, p)
              g == after_fin(a, p)
              h == after_fin_ack(g, p)
  <2>0. e = IF "RST" \in p.flags THEN close(u) ELSE h
    BY <1>6 DEF handle_packet, handle_expected
  <2>1. Sound(u) /\ Young(u) /\ u.state = d.state
    BY <1>0 DEF updated, Sound, Typed, Connection, Segment, FinMatches, Young
  <2>. HIDE DEF u
  <2>2. Sound(a) /\ Young(a)
    <3>1. Sound(a)
      BY <2>1, HandleAck DEF after_ack, Preserves
    <3>2. Young(handle_ack(u, p))
      <4>1. CASE u.state = "SynReceived"
        <5>1. handle_ack(u, p) = [u EXCEPT !.state = "Established"]
          BY <4>1 DEF handle_ack
        <5>2. is_connected(handle_ack(u, p).state)
          BY <2>1, <5>1 DEF Sound, Typed, Connection, is_connected
        <5>. QED
          BY <5>2, GrownUp
      <4>2. CASE u.state # "SynReceived"
        <5>1. p.data = << >>
          BY <1>6, <2>1, <4>2 DEF is_connected, Opening
        <5>. QED
          BY <2>1, <4>2, <5>1 DEF handle_ack
      <4>. QED
        BY <4>1, <4>2
    <3>. QED
      BY <2>1, <3>1, <3>2 DEF after_ack
  <2>. HIDE DEF a
  <2>3. Sound(g) /\ Young(g)
    <3>1. Sound(g) /\ onward(a, g)
      BY <2>2, HandleFin, PreservesSame DEF after_fin, Preserves
    <3>2. CASE is_connected(a.state)
      BY <2>2, <3>1, <3>2, GrownUp DEF Sound, Typed, Connection
    <3>3. CASE ~is_connected(a.state)
      <4>. DEFINE r == [a EXCEPT !.finReceived = TRUE]
                  t == [r EXCEPT !.ack = plus(@, 1)]
      <4>1. r \in Connection /\ r.state = a.state /\ Young(r)
        BY <2>2 DEF Sound, Typed, Connection, Young
      <4>. HIDE DEF r
      <4>2. do_handle_fin(r) = t
        BY <3>3, <4>1 DEF do_handle_fin, is_connected, Connection
      <4>3. Young(t)
        BY <4>1 DEF Connection, Young
      <4>. QED
        BY <2>2, <3>1, <4>1, <4>2, <4>3 DEF after_fin, handle_fin, r
    <3>. QED
      BY <3>2, <3>3
  <2>. HIDE DEF g
  <2>4. Young(h)
    <3>1. Young(close(g)) /\ Young([g EXCEPT !.state = "FinWait2"])
      BY <2>3 DEF Young, close, Sound, Typed, Connection, Opening, is_connected
    <3>. QED
      BY <2>3, <3>1 DEF after_fin_ack, handle_fin_ack
  <2>5. Young(close(u))
    BY <2>1 DEF Young, close, Sound, Typed, Connection
  <2>. QED
    BY <2>0, <2>4, <2>5
<1>. QED
  BY <1>2, <1>3, <1>4, <1>5, <1>6

\* The steps of a poll.
LEMMA YoungPoll ==
  ASSUME NEW d, Sound(d), Young(d)
  PROVE  /\ Young(close(d))
         /\ d.state = "SynSent" => Young(process_connect(d))
<1>1. Typed(d) /\ d \in Connection
  BY DEF Sound, Typed
<1>2. Young(close(d))
  BY <1>1 DEF Young, close, Connection
<1>3. ASSUME d.state = "SynSent"
      PROVE  Young(process_connect(d))
  <2>. DEFINE a == [d EXCEPT !.state = "SynReceived"]
              s == send_empty(a, {"SYN", "ACK"})
              e == [s EXCEPT !.seq = plus(@, 1)]
  <2>1. /\ Typed(a) /\ a.state = "SynReceived" /\ a.toNetwork = << >> /\ a.deferred = None
    BY <1>1, <1>3 DEF Typed, Connection, States, Young, is_connected
  <2>. HIDE DEF a
  <2>2. {"SYN", "ACK"} \in SUBSET Flag
    BY DEF Flag
  <2>3. Answered(a, s, segment(a, {"SYN", "ACK"}, << >>)) /\ s \in Connection
    BY <2>1, <2>2, SendEmptyAnswers, SendEmpty DEF Typed
  <2>. HIDE DEF s
  <2>4. e.state = "SynReceived" /\ e.toNetwork = << >> /\ e.deferred = None
    BY <2>1, <2>3 DEF Answered, SameTcb, SameCore, Connection
  <2>5. process_connect(d) = e
    BY DEF process_connect, a, s
  <2>. HIDE DEF e
  <2>. QED
    BY <2>4, <2>5 DEF Young, Opening
<1>. QED
  BY <1>2, <1>3

Bare == {p \in Segment : p.data = << >>}

\* Before the device has the SYN-ACK it sends no data, and it cannot have it
\* before the socket is connected.
OpeningInv ==
  /\ SessionType /\ Young(c)
  /\ Opening(c.state) => dev.phase \in {"closed", "synSent"} /\ NoSynAck(down)
  /\ dev.phase \in {"closed", "synSent"} => up \in Seq(Bare)

\* The connection's part of it, whatever the session does.
LEMMA YoungStep ==
  ASSUME OpeningInv, [SessionNext]_vars
  PROVE  Young(c') /\ onward(c, c') /\ SessionType'
<1>0. /\ Sound(c) /\ Typed(c) /\ c \in Connection /\ c.state \in States /\ Young(c)
      /\ [Next]_connVars /\ onward(c, c') /\ SessionType'
  BY SessionStep, Inductive DEF OpeningInv, SessionType, Inv, Sound, Typed, Connection
<1>1. CASE is_connected(c.state)
  <2>1. is_connected(c'.state)
    BY <1>0, <1>1, GrownUp
  <2>. QED
    BY <1>0, <2>1, GrownUp
<1>2. CASE ~is_connected(c.state)
  <2>0. c.toNetwork = << >> /\ c.deferred = None /\ ~may_read(c)
    BY <1>0, <1>2 DEF Young, may_read
  <2>1. CASE UNCHANGED c
    BY <1>0, <2>1 DEF Young
  <2>2. CASE RelayHandle
    <3>1. PICK isn \in RelayIsns : c' = handle_packet(c, Head(up), isn)
      BY <2>2 DEF RelayHandle, Handle
    <3>2. Head(up) \in Segment /\ isn \in SeqNum
      BY <2>2, SessionAssumption DEF RelayHandle, OpeningInv, SessionType
    <3>3. Opening(c.state) => Head(up).data = << >>
      <4>1. up \in Seq(Bare) /\ up # << >> => Head(up) \in Bare
        OBVIOUS
      <4>. QED
        BY <2>2, <4>1 DEF RelayHandle, OpeningInv, Bare
    <3>. QED
      BY <1>0, <3>1, <3>2, <3>3, YoungPacket
  <2>3. CASE PollFlush \/ PollClosed
    BY <1>0, <2>0, <2>3 DEF PollFlush, PollClosed
  <2>4. CASE (\E w \in 1 .. Len(c.toNetwork) : PollSendBytes(w)) \/ PollSendFails
    BY <2>0, <2>4 DEF PollSendBytes, PollSendFails
  <2>5. CASE \/ \E data : PollReceiveBytes(data)
             \/ PollReceiveEof \/ PollReceiveFails
    BY <2>0, <2>5 DEF PollReceiveBytes, PollReceiveEof, PollReceiveFails, can_receive
  <2>6. CASE PollConnected \/ PollConnectFails
    BY <1>0, <2>6, YoungPoll DEF PollConnected, PollConnectFails
  <2>7. CASE RelayDrain
    <3>1. NoSynAck(<< >>)
      BY EmptySeq DEF NoSynAck
    <3>. QED
      BY <1>0, <2>7, <3>1 DEF RelayDrain, Drain, Young, Connection
  <2>8. CASE OtherConnections
    BY <1>0, <2>8 DEF OtherConnections, OtherTraffic, Young, Connection
  <2>9. CASE Device
    <3>1. UNCHANGED c
      BY <2>9 DEF Device, DevStray, DevOpen, DevFin, DevResend, DevWindow, DevReset, DevReceive,
                  DevSend, connVars
    <3>. QED
      BY <2>1, <3>1
  <2>. QED
    BY <1>0, <2>1, <2>2, <2>3, <2>4, <2>5, <2>6, <2>7, <2>8, <2>9
       DEF SessionNext, Relay, RouterAbsorbs, RelayFlush, RelaySend, SocketAccepts, PollSendSkip,
           RelayReceive, PollReceiveEnd, RelayConnect, SocketConnects, PollEnd, connVars, vars
<1>. QED
  BY <1>0, <1>1, <1>2

\* Every step preserves it.
LEMMA OpeningStep ==
  ASSUME OpeningInv, [SessionNext]_vars
  PROVE  OpeningInv'
<1>0. /\ Young(c') /\ onward(c, c') /\ SessionType' /\ c.state \in States
      /\ Opening(c'.state) => Opening(c.state)
  <2>1. c.state \in States
    BY DEF OpeningInv, SessionType, Inv, Sound, Typed, Connection
  <2>. QED
    BY <2>1, YoungStep, OpeningBefore
<1>1. CASE UNCHANGED <<dev, up, down>>
  BY <1>0, <1>1 DEF OpeningInv, NoSynAck
<1>2. CASE RelayHandle \/ RouterAbsorbs
  <2>0. up # << >> /\ up' = Tail(up)
    BY <1>2 DEF RelayHandle, RouterAbsorbs
  <2>1. up \in Seq(Bare) => up' \in Seq(Bare)
    <3>. HIDE DEF Bare
    <3>. QED
      BY <2>0, HeadTailProperties
  <2>. QED
    BY <1>0, <1>2, <2>1 DEF RelayHandle, RouterAbsorbs, OpeningInv
<1>3. CASE RelayDrain
  <2>1. Opening(c'.state) => NoSynAck(down')
    <3>1. NoSynAck(down) /\ NoSynAck(c.buffer) => NoSynAck(down \o c.buffer)
      BY ConcatProperties DEF NoSynAck
    <3>. QED
      BY <1>0, <1>3, <3>1 DEF RelayDrain, OpeningInv, Young
  <2>. QED
    BY <1>0, <1>3, <2>1 DEF RelayDrain, OpeningInv
<1>4. CASE Device
  <2>0. UNCHANGED c
    BY <1>4 DEF Device, DevStray, DevOpen, DevFin, DevResend, DevWindow, DevReset, DevReceive,
                DevSend, connVars
  <2>1. ASSUME dev.phase \notin {"closed", "synSent"}
        PROVE  OpeningInv'
    <3>1. ~Opening(c.state)
      BY <2>1 DEF OpeningInv
    <3>2. dev'.phase \notin {"closed", "synSent"}
      BY <1>4, <2>1 DEF Device, DevStray, DevOpen, DevFin, DevResend, DevWindow, DevReset,
           DevReceive, DevSend, GetReset, GetSynAck, GetAck, GetData, Ignore, with_ack,
           OpeningInv, SessionType, DeviceType, DeviceRecord
    <3>. QED
      BY <1>0, <2>0, <3>1, <3>2 DEF OpeningInv
  <2>2. ASSUME dev.phase \in {"closed", "synSent"},
               NEW flags \in SUBSET Flag, NEW k \in Nat, Send(devSegment(flags, k, << >>))
        PROVE  up' \in Seq(Bare)
    <3>1. devSegment(flags, k, << >>) \in Segment
      BY EmptySeq, SegmentOfType DEF devSegment, OpeningInv, SessionType, DeviceType, DeviceRecord
    <3>2. devSegment(flags, k, << >>).data = << >>
      BY DEF devSegment, segment_of
    <3>. HIDE DEF devSegment
    <3>3. devSegment(flags, k, << >>) \in Bare
      BY <3>1, <3>2 DEF Bare
    <3>. HIDE DEF Bare
    <3>. QED
      BY <2>2, <3>3, AppendProperties DEF Send, OpeningInv
  <2>3. ASSUME dev.phase \in {"closed", "synSent"}, DevStray \/ DevOpen \/ DevResend
        PROVE  OpeningInv'
    <3>1. /\ {"SYN"} \in SUBSET Flag /\ {"ACK"} \in SUBSET Flag /\ {"RST"} \in SUBSET Flag
          /\ MaxSent + 2 \in Nat
      BY SessionAssumption DEF Flag
    <3>2. up' \in Seq(Bare)
      BY <2>2, <2>3, <3>1 DEF DevStray, DevOpen, DevResend
    <3>3. dev'.phase \in {"closed", "synSent"} /\ down' = down
      BY <2>3 DEF DevStray, DevOpen, DevResend, OpeningInv, SessionType, DeviceType, DeviceRecord
    <3>. QED
      BY <1>0, <3>2, <3>3 DEF OpeningInv, NoSynAck
  <2>4. ASSUME dev.phase \in {"closed", "synSent"}, DevReceive
        PROVE  OpeningInv'
    <3>1. NoSynAck(down) => NoSynAck(down') /\ Head(down).flags # {"SYN", "ACK"}
      BY <2>4, HeadTailProperties DEF DevReceive, NoSynAck
    <3>2. Opening(c.state) => ~GetSynAck(Head(down))
      BY <3>1 DEF OpeningInv, GetSynAck, is_syn_ack
    <3>3. CASE GetSynAck(Head(down))
      <4>1. dev'.phase = "established"
        BY <3>3 DEF GetSynAck, with_ack, OpeningInv, SessionType, DeviceType, DeviceRecord
      <4>. QED
        BY <1>0, <3>2, <3>3, <4>1 DEF OpeningInv
    <3>4. CASE Ignore(Head(down))
      BY <1>0, <2>4, <3>1, <3>4 DEF Ignore, OpeningInv
    <3>. QED
      BY <2>4, <3>3, <3>4 DEF DevReceive, GetReset, GetAck, GetData
  <2>. QED
    BY <1>4, <2>1, <2>3, <2>4 DEF Device, DevFin, DevWindow, DevReset, DevSend
<1>. QED
  BY <1>0, <1>1, <1>2, <1>3, <1>4
     DEF SessionNext, Relay, RelayFlush, RelaySend, SocketAccepts, RelayReceive,
         RelayConnect, SocketConnects, OtherConnections, envVars, vars

\* The initial state.
LEMMA OpeningInitial ==
  ASSUME SessionInit
  PROVE  OpeningInv
<1>1. SessionType /\ c = New /\ up = << >> /\ down = << >> /\ dev.phase = "closed"
  BY SessionInitial DEF SessionInit, Init
<1>2. << >> \in Seq(Bare) /\ NoSynAck(<< >>)
  BY EmptySeq DEF NoSynAck
<1>. QED
  BY <1>1, <1>2 DEF OpeningInv, Young, New

-----------------------------------------------------------------------------
(* The invariant behind NothingAfterReset *)

\* An open connection has written no RST, and the device is not waiting for
\* one.  A closed one only waits for the end of its poll, unless the segment
\* that created it closed it.
ResetInv ==
  /\ OpeningInv
  /\ ~c.closed => NoReset(down) /\ Clean(c)
  /\ NothingAfterReset
  /\ c.closed => \/ pc = "gone"
                 \/ pc = "idle" /\ c.state = "Init"
                 \/ pc \in {"receive", "connect"} /\ is_connected(c.state)

\* The order of a sequence that has no RST but in its last place, if there.
LEMMA OrderedConcat ==
  ASSUME NEW s \in Seq(Segment), NEW b \in Seq(Segment), NoReset(s), ResetLast(b)
  PROVE  ResetsOnlyAfter(s \o b)
<1>1. /\ Len(s) \in Nat /\ Len(b) \in Nat /\ Len(s \o b) = Len(s) + Len(b)
      /\ \A i \in 1 .. (Len(s) + Len(b)) :
           (s \o b)[i] = IF i <= Len(s) THEN s[i] ELSE b[i - Len(s)]
  BY ConcatProperties, LenProperties
<1>2. ASSUME NEW i \in 1 .. (Len(s) + Len(b)), i # Len(s) + Len(b)
      PROVE  "RST" \notin (s \o b)[i].flags
  <2>1. CASE i <= Len(s)
    <3>1. i \in 1 .. Len(s)
      BY <1>1, <2>1
    <3>. QED
      BY <1>1, <2>1, <3>1 DEF NoReset
  <2>2. CASE ~(i <= Len(s))
    <3>1. i - Len(s) \in 1 .. (Len(b) - 1)
      BY <1>1, <1>2, <2>2
    <3>. QED
      BY <1>1, <2>2, <3>1 DEF ResetLast
  <2>. QED
    BY <2>1, <2>2
<1>. SUFFICES ASSUME NEW i \in 1 .. (Len(s) + Len(b)), NEW j \in 1 .. (Len(s) + Len(b)), i < j
              PROVE  "RST" \notin (s \o b)[i].flags
  BY <1>1 DEF ResetsOnlyAfter
<1>3. i # Len(s) + Len(b)
  BY <1>1
<1>. QED
  BY <1>2, <1>3

\* Adding a RST to such a sequence.
LEMMA OrderedAppend ==
  ASSUME NEW s \in Seq(Segment), NEW p \in Segment, "RST" \in p.flags, ResetsOnlyAfter(s)
  PROVE  ResetsOnlyAfter(Append(s, p))
<1>1. /\ Len(Append(s, p)) = Len(s) + 1 /\ Len(s) \in Nat
      /\ \A i \in 1 .. Len(s) : Append(s, p)[i] = s[i]
      /\ Append(s, p)[Len(s) + 1] = p
  BY AppendProperties, LenProperties
<1>. SUFFICES ASSUME NEW i \in 1 .. (Len(s) + 1), NEW j \in 1 .. (Len(s) + 1), i < j,
                     "RST" \in Append(s, p)[i].flags
              PROVE  "RST" \in Append(s, p)[j].flags
  BY <1>1 DEF ResetsOnlyAfter
<1>2. CASE j = Len(s) + 1
  BY <1>1, <1>2
<1>3. CASE j # Len(s) + 1
  <2>1. i \in 1 .. Len(s) /\ j \in 1 .. Len(s)
    BY <1>1, <1>3
  <2>. QED
    BY <1>1, <2>1 DEF ResetsOnlyAfter
<1>. QED
  BY <1>2, <1>3

\* Taking its head.
LEMMA OrderedTail ==
  ASSUME NEW s \in Seq(Segment), NEW b \in Seq(Segment), s # << >>, ResetsOnlyAfter(s \o b)
  PROVE  ResetsOnlyAfter(Tail(s) \o b)
<1>1. /\ Len(s) \in Nat /\ Len(b) \in Nat /\ Len(s) >= 1 /\ Len(s \o b) = Len(s) + Len(b)
      /\ \A i \in 1 .. (Len(s) + Len(b)) :
           (s \o b)[i] = IF i <= Len(s) THEN s[i] ELSE b[i - Len(s)]
  BY ConcatProperties, LenProperties, EmptySeq
<1>. DEFINE t == Tail(s)
<1>2. /\ t \in Seq(Segment) /\ Len(t) = Len(s) - 1
      /\ \A i \in 1 .. Len(t) : t[i] = s[i + 1]
  BY HeadTailProperties
<1>. HIDE DEF t
<1>3. /\ Len(t \o b) = Len(t) + Len(b)
      /\ \A i \in 1 .. (Len(t) + Len(b)) :
           (t \o b)[i] = IF i <= Len(t) THEN t[i] ELSE b[i - Len(t)]
  BY <1>2, ConcatProperties
<1>4. ASSUME NEW i \in 1 .. (Len(t) + Len(b))
      PROVE  (t \o b)[i] = (s \o b)[i + 1] /\ i + 1 \in 1 .. (Len(s) + Len(b))
  <2>1. i + 1 \in 1 .. (Len(s) + Len(b))
    BY <1>1, <1>2
  <2>2. CASE i <= Len(t)
    <3>1. i \in 1 .. Len(t) /\ i + 1 <= Len(s)
      BY <1>1, <1>2, <2>2
    <3>. QED
      BY <1>1, <1>2, <1>3, <2>1, <2>2, <3>1
  <2>3. CASE ~(i <= Len(t))
    <3>1. ~(i + 1 <= Len(s)) /\ (i + 1) - Len(s) = i - Len(t)
      BY <1>1, <1>2, <2>3
    <3>. QED
      BY <1>1, <1>3, <2>1, <2>3, <3>1
  <2>. QED
    BY <2>1, <2>2, <2>3
<1>5. \A i, j \in 1 .. (Len(t) + Len(b)) : i < j => i + 1 < j + 1
  BY <1>1, <1>2
<1>. QED
  BY <1>1, <1>3, <1>4, <1>5 DEF ResetsOnlyAfter, t

\* A step of an open connection writes no RST, or closes with one.
LEMMA OpenStep ==
  ASSUME ResetInv, ~c.closed, Relay \/ OtherConnections, ~RelayDrain
  PROVE  CleanOrClosed(c')
<1>0. /\ Sound(c) /\ Typed(c) /\ Clean(c) /\ c \in Connection
      /\ CleanOrClosed(c)
  BY DEF ResetInv, OpeningInv, SessionType, Inv, Sound, Typed, CleanOrClosed
<1>1. CASE UNCHANGED c
  BY <1>0, <1>1 DEF CleanOrClosed, Clean
<1>2. CASE RelayHandle
  <2>1. PICK isn \in RelayIsns : c' = handle_packet(c, Head(up), isn)
    BY <1>2 DEF RelayHandle, Handle
  <2>2. Head(up) \in Segment /\ isn \in SeqNum
    BY <1>2, SessionAssumption DEF RelayHandle, ResetInv, OpeningInv, SessionType
  <2>. QED
    BY <1>0, <2>1, <2>2, CleanPacket
<1>3. CASE PollFlush \/ PollClosed
  BY <1>0, <1>3, CleanPoll DEF PollFlush, PollClosed, CleanOrClosed
<1>4. CASE \E w \in 1 .. Len(c.toNetwork) : PollSendBytes(w)
  BY <1>0, <1>4, CleanPoll DEF PollSendBytes, CleanOrClosed
<1>5. CASE PollSendFails \/ PollReceiveFails \/ PollConnectFails
  BY <1>0, <1>5, CleanPoll, CleanReset
     DEF PollSendFails, PollReceiveFails, PollConnectFails, CleanOrClosed
<1>6. CASE \E data \in Seq(Byte) : PollReceiveBytes(data)
  BY <1>0, <1>6, CleanPoll DEF PollReceiveBytes, CleanOrClosed
<1>7. CASE PollReceiveEof \/ PollConnected
  BY <1>0, <1>7, CleanPoll DEF PollReceiveEof, PollConnected, CleanOrClosed
<1>8. CASE \E n \in 1 .. ClientCap : OtherTraffic(n)
  BY <1>0, <1>8 DEF OtherTraffic, CleanOrClosed, Clean, Connection
<1>9. CASE Drain \/ \E p \in Segment, isn \in SeqNum : Handle(p, isn)
  <2>1. CASE \E p \in Segment, isn \in SeqNum : Handle(p, isn)
    BY <1>0, <2>1, CleanPacket DEF Handle
  <2>2. CASE Drain
    <3>1. NoReset(<< >>)
      BY DEF NoReset
    <3>. QED
      BY <1>0, <2>2, <3>1 DEF Drain, CleanOrClosed, Clean, Connection
  <2>. QED
    BY <1>9, <2>1, <2>2
<1>10. [Next]_connVars
  BY RelayIsConnection DEF ResetInv, OpeningInv
<1>. QED
  BY <1>1, <1>3, <1>4, <1>5, <1>6, <1>7, <1>8, <1>9, <1>10
     DEF Next, connVars, PollSendSkip, PollReceiveEnd, PollEnd

\* A step of a closed connection.
LEMMA ClosedStep ==
  ASSUME ResetInv, c.closed, Relay \/ OtherConnections, ~RelayDrain
  PROVE  /\ c'.closed /\ UNCHANGED down
         /\ \/ c'.buffer = c.buffer
            \/ \E p \in Segment : "RST" \in p.flags /\ c'.buffer = Append(c.buffer, p)
         /\ \/ pc' = "gone"
            \/ UNCHANGED <<pc, c>>
            \/ pc' = pc /\ c'.state = c.state
            \/ pc = "receive" /\ pc' = "connect" /\ UNCHANGED c
<1>0. /\ Sound(c) /\ Typed(c) /\ c \in Connection /\ ~can_receive
      /\ pc \notin {"send"} /\ (pc = "connect" => c.state # "SynSent")
      /\ (pc = "idle" => c.state = "Init") /\ c # New
  BY DEF ResetInv, OpeningInv, SessionType, Inv, Sound, Typed, can_receive, is_connected, New
<1>1. CASE RelayHandle
  <2>1. PICK isn \in RelayIsns : Handle(Head(up), isn)
    BY <1>1 DEF RelayHandle
  <2>. DEFINE q == Head(up)
  <2>2. q \in Segment /\ isn \in SeqNum
    BY <1>1, SessionAssumption DEF RelayHandle, ResetInv, OpeningInv, SessionType
  <2>. HIDE DEF q
  <2>3. c' = handle_first_packet(c, q, isn) /\ pc' = remaining_in_router(c')
    BY <1>0, <2>1 DEF Handle, handle_packet, q
  <2>4. CASE "SYN" \in q.flags
    <3>1. c' = [c EXCEPT !.ack = plus(q.seq, 1), !.synSeq = q.seq, !.seq = isn,
                         !.window = q.window, !.state = "SynSent"]
      BY <2>3, <2>4 DEF handle_first_packet
    <3>2. c'.closed /\ c'.buffer = c.buffer
      BY <1>0, <3>1 DEF Connection
    <3>. QED
      BY <1>1, <2>3, <3>2 DEF RelayHandle, remaining_in_router
  <2>5. CASE "SYN" \notin q.flags
    <3>. DEFINE g == [c EXCEPT !.seq = q.ack]
                e == send_empty(g, {"RST"})
                p == segment(g, {"RST"}, << >>)
    <3>1. Typed(g) /\ g.buffer = c.buffer
      BY <1>0, <2>2 DEF Typed, Connection, Segment
    <3>2. c' = close(e)
      BY <2>3, <2>5 DEF handle_first_packet
    <3>. HIDE DEF g
    <3>3. {"RST"} \in SUBSET Flag
      BY DEF Flag
    <3>4. Answered(g, e, p) /\ e \in Connection
      BY <3>1, <3>3, SendEmptyAnswers, SendEmpty DEF Typed
    <3>5. p \in Segment /\ "RST" \in p.flags
      <4>1. p \in Segment
        BY <3>1, <3>3, EmptySeq, SegmentType
      <4>. QED
        BY <4>1 DEF segment
    <3>. HIDE DEF e, p
    <3>6. c'.closed /\ c'.buffer = e.buffer
      BY <3>2, <3>4 DEF close, Connection
    <3>. QED
      BY <1>1, <2>3, <3>1, <3>4, <3>5, <3>6 DEF RelayHandle, remaining_in_router, Answered
  <2>. QED
    BY <2>4, <2>5
<1>2. CASE RouterAbsorbs
  BY <1>2 DEF RouterAbsorbs, connVars
<1>3. CASE RelayFlush
  BY <1>3 DEF RelayFlush, PollFlush, PollClosed, envVars
<1>4. CASE RelaySend
  BY <1>0, <1>4 DEF RelaySend, SocketAccepts, PollSendBytes, PollSendSkip, PollSendFails
<1>5. CASE RelayReceive
  BY <1>0, <1>5 DEF RelayReceive, PollReceiveBytes, PollReceiveEof, PollReceiveFails,
                    PollReceiveEnd, envVars
<1>6. CASE RelayConnect
  BY <1>0, <1>6 DEF RelayConnect, SocketConnects, PollConnected, PollConnectFails, PollEnd,
                    envVars, remaining_in_router
<1>7. CASE OtherConnections
  <2>1. PICK n \in Others : OtherTraffic(n) /\ UNCHANGED envVars
    BY <1>7 DEF OtherConnections
  <2>. QED
    BY <1>0, <2>1 DEF OtherTraffic, Connection, envVars
<1>. QED
  BY <1>1, <1>2, <1>3, <1>4, <1>5, <1>6, <1>7 DEF Relay

\* An open connection closes in the middle of a poll only once connected.
LEMMA ClosingStep ==
  ASSUME ResetInv, ~c.closed, Relay \/ OtherConnections, c'.closed
  PROVE  \/ pc' = "gone"
         \/ pc' = "idle" /\ c'.state = "Init"
         \/ pc' \in {"receive", "connect"} /\ is_connected(c'.state)
<1>0. /\ Sound(c) /\ Typed(c) /\ c \in Connection /\ c.state \in States /\ Young(c)
      /\ onward(c, c') /\ [Next]_connVars
  <2>1. [SessionNext]_vars
    BY DEF SessionNext
  <2>. QED
    BY <2>1, YoungStep, RelayIsConnection
       DEF ResetInv, OpeningInv, SessionType, Inv, Sound, Typed, Connection
<1>1. is_connected(c.state) => is_connected(c'.state)
  BY <1>0, GrownUp
<1>2. c.toNetwork # << >> \/ can_receive => is_connected(c.state)
  BY <1>0 DEF Young, can_receive, may_read
<1>3. CASE \E p \in Segment, isn \in SeqNum : Handle(p, isn)
  <2>1. PICK p \in Segment, isn \in SeqNum : Handle(p, isn)
    BY <1>3
  <2>2. CASE c = New
    <3>1. c' = handle_first_packet(New, p, isn) /\ pc' = "idle"
      BY <2>1, <2>2 DEF Handle, handle_packet, New
    <3>2. CASE "SYN" \in p.flags
      <4>1. c' = [New EXCEPT !.ack = plus(p.seq, 1), !.synSeq = p.seq, !.seq = isn,
                             !.window = p.window, !.state = "SynSent"]
        BY <3>1, <3>2 DEF handle_first_packet
      <4>2. c'.closed = FALSE
        BY <4>1 DEF New
      <4>. QED
        BY <4>2
    <3>3. CASE "SYN" \notin p.flags
      <4>. DEFINE g == [New EXCEPT !.seq = p.ack]
                  e == send_empty(g, {"RST"})
      <4>1. Typed(g) /\ g.state = "Init"
        BY <1>0, <2>2 DEF Typed, Connection, Segment, New
      <4>2. c' = close(e)
        BY <3>1, <3>3 DEF handle_first_packet
      <4>. HIDE DEF g
      <4>3. SameCore(g, e) /\ e \in Connection
        BY <4>1, SendEmpty DEF Flag, Typed
      <4>. HIDE DEF e
      <4>4. c'.state = "Init"
        BY <4>1, <4>2, <4>3 DEF SameCore, close, Connection
      <4>. QED
        BY <3>1, <4>4
    <3>. QED
      BY <3>2, <3>3
  <2>3. CASE c # New
    BY <2>1, <2>3 DEF Handle, remaining_in_router
  <2>. QED
    BY <2>2, <2>3
<1>4. CASE PollFlush \/ PollClosed \/ PollSendSkip \/ PollReceiveEnd \/ PollEnd
  <2>1. CASE PollFlush
    <3>1. CASE c.deferred = None
      BY <2>1, <3>1 DEF PollFlush
    <3>2. CASE c.deferred # None
      <4>1. c' = flush_pending_packet(c)
        BY <2>1, <3>2 DEF PollFlush
      <4>2. c'.closed = c.closed
        BY <1>0, <4>1 DEF flush_pending_packet, sent_to_buffer, Connection
      <4>. QED
        BY <4>2
    <3>. QED
      BY <3>1, <3>2
  <2>. QED
    BY <1>4, <2>1 DEF PollClosed, PollSendSkip, PollReceiveEnd, PollEnd
<1>5. CASE (\E w \in 1 .. Len(c.toNetwork) : PollSendBytes(w)) \/ PollSendFails
  BY <1>1, <1>2, <1>5 DEF PollSendBytes, PollSendFails
<1>6. CASE (\E data \in Seq(Byte) : PollReceiveBytes(data)) \/ PollReceiveEof \/ PollReceiveFails
  BY <1>1, <1>2, <1>6 DEF PollReceiveBytes, PollReceiveEof, PollReceiveFails, can_receive
<1>7. CASE PollConnected \/ PollConnectFails
  BY <1>7 DEF PollConnected, PollConnectFails, remaining_in_router
<1>8. CASE Drain \/ \E n \in 1 .. ClientCap : OtherTraffic(n)
  BY <1>0, <1>8 DEF Drain, OtherTraffic, Connection
<1>9. CASE UNCHANGED connVars
  BY <1>9 DEF connVars
<1>. QED
  BY <1>0, <1>3, <1>4, <1>5, <1>6, <1>7, <1>8, <1>9 DEF Next

\* Every step of the session preserves the invariant.
LEMMA ResetStep ==
  ASSUME ResetInv, [SessionNext]_vars
  PROVE  ResetInv'
<1>0. /\ OpeningInv' /\ onward(c, c') /\ down \in Seq(Segment) /\ down' \in Seq(Segment)
      /\ c.buffer \in Seq(Segment) /\ c'.buffer \in Seq(Segment) /\ c \in Connection
      /\ c.closed \in BOOLEAN /\ c'.closed \in BOOLEAN
  <2>1. OpeningInv' /\ onward(c, c')
    BY OpeningStep, YoungStep DEF ResetInv
  <2>. QED
    BY <2>1 DEF ResetInv, OpeningInv, SessionType, Inv, Sound, Typed, Connection
<1>1. NothingAfterReset <=> ResetsOnlyAfter(down \o c.buffer)
  BY DEF NothingAfterReset, ResetsOnlyAfter
<1>2. NothingAfterReset' <=> ResetsOnlyAfter(down' \o c'.buffer)
  BY DEF NothingAfterReset, ResetsOnlyAfter
<1>3. CASE UNCHANGED <<c, pc, down>>
  BY <1>0, <1>1, <1>2, <1>3 DEF ResetInv, NoReset, Clean
<1>4. CASE DevReceive
  <2>1. UNCHANGED <<c, pc>> /\ down # << >> /\ down' = Tail(down)
    BY <1>4 DEF DevReceive, connVars
  <2>2. NothingAfterReset'
    BY <1>0, <1>1, <1>2, <2>1, OrderedTail DEF ResetInv
  <2>3. NoReset(down) => NoReset(down')
    <3>1. /\ Len(down') = Len(down) - 1 /\ Len(down) \in Nat
          /\ \A i \in 1 .. Len(down') : down'[i] = down[i + 1]
      BY <1>0, <2>1, HeadTailProperties, LenProperties
    <3>2. \A i \in 1 .. Len(down') : i + 1 \in 1 .. Len(down)
      BY <3>1
    <3>. QED
      BY <3>1, <3>2 DEF NoReset
  <2>. QED
    BY <1>0, <2>1, <2>2, <2>3 DEF ResetInv, Clean, NoReset
<1>5. CASE RelayDrain
  <2>1. /\ down' = down \o c.buffer /\ UNCHANGED pc /\ c' = [c EXCEPT !.buffer = << >>, !.used = 0]
    BY <1>5 DEF RelayDrain, Drain
  <2>2. /\ c'.buffer = << >> /\ c'.deferred = c.deferred /\ c'.closed = c.closed
        /\ c'.state = c.state
    BY <1>0, <2>1 DEF Connection
  <2>3. down' \o c'.buffer = down \o c.buffer
    BY <1>0, <2>1, <2>2, ConcatEmptySeq
  <2>4. NoReset(down) /\ NoReset(c.buffer) => NoReset(down')
    <3>1. /\ Len(down') = Len(down) + Len(c.buffer) /\ Len(down) \in Nat /\ Len(c.buffer) \in Nat
          /\ \A i \in 1 .. Len(down') :
               down'[i] = IF i <= Len(down) THEN down[i] ELSE c.buffer[i - Len(down)]
      BY <1>0, <2>1, ConcatProperties, LenProperties
    <3>2. \A i \in 1 .. Len(down') : IF i <= Len(down) THEN i \in 1 .. Len(down)
                                     ELSE i - Len(down) \in 1 .. Len(c.buffer)
      BY <3>1
    <3>. QED
      BY <3>1, <3>2 DEF NoReset
  <2>5. NoReset(<< >>)
    BY DEF NoReset
  <2>. QED
    BY <1>0, <1>1, <1>2, <2>1, <2>2, <2>3, <2>4, <2>5 DEF ResetInv, Clean
<1>6. CASE (Relay \/ OtherConnections) /\ ~RelayDrain /\ ~c.closed
  <2>1. CleanOrClosed(c')
    BY <1>6, OpenStep
  <2>2. UNCHANGED down
    BY <1>6 DEF Relay, RelayHandle, RouterAbsorbs, RelayFlush, RelaySend, SocketAccepts,
                RelayReceive, RelayConnect, SocketConnects, OtherConnections, envVars
  <2>3. ResetLast(c'.buffer)
    BY <1>0, <2>1, LenProperties DEF CleanOrClosed, Clean, NoReset, ResetLast
  <2>4. NothingAfterReset'
    BY <1>0, <1>2, <1>6, <2>2, <2>3, OrderedConcat DEF ResetInv
  <2>5. c'.closed => \/ pc' = "gone"
                     \/ pc' = "idle" /\ c'.state = "Init"
                     \/ pc' \in {"receive", "connect"} /\ is_connected(c'.state)
    BY <1>6, ClosingStep
  <2>6. ~c'.closed => NoReset(down') /\ Clean(c')
    BY <1>6, <2>1, <2>2 DEF ResetInv, CleanOrClosed, NoReset
  <2>. QED
    BY <1>0, <2>4, <2>5, <2>6 DEF ResetInv, Clean, NoReset
<1>7. CASE (Relay \/ OtherConnections) /\ ~RelayDrain /\ c.closed
  <2>1. /\ c'.closed /\ UNCHANGED down
        /\ \/ c'.buffer = c.buffer
           \/ \E p \in Segment : "RST" \in p.flags /\ c'.buffer = Append(c.buffer, p)
        /\ \/ pc' = "gone"
           \/ UNCHANGED <<pc, c>>
           \/ pc' = pc /\ c'.state = c.state
           \/ pc = "receive" /\ pc' = "connect" /\ UNCHANGED c
    BY <1>7, ClosedStep
  <2>2. NothingAfterReset'
    <3>1. CASE c'.buffer = c.buffer
      BY <1>1, <1>2, <2>1, <3>1 DEF ResetInv
    <3>2. ASSUME NEW p \in Segment, "RST" \in p.flags, c'.buffer = Append(c.buffer, p)
          PROVE  NothingAfterReset'
      <4>1. down \o Append(c.buffer, p) = Append(down \o c.buffer, p)
        BY <1>0
      <4>2. down \o c.buffer \in Seq(Segment)
        BY <1>0, ConcatProperties
      <4>. QED
        BY <1>1, <1>2, <2>1, <3>2, <4>1, <4>2, OrderedAppend DEF ResetInv
    <3>. QED
      BY <2>1, <3>1, <3>2
  <2>3. c'.closed => \/ pc' = "gone"
                     \/ pc' = "idle" /\ c'.state = "Init"
                     \/ pc' \in {"receive", "connect"} /\ is_connected(c'.state)
    BY <1>7, <2>1 DEF ResetInv
  <2>. QED
    BY <1>0, <2>1, <2>2, <2>3 DEF ResetInv
<1>8. CASE Device /\ ~DevReceive
  <2>1. UNCHANGED <<c, pc, down>>
    BY <1>8 DEF Device, DevStray, DevOpen, DevFin, DevResend, DevWindow, DevReset, DevSend, connVars
  <2>. QED
    BY <1>3, <2>1
<1>9. CASE UNCHANGED vars
  BY <1>3, <1>9 DEF vars, connVars, envVars
<1>. QED
  BY <1>4, <1>5, <1>6, <1>7, <1>8, <1>9 DEF SessionNext

\* For every size, every device of TcpSession and every failure of the socket:
\* after a RST the relay says nothing but RST on the connection.
THEOREM ResetIsFinal == SessionSpec => []NothingAfterReset
<1>1. ASSUME SessionInit
      PROVE  ResetInv
  <2>1. OpeningInv /\ c = New /\ down = << >> /\ pc = "idle"
    BY <1>1, OpeningInitial DEF SessionInit, Init
  <2>2. << >> \o << >> = << >> /\ NoReset(<< >>)
    BY DEF NoReset
  <2>3. Clean(New) /\ New.closed = FALSE /\ New.buffer = << >>
    BY <2>2 DEF Clean, New, None
  <2>4. NothingAfterReset
    BY <2>1, <2>2, <2>3 DEF NothingAfterReset
  <2>. QED
    BY <2>1, <2>2, <2>3, <2>4 DEF ResetInv
<1>2. ResetInv => NothingAfterReset
  BY DEF ResetInv
<1>. QED
  BY <1>1, <1>2, ResetStep, PTL DEF SessionSpec
-----------------------------------------------------------------------------
(***************************************************************************)
(* The upload, while the server does not close first and the device        *)
(* respects the window.                                                    *)
(***************************************************************************)
at(k) == plus(DeviceIsn, k)

place(p) == minus(p.seq, DeviceIsn)

\* The relay took a SYN of an older connection for the device's.
Astray(d) == Failures /\ d.state \in {"SynSent", "SynReceived"} /\ d.ack = at(MaxSent + 3)

\* The bytes the relay has taken, n of them being in the socket.
taken(d, n) == n + Len(d.toNetwork)

\* What the relay has taken and acknowledged of the stream of the device v.
Books(d, n, v) ==
  /\ d.state \in {"Init", "SynSent", "SynReceived", "Established", "LastAck"}
  /\ \A i \in 1 .. Len(d.toNetwork) : d.toNetwork[i] = n + i
  /\ taken(d, n) <= v.sent
  /\ ~is_connected(d.state) => taken(d, n) = 0 /\ ~d.finReceived
  /\ d.finReceived => v.fin /\ taken(d, n) = v.sent
  /\ d.state = "LastAck" => d.finReceived /\ d.toNetwork = << >>
  /\ d.state # "Init" =>
       \/ d.ack = at(taken(d, n) + (IF d.state = "LastAck" THEN 2 ELSE 1))
       \/ Astray(d)

carries(p) == p.data # << >> \/ "FIN" \in p.flags

\* The segments of a device v: of the stream it has sent so far, or SYNs, or
\* segments of an older connection.
UpSegment(v) ==
  {p \in Segment :
     /\ place(p) <= MaxSent + 2
     /\ "SYN" \in p.flags => ~carries(p) /\ (place(p) = 0 \/ (Failures /\ place(p) = MaxSent + 2))
     /\ "RST" \in p.flags => ~carries(p) /\ Failures
     /\ carries(p) => /\ "ACK" \in p.flags
                      /\ place(p) >= 1 /\ place(p) + Len(p.data) <= v.sent + 1
                      /\ \A i \in 1 .. Len(p.data) : p.data[i] = (place(p) + i) - 1
     /\ "FIN" \in p.flags => v.fin /\ place(p) + Len(p.data) = v.sent + 1}

\* The segments of the relay whose window, from the byte they acknowledge,
\* ends within the capacity of the buffer beyond the n bytes in the socket.
Promise(v, n) ==
  {p \in Segment :
     "RST" \notin p.flags /\ ~v.fin /\ acked(p) <= MaxSent + 2 =>
       acked(p) + p.window <= (n + NetCap) + 1}

\* The acknowledgement of the SYN-ACK is ahead of everything else the device
\* says on the connection.
Handshake(p) == p.flags = {"ACK"} /\ place(p) = 1 /\ p.data = << >>

HandshakeAhead(s) ==
  \E i \in 1 .. Len(s) :
    Handshake(s[i]) /\ \A j \in 1 .. (i - 1) : ~carries(s[j])

WrongSynAck == {p \in Segment : ~is_syn_ack(p)}

\* The relay cannot have answered the device's SYN.
Lost(d) == Opening(d.state) \/ Astray(d)

\* The connection's part of the invariant.
Kept(d, n, v) ==
  /\ Sound(d) /\ Books(d, n, v)
  /\ d.buffer \in Seq(Promise(v, n)) /\ d.deferred \in Seq(Promise(v, n))
  /\ Lost(d) => d.buffer \in Seq(WrongSynAck)

\* What the device sent fits in the buffer, beyond the n bytes in the socket.
Within(v, n) == v.sent <= n + NetCap

early == dev.phase \in {"closed", "synSent"}

UploadInv ==
  /\ OpeningInv /\ Kept(c, Len(net.out), dev)
  /\ \A i \in 1 .. Len(net.out) : net.out[i] = i
  /\ down \in Seq(Promise(dev, Len(net.out)))
  /\ ~dev.fin => dev.edge <= (Len(net.out) + NetCap) + 1
  /\ Within(dev, Len(net.out))
  /\ up \in Seq(UpSegment(dev))
  /\ dev.una <= devNext
  /\ early => dev.sent = 0 /\ ~dev.fin
  /\ Lost(c) => early /\ down \in Seq(WrongSynAck)
  /\ c.state = "SynReceived" /\ pc # "gone" /\ ~early => HandshakeAhead(up)

(* Offsets in the device's stream *)

\* Sums of two sequence numbers go round at most once.
LEMMA ModIs ==
  ASSUME NEW x \in Nat, x < 2 * SeqMod
  PROVE  x % SeqMod = IF x < SeqMod THEN x ELSE x - SeqMod
<1>1. SeqMod \in Nat /\ SeqMod > 0
  BY SizesAssumption
<1>2. CASE x < SeqMod
  BY <1>1, <1>2
<1>3. CASE ~(x < SeqMod)
  BY <1>1, <1>3
<1>. QED
  BY <1>2, <1>3

\* The sequence number at an offset, without the modulo.
LEMMA AtIs ==
  ASSUME NEW i \in Nat, i < SeqMod
  PROVE  /\ at(i) = IF DeviceIsn + i < SeqMod THEN DeviceIsn + i ELSE (DeviceIsn + i) - SeqMod
         /\ at(i) \in Nat /\ at(i) < SeqMod /\ at(i) \in SeqNum
<1>1. DeviceIsn \in Nat /\ DeviceIsn < SeqMod /\ SeqMod \in Nat
  BY SizesAssumption, SessionAssumption DEF SeqNum
<1>2. DeviceIsn + i \in Nat /\ DeviceIsn + i < 2 * SeqMod
  BY <1>1
<1>3. at(i) = IF DeviceIsn + i < SeqMod THEN DeviceIsn + i ELSE (DeviceIsn + i) - SeqMod
  BY <1>2, ModIs DEF at, plus
<1>. QED
  BY <1>1, <1>3 DEF SeqNum

\* Subtraction of sequence numbers, without the modulo.
LEMMA MinusIs ==
  ASSUME NEW a \in SeqNum, NEW b \in SeqNum
  PROVE  minus(a, b) = IF b <= a THEN a - b ELSE (a + SeqMod) - b
<1>1. a \in Nat /\ b \in Nat /\ a < SeqMod /\ b < SeqMod /\ SeqMod \in Nat
  BY SizesAssumption DEF SeqNum
<1>2. (a + SeqMod) - b \in Nat /\ (a + SeqMod) - b < 2 * SeqMod
  BY <1>1
<1>3. minus(a, b) = IF (a + SeqMod) - b < SeqMod THEN (a + SeqMod) - b ELSE ((a + SeqMod) - b) - SeqMod
  BY <1>2, ModIs DEF minus
<1>. QED
  BY <1>1, <1>3

\* Offsets less than the sequence space stand for one sequence number each.
LEMMA Offsets ==
  ASSUME NEW i \in Nat, i < SeqMod
  PROVE  /\ minus(at(i), DeviceIsn) = i
         /\ \A k \in Nat : k < SeqMod /\ at(k) = at(i) => k = i
         /\ \A k \in Nat : i + k < SeqMod => plus(at(i), k) = at(i + k)
         /\ \A k \in Nat : k < SeqMod =>
              minus(at(i), at(k)) = IF k <= i THEN i - k ELSE (i + SeqMod) - k
<1>1. DeviceIsn \in Nat /\ DeviceIsn < SeqMod /\ SeqMod \in Nat /\ DeviceIsn \in SeqNum
  BY SizesAssumption, SessionAssumption DEF SeqNum
<1>2. /\ at(i) = IF DeviceIsn + i < SeqMod THEN DeviceIsn + i ELSE (DeviceIsn + i) - SeqMod
      /\ at(i) \in Nat /\ at(i) < SeqMod /\ at(i) \in SeqNum
  BY AtIs
<1>3. minus(at(i), DeviceIsn) = i
  <2>1. minus(at(i), DeviceIsn) = IF DeviceIsn <= at(i) THEN at(i) - DeviceIsn
                                  ELSE (at(i) + SeqMod) - DeviceIsn
    BY <1>1, <1>2, MinusIs
  <2>. QED
    BY <1>1, <1>2, <2>1
<1>4. ASSUME NEW k \in Nat, k < SeqMod
      PROVE  /\ at(k) = at(i) => k = i
             /\ minus(at(i), at(k)) = IF k <= i THEN i - k ELSE (i + SeqMod) - k
  <2>1. /\ at(k) = IF DeviceIsn + k < SeqMod THEN DeviceIsn + k ELSE (DeviceIsn + k) - SeqMod
        /\ at(k) \in Nat /\ at(k) < SeqMod /\ at(k) \in SeqNum
    BY <1>4, AtIs
  <2>2. at(k) = at(i) => k = i
    BY <1>1, <1>2, <1>4, <2>1
  <2>3. minus(at(i), at(k)) = IF at(k) <= at(i) THEN at(i) - at(k) ELSE (at(i) + SeqMod) - at(k)
    BY <1>2, <2>1, MinusIs
  <2>4. minus(at(i), at(k)) = IF k <= i THEN i - k ELSE (i + SeqMod) - k
    BY <1>1, <1>2, <1>4, <2>1, <2>3
  <2>. QED
    BY <2>2, <2>4
<1>5. ASSUME NEW k \in Nat, i + k < SeqMod
      PROVE  plus(at(i), k) = at(i + k)
  <2>1. i + k \in Nat
    OBVIOUS
  <2>2. at(i + k) = IF DeviceIsn + (i + k) < SeqMod THEN DeviceIsn + (i + k)
                    ELSE (DeviceIsn + (i + k)) - SeqMod
    BY <1>5, <2>1, AtIs
  <2>3. at(i) + k \in Nat /\ at(i) + k < 2 * SeqMod
    BY <1>1, <1>2, <1>5
  <2>4. plus(at(i), k) = IF at(i) + k < SeqMod THEN at(i) + k ELSE (at(i) + k) - SeqMod
    BY <2>3, ModIs DEF plus
  <2>. QED
    BY <1>1, <1>2, <1>5, <2>2, <2>4
<1>. QED
  BY <1>3, <1>4, <1>5

\* Every segment has its place, and a segment at an offset is in that place.
LEMMA Places ==
  ASSUME NEW p \in Segment
  PROVE  /\ place(p) \in Nat /\ place(p) < SeqMod /\ p.seq = at(place(p))
         /\ acked(p) \in Nat /\ acked(p) < SeqMod /\ p.ack = at(acked(p))
<1>1. DeviceIsn \in Nat /\ DeviceIsn < SeqMod /\ SeqMod \in Nat /\ DeviceIsn \in SeqNum
      /\ p.seq \in SeqNum /\ p.ack \in SeqNum
  BY SizesAssumption, SessionAssumption DEF SeqNum, Segment
<1>2. ASSUME NEW a \in SeqNum
      PROVE  /\ minus(a, DeviceIsn) \in Nat /\ minus(a, DeviceIsn) < SeqMod
             /\ a = at(minus(a, DeviceIsn))
  <2>1. minus(a, DeviceIsn) = IF DeviceIsn <= a THEN a - DeviceIsn ELSE (a + SeqMod) - DeviceIsn
    BY <1>1, MinusIs
  <2>2. a \in Nat /\ a < SeqMod
    BY <1>1 DEF SeqNum
  <2>. DEFINE k == minus(a, DeviceIsn)
  <2>3. k \in Nat /\ k < SeqMod
    BY <1>1, <2>1, <2>2
  <2>. HIDE DEF k
  <2>4. at(k) = IF DeviceIsn + k < SeqMod THEN DeviceIsn + k ELSE (DeviceIsn + k) - SeqMod
    BY <2>3, AtIs
  <2>5. a = at(k)
    BY <1>1, <2>1, <2>2, <2>3, <2>4 DEF k
  <2>. QED
    BY <2>3, <2>5 DEF k
<1>. QED
  BY <1>1, <1>2 DEF place, acked

\* Every offset of the upload is less than half the sequence space.
LEMMA Small ==
  /\ MaxSent \in Nat /\ SeqMod \in Nat /\ MaxSent + 4 < SeqMod /\ 2 * (MaxSent + 4) <= SeqMod
  /\ NetCap \in Nat
BY SessionAssumption, StreamsAssumption, SizesAssumption

(* What the relay's methods do to the books *)

\* The set of segments a sequence is over may grow.
LEMMA SeqGrows ==
  ASSUME NEW S, NEW T, S \subseteq T, NEW s \in Seq(S)
  PROVE  s \in Seq(T)
OBVIOUS

\* The books only depend on the TCB.
LEMMA BooksSame ==
  ASSUME NEW d, NEW e, NEW n, NEW v, Books(d, n, v), SameTcb(d, e)
  PROVE  Books(e, n, v) /\ (Lost(e) <=> Lost(d))
  BY DEF Books, SameTcb, SameCore, taken, Astray, Lost

\* What is taken, in numbers.
LEMMA TakenType ==
  ASSUME NEW d, Sound(d), NEW n \in Nat, NEW v \in DeviceRecord, Books(d, n, v)
  PROVE  /\ Len(d.toNetwork) \in Nat /\ Len(d.toNetwork) <= NetCap
         /\ taken(d, n) \in Nat /\ taken(d, n) = n + Len(d.toNetwork)
         /\ taken(d, n) <= v.sent /\ v.sent <= MaxSent /\ v.sent \in Nat
         /\ v.fin \in BOOLEAN
<1>1. Len(d.toNetwork) \in Nat /\ Len(d.toNetwork) <= NetCap
  BY LenProperties DEF Sound, Typed, Connection
<1>2. v.sent \in 0 .. MaxSent /\ MaxSent \in Nat /\ v.fin \in BOOLEAN
  BY Small DEF DeviceRecord
<1>. QED
  BY <1>1, <1>2 DEF Books, taken

\* Every segment the relay builds keeps the promise of the window.
LEMMA SegmentPromise ==
  ASSUME NEW d, Sound(d), NEW n \in Nat, NEW v \in DeviceRecord, Books(d, n, v),
         NEW flags \in SUBSET Flag, NEW data \in Seq(Byte),
         d.state # "Init" \/ "RST" \in flags
  PROVE  /\ segment(d, flags, data) \in Promise(v, n)
         /\ (Lost(d) /\ flags # {"SYN", "ACK"}) \/ Astray(d) =>
              segment(d, flags, data) \in WrongSynAck
<1>. DEFINE p == segment(d, flags, data)
<1>1. p \in Segment
  BY SegmentType DEF Sound
<1>2. p.ack = d.ack /\ p.flags = flags /\ p.window = advertised_window(d)
  BY DEF segment
<1>. HIDE DEF p
<1>3. /\ Len(d.toNetwork) \in Nat /\ Len(d.toNetwork) <= NetCap
      /\ taken(d, n) \in Nat /\ taken(d, n) = n + Len(d.toNetwork)
      /\ taken(d, n) <= v.sent /\ v.sent <= MaxSent /\ v.sent \in Nat
  BY TakenType
<1>4. Astray(d) => acked(p) = MaxSent + 3
  <2>1. MaxSent + 3 \in Nat /\ MaxSent + 3 < SeqMod
    BY Small
  <2>. QED
    BY <1>2, <2>1, Offsets DEF Astray, acked
<1>5. ASSUME "RST" \notin flags, ~v.fin, acked(p) <= MaxSent + 2
      PROVE  acked(p) + p.window <= (n + NetCap) + 1
  <2>1. d.state # "LastAck" /\ d.state # "Init"
    BY <1>5 DEF Books
  <2>2. ~Astray(d)
    BY <1>4, <1>5, Small
  <2>3. d.ack = at(taken(d, n) + 1)
    BY <2>1, <2>2 DEF Books
  <2>4. taken(d, n) + 1 \in Nat /\ taken(d, n) + 1 < SeqMod
    BY <1>3, Small
  <2>5. acked(p) = taken(d, n) + 1
    BY <1>2, <2>3, <2>4, Offsets DEF acked
  <2>6. advertised_window(d) <= NetCap - Len(d.toNetwork) /\ advertised_window(d) \in Nat
    <3>1. NetCap - Len(d.toNetwork) \in Nat /\ MaxWindow \in Nat
      BY <1>3, Small, SizesAssumption
    <3>. QED
      BY <3>1 DEF advertised_window, smaller
  <2>7. acked(p) + p.window <= (taken(d, n) + 1) + (NetCap - Len(d.toNetwork))
    BY <1>2, <1>3, <2>5, <2>6, Small
  <2>. QED
    BY <1>3, <2>5, <2>7, Small
<1>6. p \in Promise(v, n)
  BY <1>1, <1>2, <1>5 DEF Promise
<1>7. ASSUME (Lost(d) /\ flags # {"SYN", "ACK"}) \/ Astray(d)
      PROVE  ~is_syn_ack(p)
  <2>1. Astray(d) => acked(p) # 1
    BY <1>4, Small
  <2>. QED
    BY <1>2, <1>7, <2>1 DEF is_syn_ack
<1>. QED
  BY <1>1, <1>6, <1>7 DEF WrongSynAck, p

\* A control segment.
LEMMA KeptSend ==
  ASSUME NEW d, NEW n \in Nat, NEW v \in DeviceRecord, Kept(d, n, v),
         NEW flags \in SUBSET Flag,
         d.state # "Init" \/ "RST" \in flags,
         Lost(d) => flags # {"SYN", "ACK"} \/ Astray(d)
  PROVE  Kept(send_empty(d, flags), n, v) /\ SameTcb(d, send_empty(d, flags))
<1>. DEFINE p == segment(d, flags, << >>)
            e == send_empty(d, flags)
            q == [p EXCEPT !.data = d.deferred[1].data]
<1>0. Sound(d) /\ Typed(d) /\ Books(d, n, v)
  BY DEF Kept, Sound
<1>1. Answered(d, e, p)
  BY <1>0, SendEmptyAnswers
<1>2. p \in Segment /\ p \in Promise(v, n) /\ (Lost(d) => p \in WrongSynAck)
  <2>1. << >> \in Seq(Byte)
    OBVIOUS
  <2>. QED
    BY <1>0, <2>1, SegmentPromise, SegmentType
<1>3. Sound(e)
  BY <1>0, PreservesSend DEF Preserves
<1>. HIDE DEF p, e
<1>4. SameTcb(d, e) /\ Books(e, n, v) /\ (Lost(e) <=> Lost(d))
  BY <1>0, <1>1, BooksSame DEF Answered
<1>5. e.buffer \in Seq(Promise(v, n)) /\ (Lost(e) => e.buffer \in Seq(WrongSynAck))
  <2>1. d.buffer \in Seq(Promise(v, n)) /\ (Lost(d) => d.buffer \in Seq(WrongSynAck))
    BY DEF Kept
  <2>2. Append(d.buffer, p) \in Seq(Promise(v, n))
        /\ (Lost(d) => Append(d.buffer, p) \in Seq(WrongSynAck))
    BY <1>2, <2>1, AppendProperties
  <2>. QED
    BY <1>1, <1>4, <2>1, <2>2 DEF Answered
<1>6. e.deferred \in Seq(Promise(v, n))
  <2>1. CASE e.deferred = d.deferred
    BY <2>1 DEF Kept
  <2>2. CASE d.deferred # None /\ e.deferred = Some(q)
    <3>1. d.deferred[1] \in Segment
      BY <1>0, <2>2 DEF Typed, Connection, None
    <3>2. q \in Segment /\ q.flags = p.flags /\ q.ack = p.ack /\ q.window = p.window
      BY <1>2, <3>1 DEF Segment
    <3>. HIDE DEF q
    <3>3. q \in Promise(v, n)
      BY <1>2, <3>2 DEF Promise, acked
    <3>. QED
      BY <2>2, <3>3 DEF Some
  <2>. QED
    BY <1>1, <2>1, <2>2 DEF Answered
<1>. QED
  BY <1>3, <1>4, <1>5, <1>6 DEF Kept, e

\* Changes to the rest of the record.
LEMMA KeptSame ==
  ASSUME NEW d, NEW e, NEW n, NEW v, Kept(d, n, v), Sound(e),
         e.state = d.state, e.ack = d.ack, e.toNetwork = d.toNetwork,
         e.finReceived = d.finReceived, e.buffer = d.buffer, e.deferred = d.deferred
  PROVE  Kept(e, n, v) /\ (Lost(e) <=> Lost(d))
  BY DEF Kept, Books, taken, Astray, Lost

\* close(), with or without a RST.
LEMMA KeptClose ==
  ASSUME NEW d, NEW n \in Nat, NEW v \in DeviceRecord, Kept(d, n, v)
  PROVE  /\ Kept(close(d), n, v) /\ Kept(reset_and_close(d), n, v)
         /\ Lost(close(d)) <=> Lost(d)
         /\ Lost(reset_and_close(d)) <=> Lost(d)
<1>1. ASSUME NEW x, Kept(x, n, v)
      PROVE  Kept(close(x), n, v) /\ (Lost(close(x)) <=> Lost(x))
  <2>1. Sound(x) /\ x \in Connection /\ Sound(close(x))
    BY <1>1, PreservesClose DEF Kept, Sound, Typed, Preserves
  <2>2. /\ close(x).state = x.state /\ close(x).ack = x.ack /\ close(x).toNetwork = x.toNetwork
        /\ close(x).finReceived = x.finReceived /\ close(x).buffer = x.buffer
        /\ close(x).deferred = x.deferred
    BY <2>1 DEF close, Connection
  <2>. QED
    BY <1>1, <2>1, <2>2, KeptSame
<1>. DEFINE s == send_empty(d, {"RST"})
<1>2. Kept(s, n, v) /\ SameTcb(d, s)
  <2>1. {"RST"} \in SUBSET Flag /\ "RST" \in {"RST"} /\ "SYN" \notin {"RST"}
    BY DEF Flag
  <2>2. {"RST"} # {"SYN", "ACK"}
    BY <2>1
  <2>. QED
    BY <2>1, <2>2, KeptSend
<1>3. Lost(s) <=> Lost(d)
  BY <1>2, BooksSame DEF Kept
<1>. HIDE DEF s
<1>. QED
  BY <1>1, <1>2, <1>3 DEF reset_and_close, s

\* What only handle_packet() changes, besides the books.
Trail(d, e) == e.closed = d.closed /\ e.synSeq = d.synSeq

\* do_handle_fin(), once every byte before the FIN is in the socket.
LEMMA KeptFin ==
  ASSUME NEW d, NEW n \in Nat, NEW v \in DeviceRecord, Kept(d, n, v),
         d.state = "Established", d.finReceived, d.toNetwork = << >>
  PROVE  /\ Kept(do_handle_fin(d), n, v) /\ ~Lost(do_handle_fin(d))
         /\ Trail(d, do_handle_fin(d)) /\ do_handle_fin(d).toNetwork = d.toNetwork
<1>. DEFINE k == taken(d, n)
            a == [d EXCEPT !.ack = plus(@, 1)]
            s == send_empty(a, {"FIN", "ACK"})
            e == [s EXCEPT !.finSeq = Some(a.seq), !.seq = plus(@, 1), !.state = "LastAck"]
            p == segment(a, {"FIN", "ACK"}, << >>)
            q == [p EXCEPT !.data = a.deferred[1].data]
<1>0. Sound(d) /\ Typed(d) /\ d \in Connection /\ Books(d, n, v)
  BY DEF Kept, Sound, Typed
<1>1. k \in Nat /\ k <= MaxSent /\ k + 1 < SeqMod /\ (k + 1) + 1 < SeqMod /\ v.fin /\ k = v.sent
  BY <1>0, TakenType, Small DEF Books
<1>2. d.ack = at(k + 1)
  BY <1>0 DEF Books, Astray
<1>. HIDE DEF k
<1>3. plus(d.ack, 1) = at(k + 2) /\ plus(d.ack, 1) \in SeqNum
  <2>1. k + 1 \in Nat /\ (k + 1) + 1 = k + 2
    BY <1>1
  <2>2. plus(at(k + 1), 1) = at((k + 1) + 1)
    BY <1>1, <2>1, Offsets
  <2>. QED
    BY <1>0, <1>2, <2>1, <2>2, NumbersAreNat, PlusType
<1>4. /\ Typed(a) /\ a.state = d.state /\ a.finReceived = d.finReceived /\ a.toNetwork = d.toNetwork
      /\ a.ack = at(k + 2) /\ a.buffer = d.buffer /\ a.deferred = d.deferred
      /\ a.closed = d.closed /\ a.synSeq = d.synSeq
  BY <1>0, <1>3 DEF Typed, Connection
<1>5. do_handle_fin(d) = e
  BY <1>4 DEF do_handle_fin
<1>6. Sound(e)
  BY <1>0, <1>5, DoHandleFin DEF Preserves
<1>. HIDE DEF a
<1>7. Answered(a, s, p) /\ s \in Connection /\ p \in Segment
  <2>1. {"FIN", "ACK"} \in SUBSET Flag /\ << >> \in Seq(Byte)
    BY DEF Flag
  <2>. QED
    BY <1>4, <2>1, SendEmptyAnswers, SendEmpty, SegmentType DEF Typed
<1>. HIDE DEF s, p
<1>8. /\ e.state = "LastAck" /\ e.ack = at(k + 2) /\ e.toNetwork = << >> /\ e.finReceived
      /\ e.buffer = s.buffer /\ e.deferred = s.deferred /\ Trail(d, e)
  BY <1>4, <1>7 DEF Answered, SameTcb, SameCore, Connection, Trail
<1>. HIDE DEF e
<1>9. Books(e, n, v) /\ ~Lost(e)
  <2>1. taken(e, n) = taken(d, n)
    BY <1>8 DEF taken
  <2>. QED
    BY <1>0, <1>1, <1>8, <2>1 DEF Books, Lost, Opening, Astray, is_connected, k
<1>10. e.buffer \in Seq(Promise(v, n)) /\ e.deferred \in Seq(Promise(v, n))
  <2>1. \A x \in Segment : x \in Promise(v, n)
    BY <1>1 DEF Promise
  <2>2. e.buffer \in Seq(Segment) /\ e.deferred \in Seq(Segment)
    BY <1>6 DEF Sound, Typed, Connection
  <2>3. Segment \subseteq Promise(v, n)
    BY <2>1
  <2>. QED
    BY <2>2, <2>3, SeqGrows
<1>. QED
  BY <1>5, <1>6, <1>8, <1>9, <1>10 DEF Kept

\* A segment that starts where the acknowledgement is.
InPlace(d, n, p) == place(p) = taken(d, n) + (IF d.state = "LastAck" THEN 2 ELSE 1)

\* Where the expected segment is.
LEMMA ExpectedPlace ==
  ASSUME NEW d, NEW n \in Nat, NEW v \in DeviceRecord, Kept(d, n, v), d.state # "Init",
         NEW p \in UpSegment(v), p.seq = d.ack
  PROVE  /\ ~Astray(d) /\ InPlace(d, n, p)
         /\ d.state = "LastAck" => ~carries(p)
<1>1. p \in Segment /\ place(p) <= MaxSent + 2
  BY DEF UpSegment
<1>2. /\ taken(d, n) \in Nat /\ taken(d, n) <= v.sent /\ v.sent <= MaxSent /\ v.sent \in Nat
      /\ Sound(d) /\ Books(d, n, v)
  BY TakenType DEF Kept
<1>3. place(p) \in Nat /\ place(p) < SeqMod /\ p.seq = at(place(p))
  BY <1>1, Places
<1>4. ~Astray(d)
  <2>1. MaxSent + 3 \in Nat /\ MaxSent + 3 < SeqMod /\ place(p) # MaxSent + 3
    BY <1>1, <1>3, Small
  <2>2. at(place(p)) # at(MaxSent + 3)
    BY <1>3, <2>1, Offsets
  <2>. QED
    BY <1>3, <2>2 DEF Astray
<1>5. place(p) = taken(d, n) + (IF d.state = "LastAck" THEN 2 ELSE 1)
  <2>. DEFINE k == taken(d, n) + (IF d.state = "LastAck" THEN 2 ELSE 1)
  <2>1. d.ack = at(k)
    BY <1>2, <1>4 DEF Books
  <2>2. k \in Nat /\ k < SeqMod
    BY <1>2, Small
  <2>. HIDE DEF k
  <2>3. place(p) = k
    BY <1>3, <2>1, <2>2, Offsets
  <2>. QED
    BY <2>3 DEF k
<1>6. ASSUME d.state = "LastAck", carries(p)
      PROVE  FALSE
  <2>1. place(p) + Len(p.data) <= v.sent + 1 /\ Len(p.data) \in Nat
    BY <1>1, <1>6, LenProperties DEF UpSegment, Segment
  <2>2. taken(d, n) = v.sent
    BY <1>2, <1>6 DEF Books
  <2>. QED
    BY <1>2, <1>3, <1>5, <1>6, <2>1, <2>2
<1>. QED
  BY <1>4, <1>5, <1>6 DEF InPlace

\* A buffer with room.
LEMMA RoomLeft ==
  ASSUME NEW n \in Nat, NEW l \in Nat, NEW k \in Nat, (n + l) + k <= n + NetCap
  PROVE  k <= NetCap - l /\ ~(NetCap - l < k)
BY Small

\* The places of the bytes of two strings, one after the other.
LEMMA Second ==
  ASSUME NEW n \in Nat, NEW l \in Nat, NEW k \in Nat, NEW i \in 1 .. (l + k), ~(i <= l)
  PROVE  i - l \in 1 .. k /\ (((n + l) + 1) + (i - l)) - 1 = n + i
OBVIOUS

\* The bytes of two strings, one after the other.
LEMMA Joined ==
  ASSUME NEW S, NEW s \in Seq(S), NEW t \in Seq(S)
  PROVE  /\ s \o t \in Seq(S) /\ Len(s \o t) = Len(s) + Len(t)
         /\ \A i \in 1 .. Len(s \o t) :
              (s \o t)[i] = IF i <= Len(s) THEN s[i] ELSE t[i - Len(s)]
BY ConcatProperties

\* handle_ack() on the expected segment.
LEMMA KeptAck ==
  ASSUME NEW d, NEW n \in Nat, NEW v \in DeviceRecord, Kept(d, n, v),
         NEW p \in UpSegment(v), Within(v, n),
         ~Astray(d), d.state # "Init", InPlace(d, n, p),
         d.state # "Established" => ~carries(p)
  PROVE  /\ Kept(handle_ack(d, p), n, v)
         /\ handle_ack(d, p).state = (IF d.state = "SynReceived" THEN "Established" ELSE d.state)
         /\ taken(handle_ack(d, p), n) = taken(d, n) + Len(p.data)
         /\ Trail(d, handle_ack(d, p))
<1>1. p \in Segment /\ p.data \in Seq(Byte) /\ (p.data = << >> => Len(p.data) = 0)
  BY DEF UpSegment, Segment
<1>2. Sound(d) /\ Books(d, n, v) /\ d \in Connection
  BY DEF Kept, Sound, Typed
<1>n. /\ Len(d.toNetwork) \in Nat /\ taken(d, n) \in Nat /\ v.sent \in Nat
      /\ Len(p.data) \in Nat
  BY <1>1, <1>2, TakenType, LenProperties
<1>t. taken(d, n) = n + Len(d.toNetwork)
  BY <1>2, TakenType
<1>s. taken(d, n) <= v.sent /\ v.sent <= MaxSent
  BY <1>2, TakenType
<1>3. CASE d.state = "SynReceived"
  <2>. DEFINE e == [d EXCEPT !.state = "Established"]
  <2>1. handle_ack(d, p) = e
    BY <1>3 DEF handle_ack
  <2>2. Sound(e)
    BY <1>2, <1>1, <2>1, HandleAck DEF Preserves
  <2>3. /\ e.state = "Established" /\ e.ack = d.ack /\ e.toNetwork = d.toNetwork
        /\ e.finReceived = d.finReceived /\ e.buffer = d.buffer /\ e.deferred = d.deferred
        /\ Trail(d, e)
    BY <1>2 DEF Connection, Trail
  <2>4. p.data = << >>
    BY <1>3 DEF carries
  <2>. HIDE DEF e
  <2>5. taken(e, n) = taken(d, n)
    BY <2>3 DEF taken
  <2>6. Books(e, n, v) /\ ~Lost(e)
    BY <1>2, <1>3, <2>3, <2>5 DEF Books, Lost, Opening, Astray, is_connected
  <2>7. Kept(e, n, v)
    BY <2>2, <2>3, <2>6 DEF Kept
  <2>. QED
    BY <1>1, <1>n, <1>3, <2>1, <2>3, <2>4, <2>5, <2>7
<1>4. CASE d.state # "SynReceived" /\ p.data = << >>
  BY <1>1, <1>n, <1>4 DEF handle_ack, Trail
<1>5. CASE d.state # "SynReceived" /\ p.data # << >>
  <2>1. d.state = "Established" /\ place(p) = taken(d, n) + 1
    BY <1>5 DEF carries, InPlace
  <2>2. /\ place(p) + Len(p.data) <= v.sent + 1 /\ Len(p.data) >= 1
    BY <1>1, <1>5, EmptySeq DEF UpSegment, carries
  <2>a. \A i \in 1 .. Len(p.data) : p.data[i] = (place(p) + i) - 1
    BY <1>5 DEF UpSegment, carries
  <2>3. taken(d, n) + Len(p.data) <= v.sent /\ taken(d, n) # v.sent
    BY <1>n, <2>1, <2>2
  <2>4. Len(p.data) <= NetCap - Len(d.toNetwork) /\ ~(NetCap - Len(d.toNetwork) < Len(p.data))
    <3>1. (n + Len(d.toNetwork)) + Len(p.data) <= n + NetCap
      <4>1. taken(d, n) + Len(p.data) <= n + NetCap
        BY <1>n, <2>3, Small DEF Within
      <4>. QED
        BY <4>1, <1>t
    <3>. QED
      BY <1>n, <3>1, RoomLeft
  <2>. DEFINE b == d.toNetwork \o p.data
              a == [d EXCEPT !.toNetwork = @ \o p.data, !.ack = plus(@, Len(p.data))]
  <2>6. handle_ack(d, p) = send_empty(a, {"ACK"})
    BY <1>5, <2>4 DEF handle_ack
  <2>7. Sound(a)
    BY <1>1, <1>2, <2>4, AcceptPayload DEF Preserves
  <2>8. /\ a.state = "Established" /\ a.ack = plus(d.ack, Len(p.data)) /\ a.toNetwork = b
        /\ a.finReceived = d.finReceived /\ a.buffer = d.buffer /\ a.deferred = d.deferred
        /\ Trail(d, a)
    BY <1>2, <2>1 DEF Connection, Trail
  <2>. HIDE DEF a
  <2>9. /\ Len(b) = Len(d.toNetwork) + Len(p.data)
        /\ \A i \in 1 .. Len(b) : b[i] = IF i <= Len(d.toNetwork) THEN d.toNetwork[i]
                                         ELSE p.data[i - Len(d.toNetwork)]
    BY <1>1, <1>2, ConcatProperties DEF Connection
  <2>. HIDE DEF b
  <2>10. \A i \in 1 .. Len(b) : b[i] = n + i
    <3>. SUFFICES ASSUME NEW i \in 1 .. Len(b)
                  PROVE  b[i] = n + i
      OBVIOUS
    <3>1. CASE i <= Len(d.toNetwork)
      <4>1. i \in 1 .. Len(d.toNetwork)
        BY <1>n, <2>9, <3>1
      <4>. QED
        BY <1>2, <2>9, <3>1, <4>1 DEF Books
    <3>2. CASE ~(i <= Len(d.toNetwork))
      <4>1. i \in 1 .. (Len(d.toNetwork) + Len(p.data))
        BY <2>9
      <4>2. /\ i - Len(d.toNetwork) \in 1 .. Len(p.data)
            /\ (((n + Len(d.toNetwork)) + 1) + (i - Len(d.toNetwork))) - 1 = n + i
        <5>. DEFINE l == Len(d.toNetwork)
                    k == Len(p.data)
        <5>1. l \in Nat /\ k \in Nat /\ i \in 1 .. (l + k) /\ ~(i <= l)
          BY <1>n, <3>2, <4>1
        <5>. HIDE DEF l, k
        <5>2. i - l \in 1 .. k /\ (((n + l) + 1) + (i - l)) - 1 = n + i
          BY <5>1
        <5>. QED
          BY <5>2 DEF l, k
      <4>3. b[i] = (place(p) + (i - Len(d.toNetwork))) - 1
        BY <2>a, <2>9, <3>2, <4>2
      <4>4. place(p) = (n + Len(d.toNetwork)) + 1
        BY <1>t, <2>1
      <4>. QED
        BY <4>2, <4>3, <4>4
    <3>. QED
      BY <3>1, <3>2
  <2>11. taken(a, n) = taken(d, n) + Len(p.data)
    <3>1. taken(a, n) = n + Len(b)
      BY <2>8 DEF taken
    <3>2. Len(b) = Len(d.toNetwork) + Len(p.data)
      BY <2>9
    <3>3. \A l, k \in Nat : n + (l + k) = (n + l) + k
      OBVIOUS
    <3>. QED
      <4>1. n + (Len(d.toNetwork) + Len(p.data)) = (n + Len(d.toNetwork)) + Len(p.data)
        BY <1>n, <3>3, Zenon
      <4>2. taken(a, n) = n + (Len(d.toNetwork) + Len(p.data))
        BY <3>1, <3>2, Zenon
      <4>. QED
        BY <1>t, <4>1, <4>2, Zenon
  <2>12. ~d.finReceived
    BY <1>2, <2>3 DEF Books
  <2>13. a.ack = at(taken(a, n) + 1)
    <3>1. d.ack = at(taken(d, n) + 1)
      BY <1>2, <2>1 DEF Books, Astray
    <3>. DEFINE k == taken(d, n) + 1
    <3>2. /\ k \in Nat /\ k < SeqMod /\ k + Len(p.data) < SeqMod
          /\ taken(a, n) + 1 = k + Len(p.data)
      <4>1. \A x, l, y \in Nat : x <= y /\ x + l <= y /\ y <= MaxSent =>
              /\ x + 1 \in Nat /\ x + 1 < SeqMod /\ (x + 1) + l < SeqMod
              /\ (x + l) + 1 = (x + 1) + l
        BY Small
      <4>2. /\ taken(d, n) <= v.sent /\ v.sent <= MaxSent /\ taken(d, n) + Len(p.data) <= v.sent
            /\ taken(a, n) = taken(d, n) + Len(p.data)
        BY <1>s, <2>3, <2>11
      <4>. QED
        BY <1>n, <4>1, <4>2, Zenon
    <3>3. d.ack = at(k)
      BY <3>1
    <3>. HIDE DEF k
    <3>4. plus(at(k), Len(p.data)) = at(k + Len(p.data))
      BY <1>n, <3>2, Offsets
    <3>. QED
      BY <2>8, <3>2, <3>3, <3>4
  <2>14. Books(a, n, v)
    BY <2>3, <2>8, <2>10, <2>11, <2>12, <2>13 DEF Books, is_connected
  <2>15. ~Lost(a)
    BY <2>8 DEF Lost, Opening, Astray
  <2>16. Kept(a, n, v)
    BY <2>7, <2>8, <2>14, <2>15 DEF Kept
  <2>17. {"ACK"} \in SUBSET Flag
    BY DEF Flag
  <2>18. Kept(send_empty(a, {"ACK"}), n, v) /\ SameTcb(a, send_empty(a, {"ACK"}))
    BY <2>8, <2>15, <2>16, <2>17, KeptSend
  <2>. QED
    BY <2>1, <2>6, <2>8, <2>11, <2>18 DEF SameTcb, SameCore, taken, Trail
<1>. QED
  BY <1>3, <1>4, <1>5

\* The window and the acknowledgement of the device are not in the books.
LEMMA KeptUpdated ==
  ASSUME NEW d, NEW n, NEW v, Kept(d, n, v), NEW p \in Segment
  PROVE  LET u == updated(d, p)
         IN  /\ Kept(u, n, v) /\ (Lost(u) <=> Lost(d)) /\ (Astray(u) <=> Astray(d))
             /\ u.state = d.state /\ u.toNetwork = d.toNetwork /\ u.finReceived = d.finReceived
             /\ Trail(d, u)
<1>. DEFINE u == updated(d, p)
<1>1. Sound(d) /\ d \in Connection /\ p.window \in Window /\ p.ack \in SeqNum
  BY DEF Kept, Sound, Typed, Segment
<1>2. /\ u \in Connection /\ u.state = d.state /\ u.ack = d.ack /\ u.toNetwork = d.toNetwork
      /\ u.finReceived = d.finReceived /\ u.buffer = d.buffer /\ u.deferred = d.deferred
      /\ u.finSeq = d.finSeq /\ Trail(d, u)
  BY <1>1 DEF updated, Connection, Trail
<1>. HIDE DEF u
<1>3. Sound(u)
  BY <1>1, <1>2 DEF Sound, Typed, FinMatches
<1>4. Kept(u, n, v) /\ (Lost(u) <=> Lost(d))
  BY <1>2, <1>3, KeptSame
<1>5. Astray(u) <=> Astray(d)
  BY <1>2 DEF Astray
<1>. QED
  BY <1>2, <1>4, <1>5 DEF u

\* handle_fin(), after the payload that came with the FIN.
LEMMA KeptHandleFin ==
  ASSUME NEW d, NEW n \in Nat, NEW v \in DeviceRecord, Kept(d, n, v),
         d.state = "Established", v.fin, taken(d, n) = v.sent
  PROVE  /\ Kept(handle_fin(d), n, v) /\ handle_fin(d).state \in {"Established", "LastAck"}
         /\ Trail(d, handle_fin(d)) /\ taken(handle_fin(d), n) = v.sent
<1>. DEFINE g == [d EXCEPT !.finReceived = TRUE]
<1>1. Sound(d) /\ Typed(d) /\ d \in Connection /\ Books(d, n, v)
  BY DEF Kept, Sound, Typed
<1>2. /\ g \in Connection /\ g.state = d.state /\ g.ack = d.ack /\ g.toNetwork = d.toNetwork
      /\ g.finReceived /\ g.buffer = d.buffer /\ g.deferred = d.deferred /\ g.finSeq = d.finSeq
      /\ Trail(d, g)
  BY <1>1 DEF Connection, Trail
<1>3. handle_fin(d) = IF d.toNetwork = << >> THEN do_handle_fin(g) ELSE g
  BY DEF handle_fin
<1>. HIDE DEF g
<1>4. Sound(g)
  BY <1>1, <1>2 DEF Sound, Typed, FinMatches
<1>5. taken(g, n) = taken(d, n)
  BY <1>2 DEF taken
<1>6. Books(g, n, v) /\ ~Lost(g)
  BY <1>1, <1>2, <1>5 DEF Books, is_connected, Astray, Lost, Opening
<1>7. Kept(g, n, v)
  BY <1>2, <1>4, <1>6 DEF Kept
<1>8. CASE d.toNetwork = << >>
  <2>1. /\ Kept(do_handle_fin(g), n, v) /\ ~Lost(do_handle_fin(g))
        /\ Trail(g, do_handle_fin(g)) /\ do_handle_fin(g).toNetwork = g.toNetwork
    BY <1>2, <1>7, <1>8, KeptFin
  <2>2. Preserves(g, do_handle_fin(g))
    BY <1>4, DoHandleFin
  <2>3. do_handle_fin(g).state \in {"Established", "LastAck"}
    BY <1>2, <2>1, <2>2 DEF Kept, Books, Preserves, onward, Later, States
  <2>4. Trail(d, do_handle_fin(g)) /\ taken(do_handle_fin(g), n) = v.sent
    BY <1>2, <1>5, <2>1 DEF Trail, taken
  <2>. QED
    BY <1>3, <1>8, <2>1, <2>3, <2>4
<1>9. CASE d.toNetwork # << >>
  BY <1>2, <1>3, <1>5, <1>7, <1>9
<1>. QED
  BY <1>8, <1>9

\* handle_packet() on the expected segment.
LEMMA KeptExpected ==
  ASSUME NEW d, NEW n \in Nat, NEW v \in DeviceRecord, Kept(d, n, v), d.state # "Init",
         NEW p \in UpSegment(v), Within(v, n), p.seq = d.ack,
         ~is_connected(d.state) => ~carries(p)
  PROVE  LET e == handle_expected(d, p)
         IN  /\ Kept(e, n, v) /\ (Lost(e) => Lost(d))
             /\ e.state = "SynReceived" => d.state = "SynReceived" /\ p.flags # {"ACK"}
             /\ taken(e, n) = taken(d, n) + Len(p.data) /\ e.synSeq = d.synSeq
             /\ e.closed => d.closed \/ "RST" \in p.flags \/ (v.fin /\ taken(e, n) = v.sent)
<1>. DEFINE u == updated(d, p)
            a == after_ack(u, p)
            f == after_fin(a, p)
            g == after_fin_ack(f, p)
<1>1. p \in Segment /\ p.data \in Seq(Byte)
  BY DEF UpSegment, Segment
<1>2. /\ Kept(u, n, v) /\ (Lost(u) <=> Lost(d)) /\ (Astray(u) <=> Astray(d))
      /\ u.state = d.state /\ u.toNetwork = d.toNetwork /\ u.finReceived = d.finReceived
      /\ Trail(d, u)
  BY <1>1, KeptUpdated
<1>3. ~Astray(d) /\ InPlace(d, n, p) /\ (d.state = "LastAck" => ~carries(p))
  BY ExpectedPlace
<1>4. handle_expected(d, p) = IF "RST" \in p.flags THEN close(u) ELSE g
  BY DEF handle_expected
<1>. HIDE DEF u
<1>5. CASE "RST" \in p.flags
  <2>1. Kept(close(u), n, v) /\ (Lost(close(u)) <=> Lost(u))
    BY <1>2, KeptClose
  <2>2. close(u).state = u.state /\ close(u).toNetwork = u.toNetwork /\ close(u).synSeq = u.synSeq
    BY <1>2 DEF close, Kept, Sound, Typed, Connection
  <2>3. p.flags # {"ACK"}
    BY <1>5
  <2>4. taken(close(u), n) = taken(d, n) + Len(p.data)
    <3>1. Len(p.data) = 0
      BY <1>5 DEF UpSegment, carries
    <3>2. taken(d, n) \in Nat /\ taken(close(u), n) = taken(d, n)
      BY <1>2, <2>2, TakenType DEF Kept, taken
    <3>. QED
      BY <3>1, <3>2
  <2>. QED
    BY <1>2, <1>4, <1>5, <2>1, <2>2, <2>3, <2>4 DEF Trail
<1>6. CASE "RST" \notin p.flags
  <2>1. InPlace(u, n, p) /\ u.state # "Init" /\ taken(u, n) = taken(d, n) /\ ~Astray(u)
    BY <1>2, <1>3 DEF InPlace, taken
  <2>2. d.state \in {"SynSent", "SynReceived", "Established", "LastAck"}
    BY DEF Kept, Books
  <2>3. d.state # "Established" => ~carries(p)
    BY <1>3, <2>2 DEF is_connected
  <2>4. /\ Kept(a, n, v) /\ a.state \in {d.state, "Established"}
        /\ taken(a, n) = taken(d, n) + Len(p.data)
        /\ a.state = "SynReceived" => p.flags # {"ACK"}
        /\ Lost(a) => Lost(d)
        /\ Trail(d, a)
    <3>1. CASE "ACK" \in p.flags
      <4>1. a = handle_ack(u, p)
        BY <3>1 DEF after_ack
      <4>2. /\ Kept(handle_ack(u, p), n, v)
            /\ handle_ack(u, p).state = (IF u.state = "SynReceived" THEN "Established" ELSE u.state)
            /\ taken(handle_ack(u, p), n) = taken(u, n) + Len(p.data)
            /\ Trail(u, handle_ack(u, p))
        BY <1>2, <2>1, <2>3, KeptAck
      <4>. HIDE DEF a
      <4>3. a.state # "SynReceived" /\ a.state \in {d.state, "Established"}
        BY <1>2, <4>1, <4>2
      <4>4. Lost(a) => Lost(d)
        BY <2>2, <4>3 DEF Lost, Astray, Opening
      <4>. QED
        BY <1>2, <2>1, <4>1, <4>2, <4>3, <4>4 DEF Trail
    <3>2. CASE "ACK" \notin p.flags
      <4>1. a = u
        BY <3>2 DEF after_ack
      <4>2. p.data = << >> /\ p.flags # {"ACK"}
        BY <3>2 DEF UpSegment, carries
      <4>3. taken(d, n) \in Nat /\ Len(p.data) = 0
        BY <4>2, TakenType DEF Kept
      <4>4. taken(d, n) = taken(d, n) + Len(p.data)
        BY <4>3
      <4>. QED
        BY <1>2, <2>1, <4>1, <4>2, <4>4
    <3>. QED
      BY <3>1, <3>2
  <2>. HIDE DEF a
  <2>5. /\ Kept(f, n, v) /\ (Lost(f) => Lost(d))
        /\ f.state = "SynReceived" => d.state = "SynReceived" /\ p.flags # {"ACK"}
        /\ taken(f, n) = taken(d, n) + Len(p.data) /\ Trail(d, f)
    <3>1. CASE "FIN" \in p.flags
      <4>1. carries(p) /\ d.state = "Established" /\ a.state = "Established"
        BY <2>3, <2>4, <3>1 DEF carries
      <4>2. v.fin /\ place(p) + Len(p.data) = v.sent + 1
        BY <3>1 DEF UpSegment
      <4>3. place(p) = taken(d, n) + 1
        BY <1>3, <4>1 DEF InPlace
      <4>4. taken(d, n) \in Nat /\ v.sent \in Nat /\ Len(p.data) \in Nat
        BY <1>1, LenProperties, TakenType DEF Kept
      <4>5. taken(a, n) = v.sent /\ taken(d, n) + Len(p.data) = v.sent
        <5>1. taken(d, n) + Len(p.data) = v.sent
          BY <4>2, <4>3, <4>4
        <5>. QED
          BY <2>4, <5>1
      <4>6. /\ Kept(handle_fin(a), n, v) /\ handle_fin(a).state \in {"Established", "LastAck"}
            /\ Trail(a, handle_fin(a)) /\ taken(handle_fin(a), n) = v.sent
        BY <2>4, <4>1, <4>2, <4>5, KeptHandleFin
      <4>7. f = handle_fin(a)
        BY <3>1 DEF after_fin
      <4>. QED
        BY <2>4, <4>5, <4>6, <4>7 DEF Lost, Opening, Astray, Trail
    <3>2. CASE "FIN" \notin p.flags
      <4>1. f = a
        BY <3>2 DEF after_fin
      <4>. QED
        BY <2>4, <4>1
    <3>. QED
      BY <3>1, <3>2
  <2>. HIDE DEF f
  <2>6. g = f \/ (g = close(f) /\ v.fin /\ taken(f, n) = v.sent)
    <3>1. f.state # "FinWait1" /\ f.state # "Closing"
      BY <2>5 DEF Kept, Books
    <3>2. f.state = "LastAck" => v.fin /\ taken(f, n) = v.sent
      BY <2>5 DEF Kept, Books
    <3>. QED
      BY <3>1, <3>2 DEF after_fin_ack, handle_fin_ack
  <2>7. Kept(close(f), n, v) /\ (Lost(close(f)) <=> Lost(f))
    BY <2>5, KeptClose
  <2>8. /\ close(f).state = f.state /\ close(f).toNetwork = f.toNetwork
        /\ close(f).synSeq = f.synSeq /\ taken(close(f), n) = taken(f, n)
    BY <2>5 DEF close, Kept, Sound, Typed, Connection, taken
  <2>. HIDE DEF g
  <2>. QED
    BY <1>4, <1>6, <2>5, <2>6, <2>7, <2>8 DEF Trail
<1>. QED
  BY <1>5, <1>6

\* A SYN, in Init or again while the socket is connecting.
LEMMA KeptSyn ==
  ASSUME NEW d, NEW e, NEW n \in Nat, NEW v \in DeviceRecord, Kept(d, n, v), Opening(d.state),
         NEW p \in UpSegment(v), "SYN" \in p.flags,
         Sound(e), e.state = "SynSent", e.ack = plus(p.seq, 1), e.toNetwork = d.toNetwork,
         e.finReceived = d.finReceived, e.buffer = d.buffer, e.deferred = d.deferred
  PROVE  Kept(e, n, v)
<1>1. p \in Segment /\ (place(p) = 0 \/ (Failures /\ place(p) = MaxSent + 2))
  BY DEF UpSegment
<1>2. p.seq = at(place(p))
  BY <1>1, Places
<1>3. Books(d, n, v) /\ taken(e, n) = taken(d, n) /\ taken(d, n) = 0 /\ ~e.finReceived
  BY DEF Kept, Books, Opening, is_connected, taken
<1>4. e.ack = at(1) \/ (Failures /\ e.ack = at(MaxSent + 3))
  <2>1. 1 < SeqMod /\ 0 < SeqMod /\ MaxSent + 2 \in Nat /\ MaxSent + 2 < SeqMod
        /\ (MaxSent + 2) + 1 < SeqMod /\ (MaxSent + 2) + 1 = MaxSent + 3 /\ 0 + 1 = 1
    BY Small
  <2>2. plus(at(0), 1) = at(1)
    <3>1. plus(at(0), 1) = at(0 + 1)
      BY <2>1, Offsets
    <3>. QED
      BY <2>1, <3>1
  <2>3. plus(at(MaxSent + 2), 1) = at(MaxSent + 3)
    <3>1. plus(at(MaxSent + 2), 1) = at((MaxSent + 2) + 1)
      BY <2>1, Offsets
    <3>. QED
      BY <2>1, <3>1
  <2>. QED
    BY <1>1, <1>2, <2>2, <2>3
<1>5. Books(e, n, v)
  <2>1. at(taken(e, n) + 1) = at(1)
    <3>1. 0 + 1 = 1
      OBVIOUS
    <3>. QED
      BY <1>3, <3>1
  <2>2. e.state # "LastAck" /\ ~is_connected(e.state)
    BY DEF is_connected
  <2>3. e.ack = at(taken(e, n) + 1) \/ Astray(e)
    BY <1>4, <2>1 DEF Astray
  <2>. QED
    BY <1>3, <2>2, <2>3 DEF Books
<1>. QED
  BY <1>5 DEF Kept, Lost

\* handle_packet().
LEMMA KeptPacket ==
  ASSUME NEW d, NEW n \in Nat, NEW v \in DeviceRecord, Kept(d, n, v),
         NEW p \in UpSegment(v), NEW isn \in SeqNum, Within(v, n),
         ~is_connected(d.state) => ~carries(p)
  PROVE  LET e == handle_packet(d, p, isn)
         IN  /\ Kept(e, n, v) /\ (Lost(e) => Lost(d))
             /\ e.state = "SynReceived" =>
                  d.state = "SynReceived" /\ ~(p.flags = {"ACK"} /\ p.seq = d.ack)
<1>. DEFINE e == handle_packet(d, p, isn)
            f == [d EXCEPT !.ack = plus(p.seq, 1), !.synSeq = p.seq, !.seq = isn,
                           !.window = p.window, !.state = "SynSent"]
            g == [d EXCEPT !.synSeq = p.seq, !.ack = plus(p.seq, 1)]
            s == [d EXCEPT !.seq = p.ack]
<1>1. Sound(d) /\ Typed(d) /\ d \in Connection /\ p \in Segment
      /\ p.window \in Window /\ p.ack \in SeqNum /\ p.seq \in SeqNum
  BY DEF Kept, Sound, Typed, UpSegment, Segment
<1>2. Sound(e)
  BY <1>1, HandlePacket DEF Preserves
<1>3. ASSUME NEW x, Kept(x, n, v)
      PROVE  /\ Kept(reset_and_close(x), n, v) /\ (Lost(reset_and_close(x)) <=> Lost(x))
             /\ reset_and_close(x).state = x.state
  <2>1. Kept(reset_and_close(x), n, v) /\ (Lost(reset_and_close(x)) <=> Lost(x))
    BY <1>3, KeptClose
  <2>2. {"RST"} \in SUBSET Flag /\ Typed(x)
    BY <1>3 DEF Flag, Kept, Sound
  <2>3. SameCore(x, send_empty(x, {"RST"})) /\ Typed(send_empty(x, {"RST"}))
    BY <2>2, SendEmpty
  <2>. QED
    BY <2>1, <2>3 DEF reset_and_close, close, SameCore, Typed, Connection
<1>4. CASE d.state = "Init" /\ "SYN" \in p.flags
  <2>1. e = f
    BY <1>4 DEF handle_packet, handle_first_packet
  <2>2. /\ f.state = "SynSent" /\ f.ack = plus(p.seq, 1) /\ f.toNetwork = d.toNetwork
        /\ f.finReceived = d.finReceived /\ f.buffer = d.buffer /\ f.deferred = d.deferred
    BY <1>1 DEF Connection
  <2>. HIDE DEF f, e
  <2>3. Opening(d.state)
    BY <1>4 DEF Opening
  <2>4. Kept(f, n, v)
    BY <1>2, <1>4, <2>1, <2>2, <2>3, KeptSyn
  <2>. QED
    BY <2>1, <2>2, <2>3, <2>4 DEF Lost, e
<1>5. CASE d.state = "Init" /\ "SYN" \notin p.flags
  <2>1. e = reset_and_close(s)
    BY <1>5 DEF handle_packet, handle_first_packet, reset_and_close
  <2>2. /\ Sound(s) /\ s.state = d.state /\ s.ack = d.ack /\ s.toNetwork = d.toNetwork
        /\ s.finReceived = d.finReceived /\ s.buffer = d.buffer /\ s.deferred = d.deferred
    BY <1>1, PreservesSeq DEF Connection, Preserves
  <2>. HIDE DEF s, e
  <2>3. Kept(s, n, v) /\ (Lost(s) <=> Lost(d))
    BY <2>2, KeptSame
  <2>. QED
    BY <1>3, <1>5, <2>1, <2>2, <2>3 DEF e
<1>6. CASE d.state # "Init" /\ "SYN" \in p.flags
  <2>0. p.flags # {"ACK"}
    BY <1>6
  <2>1. CASE d.state = "SynSent"
    <3>1. e = g
      BY <1>6, <2>1 DEF handle_packet, handle_duplicate_syn
    <3>2. /\ g.state = "SynSent" /\ g.ack = plus(p.seq, 1) /\ g.toNetwork = d.toNetwork
          /\ g.finReceived = d.finReceived /\ g.buffer = d.buffer /\ g.deferred = d.deferred
      BY <1>1, <2>1 DEF Connection
    <3>. HIDE DEF g, e
    <3>3. Opening(d.state)
      BY <2>1 DEF Opening
    <3>4. Kept(g, n, v)
      BY <1>2, <1>6, <3>1, <3>2, <3>3, KeptSyn
    <3>. QED
      BY <3>1, <3>2, <3>3, <3>4 DEF Lost, e
  <2>2. CASE d.state # "SynSent"
    <3>1. e = d \/ e = reset_and_close(d)
      BY <1>6, <2>2 DEF handle_packet, handle_duplicate_syn, reset_and_close
    <3>. HIDE DEF e
    <3>. QED
      BY <1>3, <2>0, <3>1 DEF e
  <2>. QED
    BY <2>1, <2>2
<1>7. CASE d.state # "Init" /\ "SYN" \notin p.flags /\ p.seq = d.ack
  <2>1. e = handle_expected(d, p)
    BY <1>7 DEF handle_packet
  <2>. HIDE DEF e
  <2>2. /\ Kept(e, n, v) /\ (Lost(e) => Lost(d))
        /\ e.state = "SynReceived" => d.state = "SynReceived" /\ p.flags # {"ACK"}
    BY <1>7, <2>1, KeptExpected
  <2>. QED
    BY <2>2 DEF e
<1>8. CASE d.state # "Init" /\ "SYN" \notin p.flags /\ p.seq # d.ack
  <2>1. e = d \/ e = send_empty(d, {"ACK"})
    BY <1>8 DEF handle_packet
  <2>2. {"ACK"} \in SUBSET Flag /\ "SYN" \notin {"ACK"}
    BY DEF Flag
  <2>3. {"ACK"} # {"SYN", "ACK"}
    BY <2>2
  <2>4. Kept(send_empty(d, {"ACK"}), n, v) /\ SameTcb(d, send_empty(d, {"ACK"}))
    BY <1>8, <2>2, <2>3, KeptSend
  <2>. HIDE DEF e
  <2>5. Kept(e, n, v) /\ (Lost(e) <=> Lost(d)) /\ e.state = d.state
    BY <2>1, <2>4, BooksSame DEF Kept, SameTcb, SameCore
  <2>. QED
    BY <1>8, <2>5 DEF e
<1>. QED
  BY <1>4, <1>5, <1>6, <1>7, <1>8

\* A connected connection has answered the device's SYN.
LEMMA NotLost ==
  ASSUME NEW d, is_connected(d.state)
  PROVE  ~Lost(d) /\ ~Astray(d)
BY DEF is_connected, Lost, Opening, Astray

\* A promise made when less was in the socket.
LEMMA PromiseGrows ==
  ASSUME NEW v, NEW n \in Nat, NEW w \in Nat
  PROVE  Promise(v, n) \subseteq Promise(v, n + w)
<1>. SUFFICES ASSUME NEW p \in Promise(v, n)
              PROVE  p \in Promise(v, n + w)
  OBVIOUS
<1>1. p \in Segment /\ p.window \in Nat
  BY SizesAssumption DEF Promise, Segment, Window
<1>2. acked(p) \in Nat
  BY <1>1, Places
<1>3. ASSUME acked(p) + p.window <= (n + NetCap) + 1
      PROVE  acked(p) + p.window <= ((n + w) + NetCap) + 1
  BY <1>1, <1>2, <1>3, Small
<1>. QED
  BY <1>1, <1>3 DEF Promise

\* flush_pending_packet().
LEMMA KeptFlush ==
  ASSUME NEW d, NEW n \in Nat, NEW v \in DeviceRecord, Kept(d, n, v), Young(d),
         d.deferred # None
  PROVE  LET e == flush_pending_packet(d)
         IN  /\ Kept(e, n, v) /\ ~Lost(e) /\ e.state = d.state
             /\ Trail(d, e) /\ e.toNetwork = d.toNetwork
<1>. DEFINE p == d.deferred[1]
            s == sent_to_buffer(d, p)
            e == flush_pending_packet(d)
<1>1. Sound(d) /\ d \in Connection /\ Books(d, n, v) /\ is_connected(d.state)
  BY DEF Kept, Sound, Typed, Young
<1>2. p \in Promise(v, n)
  BY DEF Kept, None
<1>3. Sound(e)
  BY <1>1, FlushPendingPacket DEF Preserves
<1>. HIDE DEF p
<1>4. /\ e.state = d.state /\ e.ack = d.ack /\ e.toNetwork = d.toNetwork
      /\ e.finReceived = d.finReceived /\ e.buffer = Append(d.buffer, p) /\ e.deferred = None
      /\ Trail(d, e)
  BY <1>1 DEF flush_pending_packet, sent_to_buffer, Connection, Trail, p
<1>. HIDE DEF e
<1>5. e.buffer \in Seq(Promise(v, n)) /\ e.deferred \in Seq(Promise(v, n))
  BY <1>2, <1>4, AppendProperties DEF Kept, None
<1>6. ~Lost(e) /\ ~Lost(d) /\ ~Astray(d)
  BY <1>1, <1>4, NotLost
<1>7. Books(e, n, v)
  BY <1>1, <1>4, <1>6 DEF Books, taken
<1>. QED
  BY <1>3, <1>4, <1>5, <1>6, <1>7 DEF Kept, e

\* process_receive().
LEMMA KeptReceive ==
  ASSUME NEW d, NEW n \in Nat, NEW v \in DeviceRecord, Kept(d, n, v),
         is_connected(d.state), NEW data \in Seq(Byte)
  PROVE  LET e == process_receive(d, data)
         IN  /\ Kept(e, n, v) /\ ~Lost(e) /\ e.state = d.state
             /\ Trail(d, e) /\ e.toNetwork = d.toNetwork
<1>. DEFINE p == segment(d, {"ACK"}, data)
            e == process_receive(d, data)
<1>1. Sound(d) /\ d \in Connection /\ Books(d, n, v) /\ ~Lost(d) /\ ~Astray(d) /\ d.state # "Init"
  BY NotLost DEF Kept, Sound, Typed, is_connected
<1>2. p \in Promise(v, n)
  <2>1. {"ACK"} \in SUBSET Flag
    BY DEF Flag
  <2>. QED
    BY <1>1, <2>1, SegmentPromise
<1>3. Sound(e)
  BY <1>1, ProcessReceive DEF Preserves
<1>4. /\ e.state = d.state /\ e.ack = d.ack /\ e.toNetwork = d.toNetwork
      /\ e.finReceived = d.finReceived
      /\ e.buffer = d.buffer \/ e.buffer = Append(d.buffer, p)
      /\ e.deferred = d.deferred \/ e.deferred = Some(p)
      /\ Trail(d, e)
  <2>. HIDE DEF p
  <2>. DEFINE f == [sent_to_buffer(d, p) EXCEPT !.seq = plus(@, Len(data))]
              g == [d EXCEPT !.deferred = Some(p)]
  <2>1. e = f \/ e = g
    BY DEF process_receive, p
  <2>2. /\ f.state = d.state /\ f.ack = d.ack /\ f.toNetwork = d.toNetwork
        /\ f.finReceived = d.finReceived
        /\ f.buffer = Append(d.buffer, p) /\ f.deferred = d.deferred /\ Trail(d, f)
    BY <1>1 DEF sent_to_buffer, Connection, Trail
  <2>3. /\ g.state = d.state /\ g.ack = d.ack /\ g.toNetwork = d.toNetwork
        /\ g.finReceived = d.finReceived
        /\ g.buffer = d.buffer /\ g.deferred = Some(p) /\ Trail(d, g)
    BY <1>1 DEF Connection, Trail
  <2>. HIDE DEF e, f, g
  <2>. QED
    BY <2>1, <2>2, <2>3
<1>. HIDE DEF e, p
<1>5. e.buffer \in Seq(Promise(v, n)) /\ e.deferred \in Seq(Promise(v, n))
  <2>1. d.buffer \in Seq(Promise(v, n)) /\ d.deferred \in Seq(Promise(v, n))
        /\ Some(p) \in Seq(Promise(v, n))
    BY <1>2 DEF Kept, Some
  <2>2. Append(d.buffer, p) \in Seq(Promise(v, n))
    BY <1>2, <2>1, AppendProperties
  <2>. QED
    BY <1>4, <2>1, <2>2
<1>6. ~Lost(e)
  BY <1>4, NotLost
<1>7. Books(e, n, v)
  BY <1>1, <1>4 DEF Books, taken
<1>. QED
  BY <1>3, <1>4, <1>5, <1>6, <1>7 DEF Kept, e

\* process_connect().
LEMMA KeptConnect ==
  ASSUME NEW d, NEW n \in Nat, NEW v \in DeviceRecord, Kept(d, n, v), d.state = "SynSent"
  PROVE  /\ Kept(process_connect(d), n, v) /\ Trail(d, process_connect(d))
         /\ process_connect(d).toNetwork = d.toNetwork
<1>. DEFINE a == [d EXCEPT !.state = "SynReceived"]
            s == send_empty(a, {"SYN", "ACK"})
            e == process_connect(d)
<1>1. Sound(d) /\ d \in Connection /\ Books(d, n, v) /\ Lost(d)
  BY DEF Kept, Sound, Typed, Lost, Opening
<1>2. /\ a \in Connection /\ a.state = "SynReceived" /\ a.ack = d.ack /\ a.toNetwork = d.toNetwork
      /\ a.finReceived = d.finReceived /\ a.buffer = d.buffer /\ a.deferred = d.deferred
      /\ a.finSeq = d.finSeq /\ Trail(d, a)
  BY <1>1 DEF Connection, States, Trail
<1>3. Sound(e)
  BY <1>1, ProcessConnect DEF Preserves
<1>4. e = [s EXCEPT !.seq = plus(@, 1)]
  BY DEF process_connect
<1>. HIDE DEF a, e
<1>5. Sound(a)
  BY <1>1, <1>2 DEF Sound, Typed, FinMatches, is_closed
<1>6. Astray(a) <=> Astray(d)
  BY <1>2 DEF Astray
<1>7. Books(a, n, v)
  <2>1. taken(a, n) = taken(d, n)
    BY <1>2 DEF taken
  <2>. QED
    BY <1>1, <1>2, <1>6, <2>1 DEF Books, is_connected
<1>8. Kept(a, n, v) /\ (Lost(a) => Astray(a))
  BY <1>1, <1>2, <1>5, <1>7 DEF Kept, Lost, Opening
<1>9. Kept(s, n, v) /\ s \in Connection /\ Trail(d, s) /\ s.toNetwork = d.toNetwork
  <2>1. {"SYN", "ACK"} \in SUBSET Flag
    BY DEF Flag
  <2>2. Kept(s, n, v) /\ SameTcb(a, s)
    BY <1>2, <1>8, <2>1, KeptSend
  <2>. QED
    BY <1>2, <2>2 DEF Kept, Sound, Typed, Trail, SameTcb, SameCore
<1>. HIDE DEF s
<1>10. /\ e.state = s.state /\ e.ack = s.ack /\ e.toNetwork = s.toNetwork
       /\ e.finReceived = s.finReceived /\ e.buffer = s.buffer /\ e.deferred = s.deferred
       /\ Trail(s, e)
  BY <1>4, <1>9 DEF Connection, Trail
<1>11. Kept(e, n, v)
  BY <1>3, <1>9, <1>10, KeptSame
<1>. QED
  BY <1>9, <1>10, <1>11 DEF Trail, e

\* What remains of a part of a stream once its first bytes are taken.
LEMMA Rest ==
  ASSUME NEW s \in Seq(Byte), NEW w \in 1 .. Len(s), NEW n \in Nat,
         \A i \in 1 .. Len(s) : s[i] = n + i
  PROVE  LET b == SubSeq(s, w + 1, Len(s))
         IN  /\ Len(b) = Len(s) - w /\ Len(b) \in Nat /\ Len(b) <= Len(s)
             /\ \A i \in 1 .. Len(b) : b[i] = (n + w) + i
             /\ (n + w) + Len(b) = n + Len(s)
             /\ b \in Seq(Byte)
<1>. DEFINE b == SubSeq(s, w + 1, Len(s))
<1>1. Len(s) \in Nat /\ w \in Nat /\ w <= Len(s) /\ w >= 1
  BY LenProperties
<1>2. b \in Seq(Byte) /\ Len(b) = (IF w + 1 <= Len(s) THEN (Len(s) - (w + 1)) + 1 ELSE 0)
      /\ \A i \in 1 .. ((Len(s) - (w + 1)) + 1) : b[i] = s[((w + 1) + i) - 1]
  BY <1>1, SubSeqProperties
<1>. HIDE DEF b
<1>3. Len(b) = Len(s) - w
  BY <1>1, <1>2
<1>4. ASSUME NEW i \in 1 .. Len(b)
      PROVE  b[i] = (n + w) + i
  <2>1. i \in 1 .. ((Len(s) - (w + 1)) + 1) /\ ((w + 1) + i) - 1 \in 1 .. Len(s)
        /\ n + (((w + 1) + i) - 1) = (n + w) + i
    BY <1>1, <1>3
  <2>. QED
    BY <1>2, <2>1
<1>5. Len(b) \in Nat /\ Len(b) <= Len(s) /\ (n + w) + Len(b) = n + Len(s)
  <2>1. ASSUME NEW l \in Nat, w <= l
        PROVE  l - w \in Nat /\ l - w <= l /\ (n + w) + (l - w) = n + l
    BY <1>1, <2>1
  <2>. QED
    BY <1>1, <1>3, <2>1
<1>. QED
  BY <1>2, <1>3, <1>4, <1>5 DEF b

\* process_send(), when the socket took w bytes.
LEMMA KeptProcessSend ==
  ASSUME NEW d, NEW n \in Nat, NEW v \in DeviceRecord, Kept(d, n, v), Young(d),
         NEW w \in 1 .. Len(d.toNetwork)
  PROVE  LET e == process_send(d, w)
         IN  /\ Kept(e, n + w, v) /\ ~Lost(e) /\ is_connected(e.state)
             /\ Trail(d, e) /\ taken(e, n + w) = taken(d, n)
<1>. DEFINE b == SubSeq(d.toNetwork, w + 1, Len(d.toNetwork))
            s == [d EXCEPT !.toNetwork = b]
            e == process_send(d, w)
<1>1. Sound(d) /\ d \in Connection /\ Books(d, n, v) /\ d.toNetwork \in Seq(Byte)
      /\ Len(d.toNetwork) \in Nat
  BY LenProperties DEF Kept, Sound, Typed, Connection
<1>2. d.toNetwork # << >> /\ w \in Nat /\ n + w \in Nat
  BY <1>1
<1>3. d.state = "Established"
  BY <1>1, <1>2 DEF Young, Books, is_connected
<1>4. /\ Len(b) \in Nat /\ Len(b) <= Len(d.toNetwork)
      /\ \A i \in 1 .. Len(b) : b[i] = (n + w) + i
      /\ (n + w) + Len(b) = n + Len(d.toNetwork)
      /\ b \in Seq(Byte)
  <2>1. \A i \in 1 .. Len(d.toNetwork) : d.toNetwork[i] = n + i
    BY <1>1 DEF Books
  <2>2. /\ Len(b) = Len(d.toNetwork) - w /\ Len(b) \in Nat /\ Len(b) <= Len(d.toNetwork)
        /\ \A i \in 1 .. Len(b) : b[i] = (n + w) + i
        /\ (n + w) + Len(b) = n + Len(d.toNetwork)
        /\ b \in Seq(Byte)
    BY <1>1, <2>1, Rest, Zenon
  <2>. QED
    BY <2>2
<1>5. e = IF s.finReceived /\ s.toNetwork = << >> THEN do_handle_fin(s) ELSE send_empty(s, {"ACK"})
  BY DEF process_send
<1>. HIDE DEF b, e
<1>6. /\ s \in Connection /\ s.state = "Established" /\ s.ack = d.ack /\ s.toNetwork = b
      /\ s.finReceived = d.finReceived /\ s.buffer = d.buffer /\ s.deferred = d.deferred
      /\ s.finSeq = d.finSeq /\ Trail(d, s)
  BY <1>1, <1>3, <1>4 DEF Connection, Trail
<1>. HIDE DEF s
<1>7. Sound(s)
  <2>1. Len(b) <= NetCap
    BY <1>1, <1>4, Small DEF Sound, Typed
  <2>. QED
    BY <1>1, <1>3, <1>6, <2>1 DEF Sound, Typed, FinMatches
<1>8. taken(s, n + w) = taken(d, n)
  BY <1>4, <1>6 DEF taken
<1>9. Books(s, n + w, v)
  <2>1. d.ack = at(taken(d, n) + 1)
    BY <1>1, <1>3 DEF Books, Astray
  <2>. QED
    BY <1>1, <1>3, <1>4, <1>6, <1>8, <2>1 DEF Books, is_connected
<1>10. Kept(s, n + w, v)
  <2>1. Promise(v, n) \subseteq Promise(v, n + w)
    BY <1>2, PromiseGrows
  <2>2. s.buffer \in Seq(Promise(v, n + w)) /\ s.deferred \in Seq(Promise(v, n + w))
    BY <1>6, <2>1, SeqGrows DEF Kept
  <2>3. ~Lost(s)
    BY <1>6 DEF Lost, Opening, Astray
  <2>. QED
    BY <1>7, <1>9, <2>2, <2>3 DEF Kept
<1>11. Kept(e, n + w, v) /\ ~Lost(e) /\ Trail(s, e) /\ e.toNetwork = s.toNetwork
  <2>1. CASE s.finReceived /\ s.toNetwork = << >>
    BY <1>2, <1>5, <1>6, <1>10, <2>1, KeptFin
  <2>2. CASE ~(s.finReceived /\ s.toNetwork = << >>)
    <3>1. {"ACK"} \in SUBSET Flag /\ ~Lost(s)
      BY <1>6 DEF Flag, Lost, Opening, Astray
    <3>2. Kept(send_empty(s, {"ACK"}), n + w, v) /\ SameTcb(s, send_empty(s, {"ACK"}))
      BY <1>2, <1>6, <1>10, <3>1, KeptSend
    <3>. QED
      BY <1>5, <1>6, <2>2, <3>2 DEF SameTcb, SameCore, Lost, Opening, Astray, Trail
  <2>. QED
    BY <2>1, <2>2
<1>12. is_connected(e.state)
  <2>1. Preserves(d, e)
    BY <1>1, ProcessSend DEF e
  <2>. QED
    BY <1>1, <1>3, <2>1, GrownUp DEF Preserves, is_connected, States
<1>13. Trail(d, e) /\ taken(e, n + w) = taken(d, n)
  BY <1>6, <1>8, <1>11 DEF Trail, taken
<1>. QED
  BY <1>11, <1>12, <1>13 DEF e
(* The handshake *)

\* The handshake stays ahead when segments follow it, and until it is received.
LEMMA StaysAhead ==
  ASSUME NEW s \in Seq(Segment), HandshakeAhead(s)
  PROVE  /\ s # << >> /\ ~carries(Head(s))
         /\ \A p \in Segment : HandshakeAhead(Append(s, p))
         /\ ~Handshake(Head(s)) => HandshakeAhead(Tail(s))
<1>1. PICK i \in 1 .. Len(s) : Handshake(s[i]) /\ \A j \in 1 .. (i - 1) : ~carries(s[j])
  BY DEF HandshakeAhead
<1>2. Len(s) \in Nat /\ i \in Nat /\ i >= 1 /\ i <= Len(s)
  BY LenProperties
<1>3. s # << >> /\ Head(s) = s[1]
  BY <1>2
<1>4. ~carries(s[i])
  <2>1. "FIN" \notin {"ACK"}
    OBVIOUS
  <2>. QED
    BY <1>1, <2>1 DEF Handshake, carries
<1>5. ~carries(s[1])
  <2>1. CASE i = 1
    BY <1>4, <2>1
  <2>2. CASE i # 1
    <3>1. 1 \in 1 .. (i - 1)
      BY <1>2, <2>2
    <3>. QED
      BY <1>1, <3>1
  <2>. QED
    BY <2>1, <2>2
<1>6. ASSUME NEW p \in Segment
      PROVE  HandshakeAhead(Append(s, p))
  <2>1. Len(Append(s, p)) = Len(s) + 1 /\ \A j \in 1 .. Len(s) : Append(s, p)[j] = s[j]
    BY AppendProperties
  <2>2. i \in 1 .. Len(Append(s, p)) /\ \A j \in 1 .. (i - 1) : j \in 1 .. Len(s)
    BY <1>2, <2>1
  <2>. QED
    BY <1>1, <2>1, <2>2 DEF HandshakeAhead
<1>7. ASSUME ~Handshake(Head(s))
      PROVE  HandshakeAhead(Tail(s))
  <2>1. i # 1
    BY <1>1, <1>3, <1>7
  <2>2. Len(Tail(s)) = Len(s) - 1 /\ \A j \in 1 .. (Len(s) - 1) : Tail(s)[j] = s[j + 1]
    BY <1>3, HeadTailProperties
  <2>3. i - 1 \in 1 .. Len(Tail(s)) /\ i - 1 \in 1 .. (Len(s) - 1) /\ (i - 1) + 1 = i
    BY <1>2, <2>1, <2>2
  <2>4. \A j \in 1 .. ((i - 1) - 1) : j \in 1 .. (Len(s) - 1) /\ j + 1 \in 1 .. (i - 1)
    BY <1>2
  <2>5. Handshake(Tail(s)[i - 1])
    BY <1>1, <2>2, <2>3
  <2>6. \A j \in 1 .. ((i - 1) - 1) : ~carries(Tail(s)[j])
    BY <1>1, <2>2, <2>4
  <2>. QED
    BY <2>3, <2>5, <2>6 DEF HandshakeAhead
<1>. QED
  BY <1>3, <1>5, <1>6, <1>7

\* The handshake is sent after segments that carry nothing.
LEMMA FirstAhead ==
  ASSUME NEW s \in Seq(Segment), NEW p \in Segment, Handshake(p),
         \A i \in 1 .. Len(s) : ~carries(s[i])
  PROVE  HandshakeAhead(Append(s, p))
<1>1. /\ Len(s) \in Nat /\ Len(Append(s, p)) = Len(s) + 1
      /\ \A j \in 1 .. Len(s) : Append(s, p)[j] = s[j]
      /\ Append(s, p)[Len(s) + 1] = p
  BY AppendProperties, LenProperties
<1>2. Len(s) + 1 \in 1 .. Len(Append(s, p)) /\ (Len(s) + 1) - 1 = Len(s)
  BY <1>1
<1>. QED
  BY <1>1, <1>2 DEF HandshakeAhead

\* Until the device is connected nothing under way carries anything.
LEMMA EarlyCarriesNothing ==
  ASSUME NEW v \in DeviceRecord, v.sent = 0, ~v.fin, NEW p \in UpSegment(v)
  PROVE  ~carries(p)
<1>. SUFFICES ASSUME carries(p)
              PROVE  FALSE
  OBVIOUS
<1>1. p \in Segment /\ "FIN" \notin p.flags /\ p.data # << >> /\ p.data \in Seq(Byte)
  BY DEF UpSegment, carries, Segment
<1>2. place(p) >= 1 /\ place(p) + Len(p.data) <= 0 + 1
  BY DEF UpSegment
<1>3. place(p) \in Nat /\ Len(p.data) \in Nat /\ Len(p.data) # 0
  BY <1>1, Places, LenProperties, EmptySeq
<1>. QED
  BY <1>2, <1>3
(* The steps of the relay *)

\* What the first segment under way may be.
LEMMA HeadCarries ==
  ASSUME UploadInv, up # << >>, pc # "gone"
  PROVE  /\ Head(up) \in UpSegment(dev) /\ Head(up) \in Segment
         /\ ~is_connected(c.state) => ~carries(Head(up))
<1>1. /\ dev \in DeviceRecord /\ up \in Seq(UpSegment(dev)) /\ up \in Seq(Segment)
      /\ (early => dev.sent = 0 /\ ~dev.fin) /\ c.state \in States
  BY DEF UploadInv, OpeningInv, SessionType, DeviceType, Inv, Sound, Typed, Connection
<1>2. Head(up) \in UpSegment(dev) /\ Head(up) \in Segment
  BY <1>1
<1>3. CASE early
  BY <1>1, <1>2, <1>3, EarlyCarriesNothing
<1>4. CASE ~early
  <2>1. ~Lost(c) /\ (c.state = "SynReceived" => HandshakeAhead(up))
    BY <1>4 DEF UploadInv
  <2>2. ~is_connected(c.state) => c.state = "SynReceived"
    BY <1>1, <2>1 DEF is_connected, Lost, Opening
  <2>. QED
    BY <1>1, <1>2, <2>1, <2>2, StaysAhead
<1>. QED
  BY <1>3, <1>4

\* What the first segment under way does, to the handshake too.
LEMMA UploadHandle ==
  ASSUME UploadInv, RelayHandle
  PROVE  /\ Kept(c', Len(net.out), dev) /\ (Lost(c') => Lost(c))
         /\ c'.state = "SynReceived" /\ ~early => HandshakeAhead(up')
<1>. DEFINE n == Len(net.out)
            p == Head(up)
<1>1. /\ Kept(c, n, dev) /\ dev \in DeviceRecord /\ n \in Nat /\ Within(dev, n)
      /\ up \in Seq(Segment)
  BY LenProperties DEF UploadInv, OpeningInv, SessionType, DeviceType
<1>2. up # << >> /\ up' = Tail(up)
  BY DEF RelayHandle
<1>3. PICK isn \in RelayIsns : Handle(Head(up), isn)
  BY DEF RelayHandle
<1>4. c' = handle_packet(c, p, isn) /\ pc = "idle" /\ isn \in SeqNum
  BY <1>3, SessionAssumption DEF Handle
<1>5. p \in UpSegment(dev) /\ p \in Segment /\ (~is_connected(c.state) => ~carries(p))
  BY <1>2, <1>4, HeadCarries
<1>. HIDE DEF n, p
<1>6. ~early => ~Lost(c) /\ (c.state = "SynReceived" => HandshakeAhead(up))
  BY <1>4 DEF UploadInv
<1>7. /\ Kept(c', n, dev) /\ (Lost(c') => Lost(c))
      /\ c'.state = "SynReceived" => c.state = "SynReceived" /\ ~(p.flags = {"ACK"} /\ p.seq = c.ack)
  BY <1>1, <1>4, <1>5, KeptPacket
<1>8. ASSUME c'.state = "SynReceived", ~early
      PROVE  HandshakeAhead(up')
  <2>1. HandshakeAhead(up) /\ ~Astray(c) /\ c.state = "SynReceived"
    BY <1>6, <1>7, <1>8 DEF Lost
  <2>2. c.ack = at(1)
    <3>1. c.ack = at(taken(c, n) + 1) /\ taken(c, n) = 0
      BY <1>1, <2>1 DEF Kept, Books, is_connected
    <3>2. 0 + 1 = 1
      OBVIOUS
    <3>. QED
      BY <3>1, <3>2
  <2>3. ~Handshake(p)
    <3>1. p.seq = at(place(p))
      BY <1>5, Places
    <3>. QED
      BY <1>7, <1>8, <2>2, <3>1 DEF Handshake
  <2>. QED
    BY <1>1, <1>2, <2>1, <2>3, StaysAhead DEF p
<1>. QED
  BY <1>7, <1>8 DEF n

\* The steps of a poll, but for the bytes that go to the socket.
LEMMA UploadPoll ==
  ASSUME UploadInv, ~ServerEnds,
         RelayFlush \/ (RelaySend /\ ~SocketAccepts) \/ RelayReceive \/ RelayConnect
                    \/ OtherConnections
  PROVE  /\ Kept(c', Len(net.out), dev) /\ (Lost(c') => Lost(c))
         /\ UNCHANGED <<dev, up, down>> /\ net'.out = net.out
         /\ c'.state = "SynReceived" => c.state \in {"SynSent", "SynReceived"}
         /\ pc' # "gone" => pc # "gone"
         /\ c'.state # "Init" => c.state # "Init"
         /\ ~Failures => Trail(c, c') /\ c'.toNetwork = c.toNetwork
         /\ pc' = "gone" => pc = "gone" \/ c'.closed
<1>. DEFINE n == Len(net.out)
            good(e) == /\ Kept(e, n, dev) /\ (Lost(e) => Lost(c))
                       /\ e.state = "SynReceived" => c.state \in {"SynSent", "SynReceived"}
                       /\ e.state # "Init" => c.state # "Init"
            still(e) == Trail(c, e) /\ e.toNetwork = c.toNetwork
<1>1. /\ Kept(c, n, dev) /\ dev \in DeviceRecord /\ n \in Nat /\ Young(c)
      /\ Sound(c) /\ c \in Connection /\ c.state \in States
      /\ net \in [out : Seq(Byte), in : 0 .. MaxServed]
  BY LenProperties DEF UploadInv, OpeningInv, SessionType, DeviceType, Inv, Sound, Typed, Connection
<1>2. good(c) /\ still(c)
  BY <1>1 DEF Trail
<1>3. /\ good(close(c)) /\ good(reset_and_close(c))
  <2>1. /\ Kept(close(c), n, dev) /\ Kept(reset_and_close(c), n, dev)
        /\ Lost(close(c)) <=> Lost(c)
        /\ Lost(reset_and_close(c)) <=> Lost(c)
    BY <1>1, KeptClose
  <2>2. close(c).state = c.state
    BY <1>1 DEF close, Connection
  <2>3. reset_and_close(c).state = c.state
    <3>1. Typed(c) /\ {"RST"} \in SUBSET Flag
      BY <1>1 DEF Sound, Flag
    <3>2. Typed(send_empty(c, {"RST"})) /\ SameCore(c, send_empty(c, {"RST"}))
      BY <3>1, SendEmpty
    <3>. QED
      BY <3>2 DEF reset_and_close, close, SameCore, Typed, Connection
  <2>. QED
    BY <2>1, <2>2, <2>3
<1>4. CASE RelayFlush
  <2>1. CASE c.deferred # None /\ c' = flush_pending_packet(c)
    <3>1. /\ Kept(c', n, dev) /\ ~Lost(c') /\ c'.state = c.state
          /\ Trail(c, c') /\ c'.toNetwork = c.toNetwork
      BY <1>1, <2>1, KeptFlush
    <3>2. good(c') /\ still(c')
      BY <1>1, <3>1
    <3>. QED
      BY <1>4, <3>2 DEF RelayFlush, PollFlush, PollClosed, envVars
  <2>2. CASE UNCHANGED c
    <3>1. good(c') /\ still(c')
      BY <1>2, <2>2
    <3>. QED
      BY <1>4, <2>2, <3>1 DEF RelayFlush, PollFlush, PollClosed, envVars
  <2>. QED
    BY <1>4, <2>1, <2>2 DEF RelayFlush, PollFlush, PollClosed
<1>5. CASE RelaySend /\ ~SocketAccepts
  <2>1. /\ c' \in {c, close(c), reset_and_close(c)} /\ UNCHANGED envVars /\ pc = "send"
        /\ pc' = "receive" /\ (~Failures => c' = c)
    BY <1>5 DEF RelaySend, PollSendSkip, PollSendFails
  <2>2. good(c')
    BY <1>2, <1>3, <2>1
  <2>3. ~Failures => still(c')
    BY <1>2, <2>1
  <2>. QED
    BY <2>1, <2>2, <2>3 DEF envVars
<1>6. CASE RelayReceive
  <2>1. ASSUME NEW k \in 1 .. (MaxServed - net.in),
               PollReceiveBytes(range(net.in + 1, net.in + k))
        PROVE  good(c') /\ pc = "receive" /\ pc' = pc /\ still(c')
    <3>1. net.in + 1 \in Nat \ {0} /\ net.in + k \in Nat /\ net.in + k <= MaxServed
          /\ MaxServed \in Nat /\ 1 .. MaxServed \subseteq Byte
      BY <1>1, SessionAssumption
    <3>. DEFINE data == range(net.in + 1, net.in + k)
    <3>2. data \in Seq(Byte)
      BY <3>1, RangeType
    <3>. HIDE DEF data
    <3>3. c' = process_receive(c, data) /\ is_connected(c.state) /\ pc = "receive" /\ pc' = pc
      BY <2>1 DEF PollReceiveBytes, can_receive, may_read, data
    <3>4. /\ Kept(c', n, dev) /\ ~Lost(c') /\ c'.state = c.state
          /\ Trail(c, c') /\ c'.toNetwork = c.toNetwork
      BY <1>1, <3>2, <3>3, KeptReceive
    <3>. QED
      BY <3>3, <3>4
  <2>2. CASE \E k \in 1 .. (MaxServed - net.in) :
               /\ PollReceiveBytes(range(net.in + 1, net.in + k))
               /\ net' = [net EXCEPT !.in = @ + k]
               /\ UNCHANGED <<dev, up, down>>
    <3>1. good(c') /\ pc = "receive" /\ pc' = pc /\ still(c')
      BY <2>1, <2>2
    <3>2. net'.out = net.out /\ UNCHANGED <<dev, up, down>>
      BY <1>1, <2>2
    <3>. QED
      BY <3>1, <3>2
  <2>3. CASE /\ c' \in {c, reset_and_close(c)} /\ UNCHANGED envVars /\ pc = "receive"
             /\ pc' = "connect" /\ (~Failures => c' = c)
    <3>1. good(c') /\ (~Failures => still(c'))
      BY <1>2, <1>3, <2>3
    <3>. QED
      BY <2>3, <3>1 DEF envVars
  <2>. QED
    BY <1>6, <2>2, <2>3 DEF RelayReceive, PollReceiveFails, PollReceiveEnd, can_receive
<1>7. CASE RelayConnect
  <2>1. CASE SocketConnects
    <3>1. /\ c' = process_connect(c) /\ pc = "connect" /\ c.state = "SynSent" /\ UNCHANGED envVars
          /\ pc' = "gone" => c'.closed
      BY <2>1 DEF SocketConnects, PollConnected, remaining_in_router
    <3>2. good(c') /\ still(c')
      BY <1>1, <3>1, KeptConnect DEF Lost, Opening
    <3>. QED
      BY <3>1, <3>2 DEF envVars
  <2>2. CASE /\ c' \in {c, close(c)} /\ UNCHANGED envVars /\ pc = "connect"
             /\ (pc' = "gone" => c'.closed) /\ (~Failures => c' = c)
    <3>1. good(c') /\ (~Failures => still(c'))
      BY <1>2, <1>3, <2>2
    <3>. QED
      BY <2>2, <3>1 DEF envVars
  <2>. QED
    BY <1>7, <2>1, <2>2 DEF RelayConnect, PollConnectFails, PollEnd, remaining_in_router
<1>8. CASE OtherConnections
  <2>1. PICK k \in Others : OtherTraffic(k) /\ UNCHANGED envVars
    BY <1>8 DEF OtherConnections
  <2>2. Sound(c')
    BY <1>8, RelayIsConnection, Inductive DEF UploadInv, OpeningInv, SessionType, Inv
  <2>3. /\ c'.state = c.state /\ c'.ack = c.ack /\ c'.toNetwork = c.toNetwork
        /\ c'.finReceived = c.finReceived /\ c'.buffer = c.buffer /\ c'.deferred = c.deferred
        /\ UNCHANGED pc /\ Trail(c, c')
    BY <1>1, <2>1 DEF OtherTraffic, Connection, Trail
  <2>4. Kept(c', n, dev) /\ (Lost(c') <=> Lost(c))
    BY <1>1, <2>2, <2>3, KeptSame
  <2>5. good(c') /\ still(c')
    BY <1>2, <2>3, <2>4
  <2>. QED
    BY <2>1, <2>3, <2>5 DEF envVars
<1>. QED
  BY <1>4, <1>5, <1>6, <1>7, <1>8

\* The first bytes of a part of a stream, after the part before it.
LEMMA Moved ==
  ASSUME NEW s \in Seq(Byte), NEW t \in Seq(Byte), NEW w \in 1 .. Len(t),
         \A i \in 1 .. Len(s) : s[i] = i,
         \A i \in 1 .. Len(t) : t[i] = Len(s) + i
  PROVE  LET b == s \o SubSeq(t, 1, w)
         IN  Len(b) = Len(s) + w /\ \A i \in 1 .. Len(b) : b[i] = i
<1>. DEFINE u == SubSeq(t, 1, w)
            b == s \o u
<1>1. Len(s) \in Nat /\ Len(t) \in Nat /\ w \in Nat /\ w >= 1 /\ w <= Len(t)
  BY LenProperties
<1>2. u \in Seq(Byte) /\ Len(u) = w /\ \A i \in 1 .. w : u[i] = t[i]
  <2>1. /\ u \in Seq(Byte)
        /\ Len(u) = (IF 1 <= w THEN (w - 1) + 1 ELSE 0)
        /\ \A i \in 1 .. ((w - 1) + 1) : u[i] = t[(1 + i) - 1]
    BY <1>1, SubSeqProperties
  <2>2. (w - 1) + 1 = w /\ \A i \in 1 .. w : (1 + i) - 1 = i
    BY <1>1
  <2>. HIDE DEF u
  <2>. QED
    BY <1>1, <2>1, <2>2
<1>. HIDE DEF u
<1>3. /\ Len(b) = Len(s) + Len(u)
      /\ \A i \in 1 .. Len(b) : b[i] = IF i <= Len(s) THEN s[i] ELSE u[i - Len(s)]
  BY <1>2, ConcatProperties
<1>. HIDE DEF b
<1>4. ASSUME NEW i \in 1 .. Len(b)
      PROVE  b[i] = i
  <2>1. i \in 1 .. (Len(s) + w)
    BY <1>2, <1>3
  <2>2. CASE i <= Len(s)
    <3>1. i \in 1 .. Len(s)
      BY <1>1, <2>1, <2>2
    <3>. QED
      BY <1>3, <2>2, <3>1
  <2>3. CASE ~(i <= Len(s))
    <3>1. i - Len(s) \in 1 .. w /\ (((0 + Len(s)) + 1) + (i - Len(s))) - 1 = 0 + i
      BY <1>1, <2>1, <2>3, Second
    <3>2. i - Len(s) \in 1 .. Len(t) /\ Len(s) + (i - Len(s)) = i
      BY <1>1, <2>1, <3>1
    <3>. QED
      BY <1>2, <1>3, <2>3, <3>1, <3>2
  <2>. QED
    BY <2>2, <2>3
<1>. QED
  BY <1>2, <1>3, <1>4 DEF b, u

\* Every step of the relay preserves the invariant.
LEMMA UploadRelay ==
  ASSUME UploadInv, ~ServerEnds, Relay \/ OtherConnections
  PROVE  UploadInv'
<1>. DEFINE n == Len(net.out)
<1>1. /\ Kept(c, n, dev) /\ dev \in DeviceRecord /\ n \in Nat /\ Young(c)
      /\ Sound(c) /\ c \in Connection /\ net.out \in Seq(Byte)
      /\ up \in Seq(UpSegment(dev)) /\ down \in Seq(Promise(dev, n))
      /\ net \in [out : Seq(Byte), in : 0 .. MaxServed]
  BY LenProperties DEF UploadInv, OpeningInv, SessionType, DeviceType, Inv, Sound, Typed, Connection
<1>2. OpeningInv'
  <2>1. [SessionNext]_vars
    BY DEF SessionNext
  <2>. QED
    BY <2>1, OpeningStep DEF UploadInv
<1>3. ASSUME NEW k \in Nat, UNCHANGED dev, Len(net'.out) = n + k, Kept(c', n + k, dev),
             \A i \in 1 .. Len(net'.out) : net'.out[i] = i,
             down' \in Seq(Promise(dev, n + k)), up' \in Seq(UpSegment(dev)),
             Lost(c') => Lost(c) /\ (down \in Seq(WrongSynAck) => down' \in Seq(WrongSynAck)),
             c'.state = "SynReceived" /\ pc' # "gone" /\ ~early => HandshakeAhead(up')
      PROVE  UploadInv'
  <2>1. ~dev.fin => dev.edge <= ((n + k) + NetCap) + 1
    <3>1. dev.edge \in Nat
      BY <1>1 DEF DeviceRecord
    <3>2. ~dev.fin => dev.edge <= (n + NetCap) + 1
      BY DEF UploadInv
    <3>. QED
      BY <1>1, <3>1, <3>2, Small
  <2>2. Within(dev, n + k)
    <3>1. dev.sent \in Nat
      BY <1>1, Small DEF DeviceRecord
    <3>2. dev.sent <= n + NetCap
      BY DEF UploadInv, Within
    <3>. QED
      BY <1>1, <3>1, <3>2, Small DEF Within
  <2>3. Lost(c') => early /\ down' \in Seq(WrongSynAck)
    BY <1>3 DEF UploadInv
  <2>4. devNext' = devNext /\ early' = early
    BY <1>3 DEF devNext, early
  <2>5. dev.una <= devNext /\ (early => dev.sent = 0 /\ ~dev.fin)
    BY DEF UploadInv
  <2>6. /\ dev'.una <= devNext' /\ (early' => dev'.sent = 0 /\ ~dev'.fin)
        /\ Lost(c') => early' /\ down' \in Seq(WrongSynAck)
        /\ c'.state = "SynReceived" /\ pc' # "gone" /\ ~early' => HandshakeAhead(up')
    BY <1>3, <2>3, <2>4, <2>5
  <2>7. /\ Kept(c', Len(net'.out), dev') /\ down' \in Seq(Promise(dev', Len(net'.out)))
        /\ ~dev'.fin => dev'.edge <= (Len(net'.out) + NetCap) + 1
        /\ Within(dev', Len(net'.out)) /\ up' \in Seq(UpSegment(dev'))
    BY <1>3, <2>1, <2>2
  <2>. QED
    BY <1>2, <1>3, <2>6, <2>7 DEF UploadInv
<1>. HIDE DEF n
<1>4. ASSUME UNCHANGED <<dev, down>>, net'.out = net.out, Kept(c', n, dev),
             up' \in Seq(UpSegment(dev)), Lost(c') => Lost(c),
             c'.state = "SynReceived" /\ pc' # "gone" /\ ~early => HandshakeAhead(up')
      PROVE  UploadInv'
  <2>1. n + 0 = n
    BY <1>1
  <2>2. \A i \in 1 .. Len(net'.out) : net'.out[i] = i
    BY <1>4 DEF UploadInv
  <2>3. 0 \in Nat /\ Len(net'.out) = n + 0 /\ Kept(c', n + 0, dev) /\ down' \in Seq(Promise(dev, n + 0))
    BY <1>1, <1>4, <2>1 DEF n
  <2>. QED
    BY <1>3, <1>4, <2>2, <2>3
<1>5. CASE RelayHandle
  <2>1. up # << >> /\ up' = Tail(up) /\ UNCHANGED <<dev, down, net>>
    BY <1>5 DEF RelayHandle
  <2>2. up' \in Seq(UpSegment(dev))
    BY <1>1, <2>1
  <2>. QED
    BY <1>4, <1>5, <2>1, <2>2, UploadHandle DEF n
<1>6. CASE RouterAbsorbs
  <2>1. up # << >> /\ up' = Tail(up) /\ UNCHANGED <<dev, down, net, c>> /\ pc' = "gone"
    BY <1>6 DEF RouterAbsorbs, connVars
  <2>2. up' \in Seq(UpSegment(dev))
    BY <1>1, <2>1
  <2>. QED
    BY <1>1, <1>4, <2>1, <2>2
<1>7. CASE RelayFlush \/ (RelaySend /\ ~SocketAccepts) \/ RelayReceive \/ RelayConnect
             \/ OtherConnections
  <2>1. /\ Kept(c', n, dev) /\ (Lost(c') => Lost(c))
        /\ UNCHANGED <<dev, up, down>> /\ net'.out = net.out
        /\ c'.state = "SynReceived" => c.state \in {"SynSent", "SynReceived"}
        /\ pc' # "gone" => pc # "gone"
    BY <1>7, UploadPoll DEF n
  <2>2. ASSUME c'.state = "SynReceived", pc' # "gone", ~early
        PROVE  HandshakeAhead(up')
    <3>1. c.state # "SynSent"
      BY <2>2 DEF UploadInv, Lost, Opening
    <3>. QED
      BY <2>1, <2>2, <3>1 DEF UploadInv
  <2>. QED
    BY <1>1, <1>4, <2>1, <2>2
<1>8. CASE SocketAccepts
  <2>1. PICK w \in 1 .. Len(c.toNetwork) :
          /\ PollSendBytes(w)
          /\ net' = [net EXCEPT !.out = @ \o SubSeq(c.toNetwork, 1, w)]
          /\ UNCHANGED <<dev, up, down>>
    BY <1>8 DEF SocketAccepts
  <2>2. /\ c' = process_send(c, w) /\ net'.out = net.out \o SubSeq(c.toNetwork, 1, w)
        /\ c.toNetwork \in Seq(Byte) /\ w \in Nat
    <3>1. c' = process_send(c, w)
      BY <2>1 DEF PollSendBytes
    <3>2. net'.out = net.out \o SubSeq(c.toNetwork, 1, w)
      BY <1>1, <2>1
    <3>3. c.toNetwork \in Seq(Byte) /\ Len(c.toNetwork) \in Nat
      BY <1>1, LenProperties DEF Connection
    <3>. QED
      BY <3>1, <3>2, <3>3
  <2>3. Kept(c', n + w, dev) /\ ~Lost(c') /\ is_connected(c'.state)
    BY <1>1, <2>2, KeptProcessSend
  <2>4. Len(net'.out) = n + w /\ \A i \in 1 .. Len(net'.out) : net'.out[i] = i
    <3>1. /\ \A i \in 1 .. Len(net.out) : net.out[i] = i
          /\ \A i \in 1 .. Len(c.toNetwork) : c.toNetwork[i] = Len(net.out) + i
      BY <1>1 DEF UploadInv, Kept, Books
    <3>2. net.out \in Seq(Byte)
      BY <1>1
    <3>. DEFINE b == net.out \o SubSeq(c.toNetwork, 1, w)
    <3>3. Len(b) = Len(net.out) + w /\ \A i \in 1 .. Len(b) : b[i] = i
      BY <2>2, <3>1, <3>2, Moved, Zenon
    <3>. QED
      BY <2>2, <3>3 DEF n
  <2>5. down' \in Seq(Promise(dev, n + w)) /\ up' \in Seq(UpSegment(dev))
    <3>1. Promise(dev, n) \subseteq Promise(dev, n + w)
      BY <1>1, <2>2, PromiseGrows
    <3>. QED
      BY <1>1, <2>1, <3>1, SeqGrows
  <2>6. c'.state # "SynReceived"
    BY <2>3 DEF is_connected
  <2>. QED
    BY <1>3, <2>1, <2>2, <2>3, <2>4, <2>5, <2>6
<1>9. CASE RelayDrain
  <2>1. /\ c' = [c EXCEPT !.buffer = << >>, !.used = 0] /\ down' = down \o c.buffer
        /\ UNCHANGED <<dev, up, net, pc>>
    BY <1>9 DEF RelayDrain, Drain
  <2>2. Sound(c')
    BY RelayIsConnection, Inductive DEF UploadInv, OpeningInv, SessionType, Inv
  <2>3. /\ c'.state = c.state /\ c'.ack = c.ack /\ c'.toNetwork = c.toNetwork
        /\ c'.finReceived = c.finReceived /\ c'.buffer = << >> /\ c'.deferred = c.deferred
    BY <1>1, <2>1 DEF Connection
  <2>4. Books(c', n, dev) /\ (Lost(c') <=> Lost(c))
    BY <1>1, <2>3 DEF Kept, Books, taken, Astray, Lost
  <2>5. Kept(c', n, dev)
    <3>1. << >> \in Seq(Promise(dev, n)) /\ << >> \in Seq(WrongSynAck)
      OBVIOUS
    <3>. QED
      BY <1>1, <2>2, <2>3, <2>4, <3>1 DEF Kept
  <2>6. /\ down' \in Seq(Promise(dev, n))
        /\ Lost(c) /\ down \in Seq(WrongSynAck) => down' \in Seq(WrongSynAck)
    BY <1>1, <2>1, ConcatProperties DEF Kept
  <2>7. n + 0 = n
    BY <1>1
  <2>8. /\ \A i \in 1 .. Len(net'.out) : net'.out[i] = i
        /\ c'.state = "SynReceived" /\ pc' # "gone" /\ ~early => HandshakeAhead(up')
    BY <2>1, <2>3 DEF UploadInv
  <2>9. 0 \in Nat /\ Len(net'.out) = n + 0 /\ Kept(c', n + 0, dev) /\ down' \in Seq(Promise(dev, n + 0))
    BY <2>1, <2>5, <2>6, <2>7 DEF n
  <2>. QED
    BY <1>1, <1>3, <2>1, <2>4, <2>6, <2>8, <2>9
<1>. QED
  BY <1>5, <1>6, <1>7, <1>8, <1>9 DEF Relay
(* The steps of the device *)

\* A segment the device builds is where it says.
LEMMA SegmentOfPlace ==
  ASSUME NEW v, v.rcvNext \in SeqNum, v.window \in Windows,
         NEW flags \in SUBSET Flag, NEW k \in Nat, k < SeqMod, NEW data \in Seq(Byte)
  PROVE  LET p == segment_of(v, flags, k, data)
         IN  p \in Segment /\ place(p) = k /\ p.flags = flags /\ p.data = data
<1>1. segment_of(v, flags, k, data) \in Segment
  BY SegmentOfType
<1>2. segment_of(v, flags, k, data).seq = at(k)
  BY DEF segment_of, at
<1>3. place(segment_of(v, flags, k, data)) = k
  BY <1>2, Offsets DEF place
<1>. QED
  BY <1>1, <1>3 DEF segment_of

\* The stream of the device goes on, and ends once.
GoesOn(v, w) == v.sent <= w.sent /\ (v.fin => w.fin /\ w.sent = v.sent)

\* What was said of the stream so far holds of the stream that goes on.
LEMMA StreamGrows ==
  ASSUME NEW v \in DeviceRecord, NEW w \in DeviceRecord, GoesOn(v, w), NEW n \in Nat
  PROVE  /\ UpSegment(v) \subseteq UpSegment(w) /\ Promise(v, n) \subseteq Promise(w, n)
         /\ \A d : Kept(d, n, v) => Kept(d, n, w)
<1>1. v.sent \in Nat /\ w.sent \in Nat /\ v.sent <= w.sent
  BY Small DEF DeviceRecord, GoesOn
<1>2. UpSegment(v) \subseteq UpSegment(w)
  <2>. SUFFICES ASSUME NEW p \in UpSegment(v)
                PROVE  p \in UpSegment(w)
    OBVIOUS
  <2>1. p \in Segment /\ place(p) \in Nat /\ Len(p.data) \in Nat
    BY Places, LenProperties DEF UpSegment, Segment
  <2>2. carries(p) => place(p) + Len(p.data) <= w.sent + 1
    <3>1. carries(p) => place(p) + Len(p.data) <= v.sent + 1
      BY DEF UpSegment
    <3>. QED
      BY <1>1, <2>1, <3>1
  <2>3. "FIN" \in p.flags => w.fin /\ place(p) + Len(p.data) = w.sent + 1
    BY DEF UpSegment, GoesOn
  <2>. QED
    BY <2>2, <2>3 DEF UpSegment
<1>3. Promise(v, n) \subseteq Promise(w, n)
  BY DEF Promise, GoesOn
<1>4. ASSUME NEW d, Kept(d, n, v)
      PROVE  Kept(d, n, w)
  <2>1. Books(d, n, v) /\ taken(d, n) \in Nat
    BY <1>4, TakenType DEF Kept
  <2>2. taken(d, n) <= w.sent
    BY <1>1, <2>1 DEF Books
  <2>3. d.finReceived => w.fin /\ taken(d, n) = w.sent
    BY <2>1 DEF Books, GoesOn
  <2>4. Books(d, n, w)
    BY <2>1, <2>2, <2>3 DEF Books
  <2>5. d.buffer \in Seq(Promise(w, n)) /\ d.deferred \in Seq(Promise(w, n))
    BY <1>3, <1>4, SeqGrows DEF Kept
  <2>. QED
    BY <1>4, <2>4, <2>5 DEF Kept
<1>. QED
  BY <1>2, <1>3, <1>4

\* What a step of the device must show.
LEMMA UploadDevice ==
  ASSUME UploadInv, OpeningInv', UNCHANGED <<connVars, net>>, GoesOn(dev, dev'),
         down' = down \/ (down # << >> /\ down' = Tail(down)),
         up' = up \/ (\E p \in UpSegment(dev') : up' = Append(up, p)),
         ~dev'.fin => dev'.edge <= (Len(net.out) + NetCap) + 1,
         Within(dev', Len(net.out)), dev'.una <= devNext',
         early' => dev'.sent = 0 /\ ~dev'.fin,
         early' \/ ~early \/ (~Lost(c) /\ HandshakeAhead(up')),
         early' => early
  PROVE  UploadInv'
<1>. DEFINE n == Len(net.out)
<1>1. /\ Kept(c, n, dev) /\ dev \in DeviceRecord /\ dev' \in DeviceRecord /\ n \in Nat
      /\ up \in Seq(UpSegment(dev)) /\ down \in Seq(Promise(dev, n)) /\ up \in Seq(Segment)
      /\ down \in Seq(Segment)
  BY LenProperties DEF UploadInv, OpeningInv, SessionType, DeviceType
<1>2. /\ UpSegment(dev) \subseteq UpSegment(dev') /\ Promise(dev, n) \subseteq Promise(dev', n)
      /\ Kept(c, n, dev')
  <2>. HIDE DEF n
  <2>. QED
    BY <1>1, StreamGrows
<1>3. net' = net /\ c' = c /\ pc' = pc
  BY DEF connVars
<1>4. up' \in Seq(UpSegment(dev'))
  <2>1. up \in Seq(UpSegment(dev'))
    BY <1>1, <1>2, SeqGrows
  <2>2. ASSUME NEW p \in UpSegment(dev'), up' = Append(up, p)
        PROVE  up' \in Seq(UpSegment(dev'))
    BY <2>1, <2>2, AppendProperties
  <2>. QED
    BY <2>1, <2>2
<1>5. down' \in Seq(Promise(dev', n)) /\ (down \in Seq(WrongSynAck) => down' \in Seq(WrongSynAck))
  <2>. HIDE DEF n
  <2>1. down \in Seq(Promise(dev', n))
    BY <1>1, <1>2, SeqGrows
  <2>. QED
    BY <2>1, HeadTailProperties
<1>6. Lost(c') => early' /\ down' \in Seq(WrongSynAck)
  BY <1>3, <1>5 DEF UploadInv
<1>7. ASSUME c'.state = "SynReceived", pc' # "gone", ~early'
      PROVE  HandshakeAhead(up')
  <2>1. CASE ~early
    <3>1. HandshakeAhead(up)
      BY <1>3, <1>7, <2>1 DEF UploadInv
    <3>2. \A p \in UpSegment(dev') : HandshakeAhead(Append(up, p))
      BY <1>1, <3>1, StaysAhead DEF UpSegment
    <3>. QED
      BY <3>1, <3>2
  <2>2. CASE early
    BY <1>7, <2>2
  <2>. QED
    BY <2>1, <2>2
<1>8. /\ \A i \in 1 .. Len(net'.out) : net'.out[i] = i
      /\ Kept(c', Len(net'.out), dev') /\ down' \in Seq(Promise(dev', Len(net'.out)))
      /\ ~dev'.fin => dev'.edge <= (Len(net'.out) + NetCap) + 1
      /\ Within(dev', Len(net'.out))
  BY <1>2, <1>3, <1>5 DEF UploadInv
<1>. QED
  BY <1>4, <1>6, <1>7, <1>8 DEF UploadInv

\* Where the device's next byte is, in numbers.
LEMMA DeviceNumbers ==
  ASSUME UploadInv
  PROVE  /\ dev \in DeviceRecord /\ dev.sent \in Nat /\ dev.sent <= MaxSent /\ dev.una \in Nat
         /\ dev.edge \in Nat /\ dev.fin \in BOOLEAN
         /\ devNext \in Nat /\ devNext <= MaxSent + 2 /\ devNext < SeqMod
         /\ devNext = dev.sent + (IF dev.fin THEN 2 ELSE 1)
         /\ dev.rcvNext \in SeqNum /\ dev.window \in Windows /\ dev.una <= devNext
         /\ dev.phase = "established" => dev.una >= 1
         /\ Len(net.out) \in Nat /\ down \in Seq(Promise(dev, Len(net.out))) /\ down \in Seq(Segment)
<1>1. /\ dev \in DeviceRecord /\ DeviceType /\ dev.una <= devNext /\ net.out \in Seq(Byte)
      /\ down \in Seq(Promise(dev, Len(net.out))) /\ down \in Seq(Segment)
  BY DEF UploadInv, OpeningInv, SessionType, DeviceType
<1>2. /\ dev.sent \in 0 .. MaxSent /\ dev.una \in Nat /\ dev.edge \in Nat /\ dev.fin \in BOOLEAN
      /\ dev.rcvNext \in SeqNum /\ dev.window \in Windows
      /\ dev.phase = "established" => dev.una >= 1
  BY <1>1 DEF DeviceRecord, DeviceType
<1>3. dev.sent \in Nat /\ dev.sent <= MaxSent
  BY <1>2, Small
<1>4. devNext = dev.sent + (IF dev.fin THEN 2 ELSE 1)
  BY <1>3 DEF devNext
<1>5. devNext \in Nat /\ devNext <= MaxSent + 2 /\ devNext < SeqMod
  BY <1>2, <1>3, <1>4, Small
<1>. QED
  BY <1>1, <1>2, <1>3, <1>4, <1>5, LenProperties

\* Segments that carry nothing.
LEMMA BareUp ==
  ASSUME NEW v, NEW x, x.rcvNext \in SeqNum, x.window \in Windows, NEW k \in Nat, k <= MaxSent + 2
  PROVE  /\ segment_of(x, {"ACK"}, k, << >>) \in UpSegment(v)
         /\ k = 0 \/ (Failures /\ k = MaxSent + 2) => segment_of(x, {"SYN"}, k, << >>) \in UpSegment(v)
         /\ Failures => /\ segment_of(x, {"RST"}, k, << >>) \in UpSegment(v)
                        /\ segment_of(x, {"RST", "ACK"}, k, << >>) \in UpSegment(v)
         /\ k = 1 => Handshake(segment_of(x, {"ACK"}, k, << >>))
<1>1. k < SeqMod /\ << >> \in Seq(Byte)
  BY Small
<1>a. ASSUME NEW flags \in SUBSET Flag
      PROVE  LET p == segment_of(x, flags, k, << >>)
             IN  p \in Segment /\ place(p) = k /\ p.flags = flags /\ p.data = << >>
  <2>1. ASSUME NEW e \in Seq(Byte)
        PROVE  LET p == segment_of(x, flags, k, e)
               IN  p \in Segment /\ place(p) = k /\ p.flags = flags /\ p.data = e
    BY <1>1, SegmentOfPlace
  <2>. QED
    BY <1>1, <2>1
<1>2. ASSUME NEW flags \in SUBSET Flag, "FIN" \notin flags,
             "SYN" \in flags => k = 0 \/ (Failures /\ k = MaxSent + 2),
             "RST" \in flags => Failures
      PROVE  segment_of(x, flags, k, << >>) \in UpSegment(v)
  <2>. DEFINE p == segment_of(x, flags, k, << >>)
  <2>1. p \in Segment /\ place(p) = k /\ p.flags = flags /\ p.data = << >>
    BY <1>a
  <2>. HIDE DEF p
  <2>2. ~carries(p)
    BY <1>2, <2>1 DEF carries
  <2>3. p \in UpSegment(v)
    BY <1>2, <2>1, <2>2 DEF UpSegment
  <2>. QED
    BY <2>3 DEF p
<1>3. /\ {"ACK"} \in SUBSET Flag /\ {"SYN"} \in SUBSET Flag /\ {"RST"} \in SUBSET Flag
      /\ {"RST", "ACK"} \in SUBSET Flag
  BY DEF Flag
<1>4. segment_of(x, {"ACK"}, k, << >>) \in UpSegment(v)
  BY <1>2, <1>3
<1>5. k = 0 \/ (Failures /\ k = MaxSent + 2) => segment_of(x, {"SYN"}, k, << >>) \in UpSegment(v)
  BY <1>2, <1>3
<1>6. Failures => /\ segment_of(x, {"RST"}, k, << >>) \in UpSegment(v)
                  /\ segment_of(x, {"RST", "ACK"}, k, << >>) \in UpSegment(v)
  BY <1>2, <1>3
<1>7. k = 1 => Handshake(segment_of(x, {"ACK"}, k, << >>))
  BY <1>a, <1>3 DEF Handshake
<1>. QED
  BY <1>4, <1>5, <1>6, <1>7

\* Segments of the stream, with the FIN after the last byte.
LEMMA StreamUp ==
  ASSUME NEW v, v.rcvNext \in SeqNum, v.window \in Windows, v.sent \in Nat, v.sent <= MaxSent,
         NEW flags \in {{"ACK"}, {"FIN", "ACK"}},
         NEW i \in Nat \ {0}, NEW j \in Nat, i <= j + 1, j <= v.sent,
         "FIN" \in flags => v.fin /\ j = v.sent
  PROVE  segment_of(v, flags, i, range(i, j)) \in UpSegment(v)
<1>. DEFINE data == range(i, j)
            p == segment_of(v, flags, i, data)
<1>1. /\ flags \in SUBSET Flag /\ "SYN" \notin flags /\ "RST" \notin flags /\ "ACK" \in flags
  BY DEF Flag
<1>2. 1 .. MaxSent \subseteq Byte /\ MaxSent \in Nat /\ j <= MaxSent /\ i < SeqMod /\ i <= MaxSent + 2
  BY SessionAssumption, Small
<1>3. /\ data \in Seq(Byte) /\ Len(data) = (IF i <= j THEN (j + 1) - i ELSE 0)
      /\ \A k \in 1 .. Len(data) : data[k] = (i + k) - 1
  BY <1>2, RangeType
<1>. HIDE DEF data
<1>4. p \in Segment /\ place(p) = i /\ p.flags = flags /\ p.data = data
  BY <1>1, <1>2, <1>3, SegmentOfPlace
<1>. HIDE DEF p
<1>5. i + Len(data) = j + 1
  BY <1>3
<1>6. /\ place(p) >= 1 /\ place(p) + Len(p.data) <= v.sent + 1
      /\ "FIN" \in p.flags => v.fin /\ place(p) + Len(p.data) = v.sent + 1
      /\ place(p) <= MaxSent + 2
  BY <1>2, <1>4, <1>5
<1>7. p \in UpSegment(v)
  BY <1>1, <1>3, <1>4, <1>6 DEF UpSegment
<1>. QED
  BY <1>7 DEF p, data

\* What the device sends of its own accord.
LEMMA UploadSends ==
  ASSUME UploadInv, OpeningInv', Overshoot = 0,
         DevStray \/ DevOpen \/ DevFin \/ DevResend \/ DevWindow \/ DevReset
           \/ \E k \in 1 .. MaxPayload : DevSend(k)
  PROVE  UploadInv'
<1>0. /\ dev \in DeviceRecord /\ dev.sent \in Nat /\ dev.sent <= MaxSent /\ dev.una \in Nat
      /\ dev.edge \in Nat /\ dev.fin \in BOOLEAN
      /\ devNext \in Nat /\ devNext <= MaxSent + 2 /\ devNext < SeqMod
      /\ devNext = dev.sent + (IF dev.fin THEN 2 ELSE 1)
      /\ dev.rcvNext \in SeqNum /\ dev.window \in Windows /\ dev.una <= devNext
      /\ dev.phase = "established" => dev.una >= 1
      /\ Len(net.out) \in Nat
  BY DeviceNumbers
<1>1. /\ ~dev.fin => dev.edge <= (Len(net.out) + NetCap) + 1
      /\ Within(dev, Len(net.out)) /\ (early => dev.sent = 0 /\ ~dev.fin)
  BY DEF UploadInv
<1>2. ASSUME UNCHANGED <<connVars, net, down>>, GoesOn(dev, dev'),
             NEW p \in UpSegment(dev'), up' = Append(up, p),
             dev'.una = dev.una, dev'.edge = dev.edge,
             Within(dev', Len(net.out)), dev'.una <= devNext', early' <=> early,
             early' => dev'.sent = 0 /\ ~dev'.fin
      PROVE  UploadInv'
  <2>1. ~dev'.fin => dev'.edge <= (Len(net.out) + NetCap) + 1
    BY <1>1, <1>2 DEF GoesOn
  <2>. QED
    BY <1>2, <2>1, UploadDevice
<1>3. ASSUME UNCHANGED <<connVars, net, down>>, dev'.sent = dev.sent, dev'.fin = dev.fin,
             NEW p \in UpSegment(dev'), up' = Append(up, p),
             dev'.una = dev.una, dev'.edge = dev.edge, early' <=> early
      PROVE  UploadInv'
  <2>1. devNext' = devNext /\ Within(dev', Len(net.out)) /\ GoesOn(dev, dev')
    BY <1>0, <1>1, <1>3 DEF devNext, Within, GoesOn
  <2>. QED
    BY <1>0, <1>1, <1>2, <1>3, <2>1
<1>4. CASE DevStray
  <2>1. PICK flags \in {{"RST"}, {"ACK"}, {"SYN"}} : Send(devSegment(flags, MaxSent + 2, << >>))
    BY <1>4 DEF DevStray
  <2>2. MaxSent + 2 \in Nat
    BY Small
  <2>3. devSegment(flags, MaxSent + 2, << >>) \in UpSegment(dev)
    <3>1. Failures
      BY <1>4 DEF DevStray
    <3>2. MaxSent + 2 <= MaxSent + 2
      BY <2>2
    <3>3. /\ segment_of(dev, {"ACK"}, MaxSent + 2, << >>) \in UpSegment(dev)
          /\ segment_of(dev, {"SYN"}, MaxSent + 2, << >>) \in UpSegment(dev)
          /\ segment_of(dev, {"RST"}, MaxSent + 2, << >>) \in UpSegment(dev)
      BY <1>0, <2>2, <3>1, <3>2, BareUp
    <3>. QED
      BY <3>3 DEF devSegment
  <2>4. UNCHANGED <<connVars, net, down, dev>>
    BY <1>4 DEF DevStray
  <2>5. up' = Append(up, devSegment(flags, MaxSent + 2, << >>)) /\ early' = early
    BY <2>1, <2>4 DEF Send, early
  <2>. QED
    BY <1>3, <2>3, <2>4, <2>5
<1>5. CASE DevOpen
  <2>1. /\ dev'.sent = dev.sent /\ dev'.fin = dev.fin /\ dev'.una = dev.una
        /\ dev'.edge = dev.edge /\ early' /\ early
    BY <1>0, <1>5 DEF DevOpen, DeviceRecord, early
  <2>2. up' = Append(up, devSegment({"SYN"}, 0, << >>)) /\ UNCHANGED <<connVars, net, down>>
    BY <1>5 DEF DevOpen, Send
  <2>3. devSegment({"SYN"}, 0, << >>) \in UpSegment(dev')
    <3>1. 0 <= MaxSent + 2
      BY Small
    <3>. QED
      BY <1>0, <3>1, BareUp DEF devSegment
  <2>. QED
    BY <1>3, <2>1, <2>2, <2>3
<1>6. CASE DevFin
  <2>1. /\ dev' = [dev EXCEPT !.fin = TRUE] /\ ~dev.fin /\ dev.phase = "established"
        /\ up' = Append(up, devSegment({"FIN", "ACK"}, dev.sent + 1, << >>))
        /\ UNCHANGED <<connVars, net, down>>
    BY <1>6 DEF DevFin, Send
  <2>2. /\ dev'.sent = dev.sent /\ dev'.fin /\ dev'.una = dev.una /\ dev'.edge = dev.edge
        /\ dev'.phase = dev.phase /\ dev'.rcvNext = dev.rcvNext /\ dev'.window = dev.window
    BY <1>0, <2>1 DEF DeviceRecord
  <2>3. ~early /\ ~early'
    BY <2>1, <2>2 DEF early
  <2>4. devNext' = dev.sent + 2 /\ dev.una <= dev.sent + 2
    <3>1. devNext' = (dev.sent + 1) + 1
      BY <2>2 DEF devNext
    <3>. QED
      BY <1>0, <2>1, <3>1
  <2>5. devSegment({"FIN", "ACK"}, dev.sent + 1, << >>) \in UpSegment(dev')
    <3>1. range(dev.sent + 1, dev.sent) = << >>
      <4>1. dev.sent + 1 \in Nat \ {0} /\ ~(dev.sent + 1 <= dev.sent) /\ MaxSent \in Nat
            /\ 1 .. MaxSent \subseteq Byte
        BY <1>0, SessionAssumption
      <4>2. range(dev.sent + 1, dev.sent) \in Seq(Byte) /\ Len(range(dev.sent + 1, dev.sent)) = 0
        BY <1>0, <4>1, RangeType
      <4>. QED
        BY <4>2, EmptySeq
    <3>2. segment_of(dev', {"FIN", "ACK"}, dev.sent + 1, range(dev.sent + 1, dev.sent)) \in UpSegment(dev')
      <4>1. dev.sent + 1 \in Nat \ {0} /\ dev.sent + 1 <= dev.sent + 1
        BY <1>0
      <4>2. {"FIN", "ACK"} \in {{"ACK"}, {"FIN", "ACK"}}
        OBVIOUS
      <4>. QED
        BY <1>0, <2>2, <4>1, <4>2, StreamUp
    <3>3. segment_of(dev', {"FIN", "ACK"}, dev.sent + 1, << >>)
            = devSegment({"FIN", "ACK"}, dev.sent + 1, << >>)
      BY <2>2 DEF devSegment, segment_of
    <3>. QED
      BY <3>1, <3>2, <3>3
  <2>6. GoesOn(dev, dev') /\ Within(dev', Len(net.out))
    BY <1>0, <1>1, <2>1, <2>2 DEF GoesOn, Within
  <2>. QED
    BY <1>2, <2>1, <2>2, <2>3, <2>4, <2>5, <2>6
<1>7. CASE DevResend
  <2>1. UNCHANGED <<connVars, net, down, dev>> /\ early' = early
    BY <1>7 DEF DevResend, early
  <2>2. CASE Send(devSegment({"SYN"}, 0, << >>))
    <3>1. 0 <= MaxSent + 2
      BY Small
    <3>2. devSegment({"SYN"}, 0, << >>) \in UpSegment(dev)
      BY <1>0, <3>1, BareUp DEF devSegment
    <3>3. up' = Append(up, devSegment({"SYN"}, 0, << >>))
      BY <2>2 DEF Send
    <3>. QED
      BY <1>3, <2>1, <3>2, <3>3
  <2>3. CASE dev.phase = "established" /\ dev.una < devNext /\ ~Send(devSegment({"SYN"}, 0, << >>))
    <3>. DEFINE last == smaller(dev.sent, (dev.una + MaxPayload) - 1)
                flags == IF dev.fin /\ last = dev.sent THEN {"FIN", "ACK"} ELSE {"ACK"}
    <3>1. up' = Append(up, devSegment(flags, dev.una, range(dev.una, last)))
      BY <1>7, <2>3 DEF DevResend, Send
    <3>2. last \in Nat /\ last <= dev.sent /\ dev.una <= last + 1 /\ dev.una \in Nat \ {0}
      <4>1. MaxPayload \in Nat \ {0} /\ dev.una >= 1 /\ dev.una \in Nat /\ dev.una <= dev.sent + 1
        BY <1>0, <2>3, SizesAssumption
      <4>2. (dev.una + MaxPayload) - 1 \in Nat /\ dev.una <= ((dev.una + MaxPayload) - 1) + 1
        BY <4>1
      <4>3. \A x, y, z \in Nat : z <= x + 1 /\ z <= y + 1 =>
              smaller(x, y) \in Nat /\ smaller(x, y) <= x /\ z <= smaller(x, y) + 1
        BY DEF smaller
      <4>4. dev.sent \in Nat
        BY <1>0
      <4>5. dev.una \in Nat \ {0}
        BY <4>1
      <4>. QED
        BY <4>1, <4>2, <4>3, <4>4, <4>5, Zenon
    <3>3. flags \in {{"ACK"}, {"FIN", "ACK"}} /\ ("FIN" \in flags => dev.fin /\ last = dev.sent)
      <4>1. "FIN" \notin {"ACK"}
        OBVIOUS
      <4>. QED
        BY <4>1
    <3>. HIDE DEF last, flags
    <3>4. devSegment(flags, dev.una, range(dev.una, last)) \in UpSegment(dev)
      BY <1>0, <3>2, <3>3, StreamUp DEF devSegment
    <3>. QED
      BY <1>3, <2>1, <3>1, <3>4
  <2>. QED
    BY <1>7, <2>2, <2>3 DEF DevResend
<1>8. CASE DevWindow
  <2>1. PICK w \in Windows \ {dev.window} :
          /\ dev' = [dev EXCEPT !.window = w]
          /\ Send(segment_of([dev EXCEPT !.window = w], {"ACK"}, devNext, << >>))
    BY <1>8 DEF DevWindow
  <2>2. /\ dev'.sent = dev.sent /\ dev'.fin = dev.fin /\ dev'.una = dev.una /\ dev'.edge = dev.edge
        /\ dev'.phase = dev.phase /\ dev'.rcvNext = dev.rcvNext /\ dev'.window = w
    BY <1>0, <2>1 DEF DeviceRecord
  <2>3. up' = Append(up, segment_of(dev', {"ACK"}, devNext, << >>))
    BY <2>1 DEF Send
  <2>4. segment_of(dev', {"ACK"}, devNext, << >>) \in UpSegment(dev')
    BY <1>0, <2>2, BareUp
  <2>5. UNCHANGED <<connVars, net, down>> /\ (early' <=> early)
    BY <1>8, <2>2 DEF DevWindow, early
  <2>. QED
    BY <1>3, <2>2, <2>3, <2>4, <2>5
<1>9. CASE DevReset
  <2>1. /\ dev'.sent = dev.sent /\ dev'.fin = dev.fin /\ dev'.una = dev.una /\ dev'.edge = dev.edge
        /\ early' <=> early
    BY <1>0, <1>9 DEF DevReset, DeviceRecord, early
  <2>2. up' = Append(up, devSegment({"RST", "ACK"}, devNext, << >>)) /\ UNCHANGED <<connVars, net, down>>
    BY <1>9 DEF DevReset, Send
  <2>3. devSegment({"RST", "ACK"}, devNext, << >>) \in UpSegment(dev')
    <3>1. Failures
      BY <1>9 DEF DevReset
    <3>. QED
      BY <1>0, <3>1, BareUp DEF devSegment
  <2>. QED
    BY <1>3, <2>1, <2>2, <2>3
<1>10. CASE \E k \in 1 .. MaxPayload : DevSend(k)
  <2>1. PICK k \in 1 .. MaxPayload : DevSend(k)
    BY <1>10
  <2>2. /\ dev' = [dev EXCEPT !.sent = @ + k] /\ ~dev.fin /\ dev.phase = "established"
        /\ dev.sent + k <= MaxSent /\ dev.sent + k < dev.edge + 0
        /\ up' = Append(up, devSegment({"ACK"}, dev.sent + 1, range(dev.sent + 1, dev.sent + k)))
        /\ UNCHANGED <<connVars, net, down>>
    BY <2>1 DEF DevSend, Send
  <2>3. /\ dev'.sent = dev.sent + k /\ dev'.fin = dev.fin /\ dev'.una = dev.una /\ dev'.edge = dev.edge
        /\ dev'.phase = dev.phase /\ dev'.rcvNext = dev.rcvNext /\ dev'.window = dev.window
    BY <1>0, <2>2 DEF DeviceRecord
  <2>4. ~early /\ ~early'
    BY <2>2, <2>3 DEF early
  <2>5. k \in Nat /\ k >= 1
    BY SizesAssumption
  <2>6. devNext' = (dev.sent + k) + 1 /\ dev.una <= (dev.sent + k) + 1
    <3>1. devNext' = ((dev.sent + k) + 1) + 0
      BY <2>2, <2>3 DEF devNext
    <3>. QED
      BY <1>0, <2>2, <2>5, <3>1
  <2>7. devSegment({"ACK"}, dev.sent + 1, range(dev.sent + 1, dev.sent + k)) \in UpSegment(dev')
    <3>. DEFINE data == range(dev.sent + 1, dev.sent + k)
    <3>1. segment_of(dev', {"ACK"}, dev.sent + 1, data) \in UpSegment(dev')
      <4>1. /\ dev.sent + 1 \in Nat \ {0} /\ dev.sent + k \in Nat
            /\ dev.sent + 1 <= (dev.sent + k) + 1
            /\ dev'.sent \in Nat /\ dev'.sent <= MaxSent /\ dev.sent + k <= dev'.sent
        <5>1. dev.sent \in Nat /\ dev'.sent = dev.sent + k /\ dev.sent + k <= MaxSent
          BY <1>0, <2>2, <2>3, Zenon
        <5>2. \A x \in Nat : /\ x + 1 \in Nat \ {0} /\ x + k \in Nat
                              /\ x + 1 <= (x + k) + 1 /\ x + k <= x + k
          BY <2>5
        <5>. QED
          BY <5>1, <5>2, Zenon
      <4>2. {"ACK"} \in {{"ACK"}, {"FIN", "ACK"}} /\ "FIN" \notin {"ACK"}
        OBVIOUS
      <4>. QED
        BY <1>0, <2>3, <4>1, <4>2, StreamUp
    <3>. HIDE DEF data
    <3>2. segment_of(dev', {"ACK"}, dev.sent + 1, data) = devSegment({"ACK"}, dev.sent + 1, data)
      BY <2>3 DEF devSegment, segment_of
    <3>. QED
      BY <3>1, <3>2 DEF data
  <2>8. GoesOn(dev, dev') /\ Within(dev', Len(net.out))
    <3>1. dev.sent + k <= Len(net.out) + NetCap
      <4>1. dev.edge <= (Len(net.out) + NetCap) + 1
        BY <1>1, <2>2
      <4>2. dev.sent + k < dev.edge + 0
        BY <2>2
      <4>3. ASSUME NEW l \in Nat, dev.edge <= (l + NetCap) + 1
            PROVE  dev.sent + k <= l + NetCap
        BY <1>0, <2>5, <4>2, <4>3, Small
      <4>. QED
        BY <1>0, <4>1, <4>3
    <3>2. dev.sent <= dev.sent + k
      BY <1>0, <2>5
    <3>. QED
      BY <2>2, <2>3, <3>1, <3>2 DEF GoesOn, Within
  <2>. QED
    BY <1>2, <2>2, <2>3, <2>4, <2>6, <2>7, <2>8
<1>. QED
  BY <1>4, <1>5, <1>6, <1>7, <1>8, <1>9, <1>10

\* What the device makes of a segment of the relay.
LEMMA UploadReceives ==
  ASSUME UploadInv, OpeningInv', DevReceive
  PROVE  UploadInv'
<1>. DEFINE n == Len(net.out)
            p == Head(down)
<1>0. /\ dev \in DeviceRecord /\ dev.sent \in Nat /\ dev.sent <= MaxSent /\ dev.una \in Nat
      /\ dev.edge \in Nat /\ dev.fin \in BOOLEAN
      /\ devNext \in Nat /\ devNext <= MaxSent + 2 /\ devNext < SeqMod
      /\ devNext = dev.sent + (IF dev.fin THEN 2 ELSE 1)
      /\ dev.rcvNext \in SeqNum /\ dev.window \in Windows /\ dev.una <= devNext
      /\ n \in Nat /\ down \in Seq(Promise(dev, n))
  BY DeviceNumbers
<1>1. /\ ~dev.fin => dev.edge <= (n + NetCap) + 1
      /\ Within(dev, n) /\ (early => dev.sent = 0 /\ ~dev.fin)
  BY DEF UploadInv
<1>2. /\ down # << >> /\ down' = Tail(down) /\ UNCHANGED <<connVars, net>>
      /\ GetReset(p) \/ GetSynAck(p) \/ GetAck(p) \/ GetData(p) \/ Ignore(p)
  BY DEF DevReceive
<1>3. p \in Promise(dev, n) /\ p \in Segment
  <2>1. p \in Promise(dev, n)
    BY <1>0, <1>2
  <2>. QED
    BY <2>1 DEF Promise
<1>. HIDE DEF n, p
<1>4. acked(p) \in Nat /\ p.window \in Nat
  BY <1>3, Places, SizesAssumption DEF Segment, Window
<1>5. ASSUME dev'.sent = dev.sent, dev'.fin = dev.fin,
             up' = up \/ (\E q \in UpSegment(dev') : up' = Append(up, q)),
             ~dev'.fin => dev'.edge <= (n + NetCap) + 1, dev'.una <= devNext,
             early' \/ ~early \/ (~Lost(c) /\ HandshakeAhead(up')), early' => early
      PROVE  UploadInv'
  <2>1. devNext' = devNext /\ Within(dev', n) /\ GoesOn(dev, dev')
    BY <1>0, <1>1, <1>5 DEF devNext, Within, GoesOn
  <2>. QED
    BY <1>1, <1>2, <1>5, <2>1, UploadDevice DEF n
<1>6. ASSUME "RST" \notin p.flags, acked(p) <= devNext
      PROVE  ~dev.fin => acked(p) + p.window <= (n + NetCap) + 1
  <2>1. acked(p) <= MaxSent + 2
    BY <1>0, <1>4, <1>6, Small
  <2>. QED
    BY <1>3, <1>6, <2>1 DEF Promise
<1>7. CASE GetReset(p)
  <2>1. /\ dev'.sent = dev.sent /\ dev'.fin = dev.fin /\ dev'.una = dev.una /\ dev'.edge = dev.edge
        /\ ~early /\ ~early' /\ up' = up
    BY <1>0, <1>7 DEF GetReset, DeviceRecord, early
  <2>. QED
    BY <1>0, <1>1, <1>5, <2>1
<1>8. CASE GetSynAck(p)
  <2>1. /\ dev.phase = "synSent" /\ is_syn_ack(p) /\ acked(p) = 1 /\ p.flags = {"SYN", "ACK"}
        /\ dev' = [with_ack(p) EXCEPT !.phase = "established", !.rcvNext = plus(p.seq, 1)]
        /\ up' = Append(up, segment_of(dev', {"ACK"}, devNext, << >>))
    BY <1>8 DEF GetSynAck, Reply, is_syn_ack
  <2>2. /\ dev'.sent = dev.sent /\ dev'.fin = dev.fin /\ dev'.una = acked(p)
        /\ dev'.edge = acked(p) + p.window /\ dev'.phase = "established"
        /\ dev'.window = dev.window /\ dev'.rcvNext = plus(p.seq, 1)
    BY <1>0, <2>1 DEF with_ack, DeviceRecord
  <2>3. early /\ ~early' /\ dev.sent = 0 /\ ~dev.fin
    BY <1>1, <2>1, <2>2 DEF early
  <2>4. devNext = 1
    BY <1>0, <2>3
  <2>5. ~Lost(c)
    <3>1. Lost(c) => down \in Seq(WrongSynAck)
      BY DEF UploadInv
    <3>2. Lost(c) => p \in WrongSynAck
      BY <1>2, <3>1 DEF p
    <3>. QED
      BY <2>1, <3>2 DEF WrongSynAck
  <2>6. /\ segment_of(dev', {"ACK"}, devNext, << >>) \in UpSegment(dev')
        /\ Handshake(segment_of(dev', {"ACK"}, devNext, << >>))
    <3>1. p.seq \in Nat
      BY <1>3, SizesAssumption DEF Segment, SeqNum
    <3>2. dev'.rcvNext \in SeqNum
      BY <2>2, <3>1, PlusType
    <3>. QED
      BY <1>0, <2>2, <2>4, <3>2, BareUp
  <2>7. HandshakeAhead(up')
    <3>1. up \in Seq(UpSegment(dev)) /\ up \in Seq(Segment)
      BY DEF UploadInv, OpeningInv, SessionType
    <3>2. \A i \in 1 .. Len(up) : up[i] \in UpSegment(dev)
      BY <3>1, ElementOfSeq
    <3>3. \A i \in 1 .. Len(up) : ~carries(up[i])
      BY <1>0, <2>3, <3>2, EarlyCarriesNothing
    <3>4. segment_of(dev', {"ACK"}, devNext, << >>) \in Segment
      BY <2>6 DEF UpSegment
    <3>. QED
      BY <2>1, <2>6, <3>1, <3>3, <3>4, FirstAhead
  <2>8. acked(p) <= devNext /\ "RST" \notin p.flags
    <3>1. "RST" \notin {"SYN", "ACK"}
      OBVIOUS
    <3>. QED
      BY <2>1, <2>4, <3>1
  <2>. QED
    BY <1>5, <1>6, <2>1, <2>2, <2>3, <2>5, <2>6, <2>7, <2>8
<1>9. CASE GetAck(p) \/ GetData(p)
  <2>1. /\ dev.phase = "established" /\ "RST" \notin p.flags /\ acked(p) <= devNext
        /\ up' = up \/ up' = Append(up, segment_of(dev', {"ACK"}, devNext, << >>))
    BY <1>9 DEF GetAck, GetData, acceptable, Reply
  <2>2. /\ dev'.sent = dev.sent /\ dev'.fin = dev.fin /\ dev'.una = acked(p)
        /\ dev'.edge = acked(p) + p.window /\ dev'.phase = dev.phase
    BY <1>0, <1>9 DEF GetAck, GetData, with_ack, DeviceRecord
  <2>3. ~early /\ ~early'
    BY <2>1, <2>2 DEF early
  <2>4. segment_of(dev', {"ACK"}, devNext, << >>) \in UpSegment(dev')
    <3>1. dev'.rcvNext \in SeqNum /\ dev'.window \in Windows
      BY DEF OpeningInv, SessionType, DeviceType, DeviceRecord
    <3>. QED
      BY <1>0, <3>1, BareUp
  <2>. QED
    BY <1>5, <1>6, <2>1, <2>2, <2>3, <2>4
<1>10. CASE Ignore(p)
  <2>1. dev' = dev /\ up' = up
    BY <1>10 DEF Ignore
  <2>2. early' = early
    BY <2>1 DEF early
  <2>. QED
    BY <1>0, <1>1, <1>5, <2>1, <2>2
<1>. QED
  BY <1>2, <1>7, <1>8, <1>9, <1>10

\* Every step of the session preserves the invariant.
LEMMA UploadStep ==
  ASSUME UploadInv, ~ServerEnds, Overshoot = 0, [SessionNext]_vars
  PROVE  UploadInv'
<1>0. OpeningInv'
  BY OpeningStep DEF UploadInv
<1>1. CASE Relay \/ OtherConnections
  BY <1>1, UploadRelay
<1>2. CASE Device
  BY <1>0, <1>2, UploadSends, UploadReceives DEF Device
<1>3. CASE UNCHANGED vars
  BY <1>3 DEF vars, connVars, envVars, UploadInv, OpeningInv, SessionType, Inv, DeviceType, early, devNext
<1>. QED
  BY <1>1, <1>2, <1>3 DEF SessionNext

\* It holds at first.
LEMMA UploadInitial ==
  ASSUME SessionInit
  PROVE  UploadInv
<1>1. OpeningInv /\ Sound(c)
  BY OpeningInitial DEF OpeningInv, SessionType, Inv
<1>2. /\ c = New /\ up = << >> /\ down = << >> /\ net = [out |-> << >>, in |-> 0]
      /\ dev.phase = "closed" /\ dev.sent = 0 /\ dev.una = 0 /\ dev.fin = FALSE /\ dev.edge = 0
  BY DEF SessionInit, Init
<1>3. /\ c.state = "Init" /\ c.toNetwork = << >> /\ c.buffer = << >> /\ c.deferred = << >>
      /\ c.finReceived = FALSE /\ net.out = << >> /\ Len(<< >>) = 0
  BY <1>2 DEF New, None
<1>4. taken(c, 0) = 0
  BY <1>3 DEF taken
<1>5. Books(c, 0, dev)
  <2>1. \A i \in 1 .. Len(c.toNetwork) : c.toNetwork[i] = 0 + i
    BY <1>3
  <2>. QED
    BY <1>2, <1>3, <1>4, <2>1 DEF Books, is_connected
<1>6. \A S : << >> \in Seq(S)
  OBVIOUS
<1>7. Kept(c, 0, dev)
  BY <1>1, <1>3, <1>5, <1>6 DEF Kept
<1>8. Within(dev, 0) /\ dev.una <= devNext /\ dev.edge <= (0 + NetCap) + 1
  BY <1>2, Small DEF Within, devNext
<1>9. early
  BY <1>2 DEF early
<1>. QED
  BY <1>1, <1>2, <1>3, <1>6, <1>7, <1>8, <1>9 DEF UploadInv
(* Theorems *)

\* A sequence that counts from 1.
LEMMA CountIs ==
  ASSUME NEW s \in Seq(Byte), \A i \in 1 .. Len(s) : s[i] = i
  PROVE  isPrefixOfCount(s)
<1>1. Len(s) \in Nat /\ s = [k \in 1 .. Len(s) |-> s[k]]
  BY LenProperties
<1>2. \A l \in Nat : 1 .. (l + 1 - 1) = 1 .. l /\ \A k \in 1 .. l : (1 + k) - 1 = k
  OBVIOUS
<1>3. range(1, Len(s)) = [k \in 1 .. Len(s) |-> (1 + k) - 1]
  BY <1>1, <1>2 DEF range
<1>4. [k \in 1 .. Len(s) |-> (1 + k) - 1] = [k \in 1 .. Len(s) |-> s[k]]
  BY <1>1, <1>2
<1>. QED
  BY <1>1, <1>3, <1>4 DEF isPrefixOfCount

\* What the invariant says of the properties of the upload.
LEMMA UploadProperties ==
  ASSUME UploadInv
  PROVE  /\ UploadIntact /\ WindowIsHonest /\ FinAfterData
         /\ ~Failures => AckIsAccepted
<1>. DEFINE n == Len(net.out)
<1>1. /\ Kept(c, n, dev) /\ dev \in DeviceRecord /\ n \in Nat
      /\ Sound(c) /\ c \in Connection /\ net.out \in Seq(Byte) /\ c.toNetwork \in Seq(Byte)
      /\ up \in Seq(UpSegment(dev)) /\ Books(c, n, dev)
  BY LenProperties
     DEF UploadInv, OpeningInv, SessionType, DeviceType, Inv, Sound, Typed, Connection, Kept
<1>2. /\ \A i \in 1 .. Len(net.out) : net.out[i] = i
      /\ \A i \in 1 .. Len(c.toNetwork) : c.toNetwork[i] = Len(net.out) + i
  BY <1>1 DEF UploadInv, Books
<1>3. /\ Len(c.toNetwork) \in Nat /\ Len(c.toNetwork) <= NetCap
      /\ taken(c, n) \in Nat /\ taken(c, n) = n + Len(c.toNetwork) /\ dev.sent \in Nat
  <2>. HIDE DEF n
  <2>. QED
    BY <1>1, TakenType
<1>4. UploadIntact
  <2>. DEFINE b == net.out \o c.toNetwork
  <2>1. /\ b \in Seq(Byte) /\ Len(b) = Len(net.out) + Len(c.toNetwork)
        /\ \A i \in 1 .. Len(b) : b[i] = IF i <= Len(net.out) THEN net.out[i]
                                         ELSE c.toNetwork[i - Len(net.out)]
    <3>1. net.out \in Seq(Byte) /\ c.toNetwork \in Seq(Byte)
      BY <1>1
    <3>. QED
      BY <3>1, Joined, Zenon
  <2>. HIDE DEF b
  <2>2. ASSUME NEW i \in 1 .. Len(b)
        PROVE  b[i] = i
    <3>0. i \in 1 .. (Len(net.out) + Len(c.toNetwork))
      BY <2>1
    <3>1. CASE i <= Len(net.out)
      <4>1. i \in 1 .. Len(net.out)
        BY <1>1, <1>3, <3>0, <3>1
      <4>. QED
        BY <1>2, <2>1, <3>1, <4>1
    <3>2. CASE ~(i <= Len(net.out))
      <4>1. i - Len(net.out) \in 1 .. Len(c.toNetwork)
        BY <1>1, <1>3, <3>0, <3>2, Second
      <4>2. Len(net.out) + (i - Len(net.out)) = i
        BY <1>1, <1>3, <3>0
      <4>. QED
        BY <1>2, <2>1, <3>2, <4>1, <4>2
    <3>. QED
      BY <3>1, <3>2
  <2>. QED
    BY <2>1, <2>2, CountIs DEF UploadIntact, b
<1>5. WindowIsHonest
  <2>. HIDE DEF n
  <2>. SUFFICES ASSUME up # << >>, c.state # "Init", Head(up).seq = c.ack
                PROVE  Len(Head(up).data) <= NetCap - Len(c.toNetwork)
    BY DEF WindowIsHonest
  <2>. DEFINE p == Head(up)
  <2>1. p \in UpSegment(dev)
    BY <1>1
  <2>. HIDE DEF p
  <2>2. p \in Segment /\ p.data \in Seq(Byte) /\ Len(p.data) \in Nat
    BY <2>1, LenProperties DEF UpSegment, Segment
  <2>3. InPlace(c, n, p)
    BY <1>1, <2>1, ExpectedPlace DEF p
  <2>4. CASE p.data = << >>
    <3>1. Len(p.data) = 0
      BY <2>4
    <3>2. 0 <= NetCap - Len(c.toNetwork)
      BY <1>3, Small
    <3>. QED
      BY <3>1, <3>2 DEF p
  <2>5. CASE p.data # << >>
    <3>1. place(p) + Len(p.data) <= dev.sent + 1 /\ place(p) \in Nat
      BY <2>1, <2>2, <2>5, Places DEF UpSegment, carries
    <3>2. place(p) >= taken(c, n) + 1
      BY <1>3, <2>3 DEF InPlace
    <3>3. taken(c, n) + Len(p.data) <= dev.sent
      <4>1. ASSUME NEW l \in Nat, place(p) + l <= dev.sent + 1
            PROVE  taken(c, n) + l <= dev.sent
        BY <1>3, <3>1, <3>2, <4>1
      <4>. QED
        BY <2>2, <3>1, <4>1
    <3>4. dev.sent <= n + NetCap
      BY DEF UploadInv, Within, n
    <3>5. taken(c, n) + Len(p.data) <= n + NetCap
      <4>1. ASSUME NEW l \in Nat, taken(c, n) + l <= dev.sent
            PROVE  taken(c, n) + l <= n + NetCap
        BY <1>1, <1>3, <3>4, <4>1, Small
      <4>. QED
        BY <2>2, <3>3, <4>1
    <3>6. (n + Len(c.toNetwork)) + Len(p.data) <= n + NetCap
      BY <1>3, <3>5
    <3>7. Len(p.data) <= NetCap - Len(c.toNetwork)
      BY <1>1, <1>3, <2>2, <3>6, RoomLeft
    <3>. QED
      BY <3>7 DEF p
  <2>. QED
    BY <2>4, <2>5
<1>6. FinAfterData
  <2>. SUFFICES ASSUME c.state = "LastAck"
                PROVE  dev.fin /\ net.out = range(1, dev.sent)
    BY DEF FinAfterData
  <2>1. dev.fin /\ taken(c, n) = dev.sent /\ Len(c.toNetwork) = 0
    BY <1>1 DEF Books
  <2>2. Len(net.out) = dev.sent
    BY <1>1, <1>3, <2>1
  <2>3. net.out = range(1, Len(net.out))
    BY <1>1, <1>2, CountIs DEF isPrefixOfCount
  <2>. QED
    BY <2>1, <2>2, <2>3
<1>7. ASSUME ~Failures
      PROVE  AckIsAccepted
  <2>. SUFFICES ASSUME c.state # "Init"
                PROVE  c.ack = plus(DeviceIsn, 1 + accepted + (IF c.finSeq # None THEN 1 ELSE 0))
    BY DEF AckIsAccepted
  <2>1. c.ack = at(taken(c, n) + (IF c.state = "LastAck" THEN 2 ELSE 1))
    BY <1>1, <1>7 DEF Books, Astray
  <2>2. c.finSeq # None <=> c.state = "LastAck"
    BY <1>1 DEF Sound, FinMatches, is_closed, Books
  <2>3. accepted \in Nat /\ accepted = taken(c, n)
    BY <1>3 DEF accepted
  <2>4. CASE c.state = "LastAck"
    <3>1. 1 + accepted + 1 = taken(c, n) + 2
      BY <2>3
    <3>. QED
      BY <2>1, <2>2, <2>4, <3>1 DEF at
  <2>5. CASE c.state # "LastAck"
    <3>1. 1 + accepted + 0 = taken(c, n) + 1
      BY <2>3
    <3>. QED
      BY <2>1, <2>2, <2>5, <3>1 DEF at
  <2>. QED
    BY <2>4, <2>5
<1>. QED
  BY <1>4, <1>5, <1>6, <1>7

\* While the server keeps its side open and the device respects the window,
\* whatever fails: what reaches the socket is the device's stream, in order,
\* without gap and without repetition, however segments are retransmitted.
THEOREM UploadIsIntact ==
  ASSUME ~ServerEnds, Overshoot = 0
  PROVE  SessionSpec => []UploadIntact
<1>1. UploadInv /\ [SessionNext]_vars => UploadInv'
  BY UploadStep
<1>2. UploadInv => UploadIntact
  BY UploadProperties
<1>. QED
  BY <1>1, <1>2, UploadInitial, PTL DEF SessionSpec

\* In the same circumstances the payload of an expected segment always fits in
\* client_to_network: the advertised window is a promise the relay keeps.
THEOREM WindowIsKept ==
  ASSUME ~ServerEnds, Overshoot = 0
  PROVE  SessionSpec => []WindowIsHonest
<1>1. UploadInv /\ [SessionNext]_vars => UploadInv'
  BY UploadStep
<1>2. UploadInv => WindowIsHonest
  BY UploadProperties
<1>. QED
  BY <1>1, <1>2, UploadInitial, PTL DEF SessionSpec

\* In the same circumstances the relay answers the device's FIN only when every
\* byte sent before it has been written to the socket.
THEOREM FinIsLast ==
  ASSUME ~ServerEnds, Overshoot = 0
  PROVE  SessionSpec => []FinAfterData
<1>1. UploadInv /\ [SessionNext]_vars => UploadInv'
  BY UploadStep
<1>2. UploadInv => FinAfterData
  BY UploadProperties
<1>. QED
  BY <1>1, <1>2, UploadInitial, PTL DEF SessionSpec

\* Without failures, which include SYNs of older connections, the relay
\* acknowledges exactly the bytes it has taken charge of.
THEOREM AcksAreAccepted ==
  ASSUME ~ServerEnds, Overshoot = 0, ~Failures
  PROVE  SessionSpec => []AckIsAccepted
<1>1. UploadInv /\ [SessionNext]_vars => UploadInv'
  BY UploadStep
<1>2. UploadInv => AckIsAccepted
  BY UploadProperties
<1>. QED
  BY <1>1, <1>2, UploadInitial, PTL DEF SessionSpec
-----------------------------------------------------------------------------
(* Retransmissions *)

\* A segment that repeats bytes of the first k ones, or has none.
Repeats(p, k) == p.data = << >> \/ (place(p) + Len(p.data)) - 1 <= k

\* A segment that goes on after the first k bytes.
Extends(p, k) == p.data # << >> /\ place(p) = k + 1

\* Without failures nothing is lost on the way: each segment under way repeats
\* bytes that the relay has by the time it arrives, or goes on where they end.
\* The bytes the relay has when it has received i segments of s are r[i].
Follows(s, r, i) ==
  \/ r[i] = r[i - 1] /\ Repeats(s[i], r[i])
  \/ Extends(s[i], r[i - 1]) /\ r[i] = r[i - 1] + Len(s[i].data)

Chain(s, n, m) ==
  \E r \in [0 .. Len(s) -> 0 .. MaxSent] :
    /\ r[0] = n /\ r[Len(s)] = m
    /\ \A i \in 1 .. Len(s) : Follows(s, r, i)

Syns == {p \in Segment : "SYN" \in p.flags}

SmoothInv ==
  /\ UploadInv
  /\ Chain(up, taken(c, Len(net.out)), dev.sent)
  /\ c.state # "Init" => c.synSeq = at(0)
  /\ early => up \in Seq(Syns)
  /\ c.closed => dev.fin /\ taken(c, Len(net.out)) = dev.sent
  /\ pc = "gone" => c.closed

\* The bytes the relay has after a segment.
after(p, k) == IF Extends(p, k) THEN k + Len(p.data) ELSE k

\* A segment does not both repeat and extend.
LEMMA NotBoth ==
  ASSUME NEW p \in Segment, NEW k \in Nat, Repeats(p, k)
  PROVE  ~Extends(p, k)
<1>1. place(p) \in Nat /\ Len(p.data) \in Nat /\ (p.data # << >> => Len(p.data) # 0)
  BY Places, LenProperties, EmptySeq DEF Segment
<1>2. ASSUME p.data # << >>, place(p) = k + 1, (place(p) + Len(p.data)) - 1 <= k
      PROVE  FALSE
  <2>1. ASSUME NEW l \in Nat, l # 0, NEW i \in Nat, i = k + 1, (i + l) - 1 <= k
        PROVE  FALSE
    BY <2>1
  <2>. QED
    BY <1>1, <1>2, <2>1
<1>. QED
  BY <1>2 DEF Repeats, Extends

\* The first segment of a chain, and what is left of the chain after it.
LEMMA ChainTail ==
  ASSUME NEW s \in Seq(Segment), s # << >>, NEW n, NEW m, Chain(s, n, m)
  PROVE  /\ Repeats(Head(s), n) \/ Extends(Head(s), n)
         /\ Chain(Tail(s), after(Head(s), n), m)
<1>1. PICK r \in [0 .. Len(s) -> 0 .. MaxSent] :
        /\ r[0] = n /\ r[Len(s)] = m
        /\ \A i \in 1 .. Len(s) : Follows(s, r, i)
  BY DEF Chain
<1>2. Len(s) \in Nat /\ Len(s) # 0 /\ Head(s) = s[1] /\ Head(s) \in Segment
  BY LenProperties, EmptySeq
<1>3. 1 \in 1 .. Len(s) /\ 1 - 1 = 0 /\ 0 \in 0 .. Len(s) /\ MaxSent \in Nat
  BY <1>2, Small
<1>4. n \in Nat
  BY <1>1, <1>3
<1>5. r[1] = after(Head(s), n) /\ (Repeats(Head(s), n) \/ Extends(Head(s), n))
  <2>1. Follows(s, r, 1)
    BY <1>1, <1>3
  <2>2. \/ r[1] = n /\ Repeats(Head(s), n)
        \/ Extends(Head(s), n) /\ r[1] = n + Len(Head(s).data)
    BY <1>1, <1>2, <1>3, <2>1 DEF Follows
  <2>. QED
    BY <1>2, <1>4, <2>2, NotBoth DEF after
<1>. DEFINE t == Tail(s)
            q == [i \in 0 .. Len(t) |-> r[i + 1]]
<1>6. t \in Seq(Segment) /\ Len(t) = Len(s) - 1 /\ Len(t) \in Nat
      /\ \A i \in 1 .. Len(t) : t[i] = s[i + 1]
  BY <1>2, HeadTailProperties
<1>. HIDE DEF t
<1>7. \A i \in 0 .. Len(t) : i + 1 \in 0 .. Len(s)
  BY <1>2, <1>6
<1>8. q \in [0 .. Len(t) -> 0 .. MaxSent]
  BY <1>1, <1>7
<1>9. q[0] = r[1] /\ q[Len(t)] = r[Len(s)]
  <2>1. 0 \in 0 .. Len(t) /\ Len(t) \in 0 .. Len(t) /\ 0 + 1 = 1 /\ Len(t) + 1 = Len(s)
    BY <1>2, <1>6
  <2>. QED
    BY <2>1
<1>10. ASSUME NEW i \in 1 .. Len(t)
       PROVE  Follows(t, q, i)
  <2>1. /\ i + 1 \in 1 .. Len(s) /\ (i + 1) - 1 = i /\ (i - 1) + 1 = i
        /\ i - 1 \in 0 .. Len(t) /\ i \in 0 .. Len(t)
    BY <1>2, <1>6
  <2>2. q[i] = r[i + 1] /\ q[i - 1] = r[i] /\ t[i] = s[i + 1]
    BY <1>6, <2>1
  <2>3. Follows(s, r, i + 1)
    BY <1>1, <2>1
  <2>. HIDE DEF q
  <2>. QED
    BY <2>1, <2>2, <2>3 DEF Follows
<1>. HIDE DEF q
<1>11. Chain(t, after(Head(s), n), m)
  BY <1>1, <1>5, <1>8, <1>9, <1>10 DEF Chain
<1>. QED
  BY <1>5, <1>11 DEF t

\* One more segment.
LEMMA ChainAppend ==
  ASSUME NEW s \in Seq(Segment), NEW n, NEW m \in 0 .. MaxSent, Chain(s, n, m), NEW p \in Segment,
         Repeats(p, m) \/ Extends(p, m), NEW k \in 0 .. MaxSent, k = after(p, m)
  PROVE  Chain(Append(s, p), n, k)
<1>1. PICK r \in [0 .. Len(s) -> 0 .. MaxSent] :
        /\ r[0] = n /\ r[Len(s)] = m
        /\ \A i \in 1 .. Len(s) : Follows(s, r, i)
  BY DEF Chain
<1>. DEFINE t == Append(s, p)
            q == [i \in 0 .. Len(t) |-> IF i <= Len(s) THEN r[i] ELSE k]
<1>2. /\ Len(s) \in Nat /\ Len(t) = Len(s) + 1
      /\ \A i \in 1 .. Len(s) : t[i] = s[i]
      /\ t[Len(s) + 1] = p
  BY AppendProperties, LenProperties
<1>. HIDE DEF t
<1>3. \A i \in 0 .. Len(t) : i <= Len(s) => i \in 0 .. Len(s)
  BY <1>2
<1>4. q \in [0 .. Len(t) -> 0 .. MaxSent]
  BY <1>1, <1>3
<1>5. /\ \A i \in 0 .. Len(s) : q[i] = r[i]
      /\ q[Len(s) + 1] = k
  <2>1. \A i \in 0 .. Len(s) : i \in 0 .. Len(t) /\ i <= Len(s)
    BY <1>2
  <2>2. Len(s) + 1 \in 0 .. Len(t) /\ ~(Len(s) + 1 <= Len(s))
    BY <1>2
  <2>. QED
    BY <2>1, <2>2
<1>. HIDE DEF q
<1>6. q[0] = n /\ q[Len(t)] = k /\ q[Len(s)] = m
  BY <1>1, <1>2, <1>5
<1>7. ASSUME NEW i \in 1 .. Len(t)
      PROVE  Follows(t, q, i)
  <2>1. CASE i <= Len(s)
    <3>1. i \in 1 .. Len(s) /\ i \in 0 .. Len(s) /\ i - 1 \in 0 .. Len(s)
      BY <1>2, <2>1
    <3>2. q[i] = r[i] /\ q[i - 1] = r[i - 1] /\ t[i] = s[i] /\ Follows(s, r, i)
      BY <1>1, <1>2, <1>5, <3>1
    <3>. QED
      BY <3>2 DEF Follows
  <2>2. CASE ~(i <= Len(s))
    <3>1. i = Len(s) + 1 /\ i - 1 = Len(s)
      BY <1>2, <2>2
    <3>2. q[i] = k /\ q[i - 1] = m /\ t[i] = p
      BY <1>2, <1>5, <1>6, <3>1
    <3>3. CASE Extends(p, m)
      BY <3>2, <3>3 DEF Follows, after
    <3>4. CASE ~Extends(p, m)
      BY <3>2, <3>4 DEF Follows, after
    <3>. QED
      BY <3>3, <3>4
  <2>. QED
    BY <2>1, <2>2
<1>8. Chain(t, n, k)
  BY <1>4, <1>6, <1>7 DEF Chain
<1>. QED
  BY <1>8 DEF t

\* Nothing goes on after the last byte of the device.
LEMMA NothingAfterLast ==
  ASSUME NEW v \in DeviceRecord, NEW p \in UpSegment(v)
  PROVE  ~Extends(p, v.sent)
<1>. SUFFICES ASSUME p.data # << >>, place(p) = v.sent + 1
              PROVE  FALSE
  BY DEF Extends
<1>1. p \in Segment /\ place(p) + Len(p.data) <= v.sent + 1
  BY DEF UpSegment, carries
<1>2. Len(p.data) \in Nat /\ Len(p.data) # 0 /\ v.sent \in Nat
  BY <1>1, LenProperties, EmptySeq, Small DEF Segment, DeviceRecord
<1>3. ASSUME NEW l \in Nat, l # 0, (v.sent + 1) + l <= v.sent + 1
      PROVE  FALSE
  BY <1>2, <1>3
<1>. QED
  BY <1>1, <1>2, <1>3

\* handle_packet() takes a segment that goes on, and nothing else.
LEMMA SmoothPacket ==
  ASSUME NEW d, NEW n \in Nat, NEW v \in DeviceRecord, Kept(d, n, v),
         NEW p \in UpSegment(v), NEW isn \in SeqNum, Within(v, n),
         ~is_connected(d.state) => ~carries(p), ~Failures,
         d.state = "Init" => "SYN" \in p.flags,
         d.state # "Init" => d.synSeq = at(0)
  PROVE  LET e == handle_packet(d, p, isn)
         IN  /\ e.synSeq = at(0)
             /\ taken(e, n) = after(p, taken(d, n))
             /\ e.closed => d.closed \/ (v.fin /\ taken(e, n) = v.sent)
<1>. DEFINE e == handle_packet(d, p, isn)
            f == [d EXCEPT !.ack = plus(p.seq, 1), !.synSeq = p.seq, !.seq = isn,
                           !.window = p.window, !.state = "SynSent"]
            g == [d EXCEPT !.synSeq = p.seq, !.ack = plus(p.seq, 1)]
<1>1. Sound(d) /\ Typed(d) /\ d \in Connection /\ p \in Segment /\ Books(d, n, v)
  BY DEF Kept, Sound, Typed, UpSegment
<1>2. taken(d, n) \in Nat
  BY <1>1, TakenType
<1>3. ASSUME NEW x, x.toNetwork = d.toNetwork
      PROVE  taken(x, n) = taken(d, n)
  BY <1>3 DEF taken
<1>4. "SYN" \in p.flags => p.seq = at(0) /\ ~Extends(p, taken(d, n))
  <2>1. "SYN" \in p.flags => place(p) = 0 /\ p.data = << >>
    BY DEF UpSegment, carries
  <2>. QED
    BY <1>1, <2>1, Places DEF Extends
<1>5. CASE d.state = "Init"
  <2>1. e = f
    BY <1>5 DEF handle_packet, handle_first_packet
  <2>2. f.toNetwork = d.toNetwork /\ f.synSeq = p.seq /\ f.closed = d.closed
    BY <1>1 DEF Connection
  <2>. HIDE DEF e, f
  <2>. QED
    BY <1>3, <1>4, <1>5, <2>1, <2>2 DEF after, e
<1>6. CASE d.state # "Init" /\ "SYN" \in p.flags
  <2>1. e = d \/ e = g
    BY <1>4, <1>6 DEF handle_packet, handle_duplicate_syn
  <2>2. g.toNetwork = d.toNetwork /\ g.synSeq = p.seq /\ g.closed = d.closed
    BY <1>1 DEF Connection
  <2>. HIDE DEF e, g
  <2>. QED
    BY <1>3, <1>4, <1>6, <2>1, <2>2 DEF after, e
<1>7. CASE d.state # "Init" /\ "SYN" \notin p.flags /\ p.seq = d.ack
  <2>1. e = handle_expected(d, p) /\ "RST" \notin p.flags
    BY <1>7 DEF handle_packet, UpSegment
  <2>. HIDE DEF e
  <2>2. /\ taken(e, n) = taken(d, n) + Len(p.data) /\ e.synSeq = d.synSeq
        /\ e.closed => d.closed \/ "RST" \in p.flags \/ (v.fin /\ taken(e, n) = v.sent)
    BY <1>7, <2>1, KeptExpected
  <2>3. taken(d, n) + Len(p.data) = after(p, taken(d, n))
    <3>1. CASE p.data = << >>
      <4>1. Len(p.data) = 0 /\ ~Extends(p, taken(d, n))
        BY <3>1 DEF Extends
      <4>2. taken(d, n) + 0 = taken(d, n)
        BY <1>2
      <4>. QED
        BY <4>1, <4>2 DEF after
    <3>2. CASE p.data # << >>
      <4>1. InPlace(d, n, p) /\ (d.state = "LastAck" => ~carries(p))
        BY <1>7, ExpectedPlace
      <4>2. place(p) = taken(d, n) + 1
        BY <3>2, <4>1 DEF InPlace, carries
      <4>. QED
        BY <3>2, <4>2 DEF after, Extends
    <3>. QED
      BY <3>1, <3>2
  <2>. QED
    BY <1>7, <2>1, <2>2, <2>3 DEF e
<1>8. CASE d.state # "Init" /\ "SYN" \notin p.flags /\ p.seq # d.ack
  <2>1. e = d \/ e = send_empty(d, {"ACK"})
    BY <1>8 DEF handle_packet
  <2>2. SameTcb(d, send_empty(d, {"ACK"}))
    <3>1. {"ACK"} \in SUBSET Flag
      BY DEF Flag
    <3>. QED
      BY <1>1, <3>1, SendEmptyAnswers DEF Answered
  <2>. HIDE DEF e
  <2>3. e.toNetwork = d.toNetwork /\ e.synSeq = d.synSeq /\ e.closed = d.closed
    BY <2>1, <2>2 DEF SameTcb, SameCore
  <2>4. ~Extends(p, taken(d, n))
    <3>1. CASE d.state = "LastAck"
      <4>1. taken(d, n) = v.sent
        BY <1>1, <3>1 DEF Books
      <4>. QED
        BY <4>1, NothingAfterLast
    <3>2. CASE d.state # "LastAck"
      <4>1. d.ack = at(taken(d, n) + 1)
        BY <1>1, <1>8, <3>2 DEF Books, Astray
      <4>2. p.seq = at(place(p))
        BY <1>1, Places
      <4>. QED
        BY <1>8, <4>1, <4>2 DEF Extends
    <3>. QED
      BY <3>1, <3>2
  <2>. QED
    BY <1>3, <1>8, <2>3, <2>4 DEF after, e
<1>. QED
  BY <1>5, <1>6, <1>7, <1>8

\* The steps of the relay.
LEMMA SmoothRelay ==
  ASSUME SmoothInv, UploadInv', ~Failures, ~ServerEnds, Relay \/ OtherConnections
  PROVE  SmoothInv'
<1>. DEFINE n == Len(net.out)
            k == taken(c, n)
<1>1. /\ UploadInv /\ Kept(c, n, dev) /\ dev \in DeviceRecord /\ n \in Nat /\ Young(c)
      /\ c \in Connection /\ up \in Seq(Segment) /\ Within(dev, n)
      /\ net \in [out : Seq(Byte), in : 0 .. MaxServed]
      /\ Chain(up, k, dev.sent)
  BY LenProperties
     DEF SmoothInv, UploadInv, OpeningInv, SessionType, DeviceType, Inv, Sound, Typed
<1>2. /\ c.state # "Init" => c.synSeq = at(0)
      /\ early => up \in Seq(Syns)
      /\ c.closed => dev.fin /\ k = dev.sent
      /\ pc = "gone" => c.closed
      /\ c.state = "Init" => early
  BY DEF SmoothInv, UploadInv, Lost, Opening
<1>. HIDE DEF n
<1>3. ASSUME UNCHANGED <<dev, up>>, taken(c', Len(net'.out)) = k, Trail(c, c'),
             c'.state # "Init" => c.state # "Init",
             pc' = "gone" => pc = "gone" \/ c'.closed
      PROVE  SmoothInv'
  <2>. HIDE DEF k
  <2>1. Chain(up', taken(c', Len(net'.out)), dev'.sent)
    BY <1>1, <1>3
  <2>2. early' => up' \in Seq(Syns)
    BY <1>2, <1>3 DEF early
  <2>3. /\ c'.state # "Init" => c'.synSeq = at(0)
        /\ c'.closed => dev'.fin /\ taken(c', Len(net'.out)) = dev'.sent
        /\ pc' = "gone" => c'.closed
    BY <1>2, <1>3 DEF Trail
  <2>. QED
    BY <2>1, <2>2, <2>3 DEF SmoothInv
<1>4. ASSUME up # << >>, up' = Tail(up), UNCHANGED <<dev, net>>,
             taken(c', n) = after(Head(up), k),
             c'.state # "Init" => c'.synSeq = at(0),
             c'.closed => c.closed \/ (dev.fin /\ taken(c', n) = dev.sent),
             c.closed => taken(c', n) = dev.sent,
             pc' = "gone" => c'.closed
      PROVE  SmoothInv'
  <2>1. Chain(up', taken(c', n), dev.sent)
    <3>. HIDE DEF k
    <3>. QED
      BY <1>1, <1>4, ChainTail
  <2>2. early => up' \in Seq(Syns)
    BY <1>2, <1>4
  <2>3. early' = early /\ Len(net'.out) = n
    BY <1>4 DEF early, n
  <2>4. Chain(up', taken(c', Len(net'.out)), dev'.sent) /\ (early' => up' \in Seq(Syns))
        /\ (c'.closed => dev'.fin /\ taken(c', Len(net'.out)) = dev'.sent)
    BY <1>2, <1>4, <2>1, <2>2, <2>3
  <2>. QED
    BY <1>4, <2>4 DEF SmoothInv
<1>5. up # << >> => Head(up) \in UpSegment(dev) /\ (c.closed => after(Head(up), k) = dev.sent)
  <2>1. up # << >> => Head(up) \in UpSegment(dev)
    BY DEF SmoothInv, UploadInv
  <2>. QED
    BY <1>1, <1>2, <2>1, NothingAfterLast DEF after
<1>6. CASE RelayHandle
  <2>1. up # << >> /\ up' = Tail(up) /\ UNCHANGED <<dev, net>>
    BY <1>6 DEF RelayHandle
  <2>2. PICK isn \in RelayIsns : Handle(Head(up), isn)
    BY <1>6 DEF RelayHandle
  <2>3. /\ c' = handle_packet(c, Head(up), isn) /\ pc = "idle" /\ isn \in SeqNum
        /\ pc' = "gone" => c'.closed
    BY <2>2, SessionAssumption DEF Handle, remaining_in_router
  <2>4. Head(up) \in UpSegment(dev) /\ (~is_connected(c.state) => ~carries(Head(up)))
    BY <1>1, <2>1, <2>3, HeadCarries
  <2>5. c.state = "Init" => "SYN" \in Head(up).flags
    <3>1. c.state = "Init" => Head(up) \in Syns
      BY <1>2, <2>1
    <3>. QED
      BY <3>1 DEF Syns
  <2>6. /\ c'.synSeq = at(0)
        /\ taken(c', n) = after(Head(up), k)
        /\ c'.closed => c.closed \/ (dev.fin /\ taken(c', n) = dev.sent)
    BY <1>1, <1>2, <2>3, <2>4, <2>5, SmoothPacket
  <2>. HIDE DEF k
  <2>. QED
    BY <1>4, <1>5, <2>1, <2>3, <2>6
<1>7. CASE RouterAbsorbs
  <2>1. up # << >> /\ up' = Tail(up) /\ UNCHANGED <<dev, net, c, pc>> /\ pc = "gone"
    BY <1>7 DEF RouterAbsorbs, connVars
  <2>2. c.closed /\ dev.fin /\ k = dev.sent /\ after(Head(up), k) = dev.sent
    BY <1>2, <1>5, <2>1
  <2>3. taken(c', n) = k
    BY <2>1
  <2>. HIDE DEF k
  <2>. QED
    BY <1>2, <1>4, <2>1, <2>2, <2>3
<1>8. CASE RelayFlush \/ (RelaySend /\ ~SocketAccepts) \/ RelayReceive \/ RelayConnect
             \/ OtherConnections
  <2>1. /\ UNCHANGED <<dev, up, down>> /\ net'.out = net.out
        /\ c'.state # "Init" => c.state # "Init"
        /\ Trail(c, c') /\ c'.toNetwork = c.toNetwork
        /\ pc' = "gone" => pc = "gone" \/ c'.closed
    BY <1>1, <1>8, UploadPoll
  <2>2. taken(c', Len(net'.out)) = k
    BY <2>1 DEF taken, n
  <2>. QED
    BY <1>3, <2>1, <2>2
<1>9. CASE SocketAccepts
  <2>1. PICK w \in 1 .. Len(c.toNetwork) :
          /\ PollSendBytes(w)
          /\ net' = [net EXCEPT !.out = @ \o SubSeq(c.toNetwork, 1, w)]
          /\ UNCHANGED <<dev, up, down>>
    BY <1>9 DEF SocketAccepts
  <2>2. c' = process_send(c, w) /\ pc' = "receive"
    BY <2>1 DEF PollSendBytes
  <2>3. /\ net'.out = net.out \o SubSeq(c.toNetwork, 1, w) /\ c.toNetwork \in Seq(Byte)
        /\ net.out \in Seq(Byte)
    BY <1>1, <2>1 DEF Connection
  <2>4. Kept(c', n + w, dev) /\ is_connected(c'.state) /\ Trail(c, c') /\ taken(c', n + w) = k
    BY <1>1, <2>2, KeptProcessSend
  <2>5. Len(net'.out) = n + w
    <3>1. /\ \A i \in 1 .. Len(net.out) : net.out[i] = i
          /\ \A i \in 1 .. Len(c.toNetwork) : c.toNetwork[i] = Len(net.out) + i
      BY <1>1 DEF UploadInv, Kept, Books, n
    <3>. QED
      BY <2>3, <3>1, Moved DEF n
  <2>6. c.state # "Init"
    <3>1. c.toNetwork # << >>
      BY <2>1 DEF PollSendBytes
    <3>. QED
      BY <1>1, <3>1 DEF Young, is_connected
  <2>. HIDE DEF k
  <2>. QED
    BY <1>3, <2>1, <2>2, <2>4, <2>5, <2>6
<1>10. CASE RelayDrain
  <2>1. /\ c' = [c EXCEPT !.buffer = << >>, !.used = 0]
        /\ UNCHANGED <<dev, up, net, pc>>
    BY <1>10 DEF RelayDrain, Drain
  <2>2. c'.state = c.state /\ c'.toNetwork = c.toNetwork /\ Trail(c, c')
    BY <1>1, <2>1 DEF Connection, Trail
  <2>3. taken(c', Len(net'.out)) = k
    BY <2>1, <2>2 DEF taken, n
  <2>. QED
    BY <1>3, <2>1, <2>2, <2>3
<1>. QED
  BY <1>6, <1>7, <1>8, <1>9, <1>10 DEF Relay

\* The steps of the device.
LEMMA SmoothDevice ==
  ASSUME SmoothInv, UploadInv', ~Failures, Device
  PROVE  SmoothInv'
<1>. DEFINE n == Len(net.out)
            k == taken(c, n)
<1>0. /\ dev \in DeviceRecord /\ dev.sent \in Nat /\ dev.sent <= MaxSent /\ dev.una \in Nat
      /\ dev.rcvNext \in SeqNum /\ dev.window \in Windows
      /\ devNext \in Nat /\ devNext < SeqMod /\ dev.una <= devNext
      /\ devNext = dev.sent + (IF dev.fin THEN 2 ELSE 1)
      /\ dev.phase = "established" => dev.una >= 1
  BY DeviceNumbers DEF SmoothInv
<1>1. Chain(up, k, dev.sent) /\ up \in Seq(Segment) /\ dev' \in DeviceRecord
  BY DEF SmoothInv, UploadInv, OpeningInv, SessionType, DeviceType
<1>2. /\ c.state # "Init" => c.synSeq = at(0)
      /\ early => up \in Seq(Syns)
      /\ c.closed => dev.fin /\ k = dev.sent
      /\ pc = "gone" => c.closed
  BY DEF SmoothInv
<1>. HIDE DEF n, k
<1>3. UNCHANGED <<connVars, net>>
  BY DEF Device, DevStray, DevOpen, DevFin, DevResend, DevWindow, DevReset, DevReceive, DevSend
<1>4. ASSUME Chain(up', k, dev'.sent), dev.fin => dev'.fin /\ dev'.sent = dev.sent,
             early' => up' \in Seq(Syns)
      PROVE  SmoothInv'
  <2>1. c' = c /\ pc' = pc /\ taken(c', Len(net'.out)) = k
    BY <1>3 DEF connVars, k, n
  <2>2. c'.closed => dev'.fin /\ taken(c', Len(net'.out)) = dev'.sent
    BY <1>2, <1>4, <2>1
  <2>. QED
    BY <1>2, <1>4, <2>1, <2>2 DEF SmoothInv
<1>5. ASSUME up' = up, dev'.sent = dev.sent, dev'.fin = dev.fin, early' => early
      PROVE  SmoothInv'
  BY <1>1, <1>2, <1>4, <1>5
<1>6. ASSUME NEW p \in Segment, up' = Append(up, p), p.data = << >>, dev'.sent = dev.sent,
             dev.fin => dev'.fin, early' => early /\ "SYN" \in p.flags
      PROVE  SmoothInv'
  <2>1. Repeats(p, dev.sent) /\ ~Extends(p, dev.sent)
    BY <1>6 DEF Repeats, Extends
  <2>2. dev.sent \in 0 .. MaxSent /\ dev.sent = after(p, dev.sent)
    BY <1>0, <2>1, Small DEF after
  <2>3. Chain(up', k, dev'.sent)
    BY <1>1, <1>6, <2>1, <2>2, ChainAppend
  <2>4. early' => up' \in Seq(Syns)
    BY <1>2, <1>6, AppendProperties DEF Syns
  <2>. QED
    BY <1>4, <1>6, <2>3, <2>4
<1>7. ASSUME NEW x, x.rcvNext \in SeqNum, x.window \in Windows,
             NEW flags \in SUBSET Flag, NEW i \in Nat, i < SeqMod
      PROVE  LET p == segment_of(x, flags, i, << >>)
             IN  p \in Segment /\ p.flags = flags /\ p.data = << >>
  <2>1. ASSUME NEW e \in Seq(Byte)
        PROVE  LET p == segment_of(x, flags, i, e)
               IN  p \in Segment /\ place(p) = i /\ p.flags = flags /\ p.data = e
    BY <1>7, SegmentOfPlace
  <2>2. << >> \in Seq(Byte)
    OBVIOUS
  <2>. QED
    BY <2>1, <2>2
<1>8. /\ {"ACK"} \in SUBSET Flag /\ {"SYN"} \in SUBSET Flag /\ {"FIN", "ACK"} \in SUBSET Flag
      /\ 0 < SeqMod /\ "SYN" \in {"SYN"}
  BY Small DEF Flag
<1>9. CASE DevOpen
  <2>1. /\ dev'.sent = dev.sent /\ dev'.fin = dev.fin /\ early
    BY <1>0, <1>9 DEF DevOpen, DeviceRecord, early
  <2>2. up' = Append(up, segment_of(dev, {"SYN"}, 0, << >>))
    BY <1>9 DEF DevOpen, Send, devSegment
  <2>. DEFINE p == segment_of(dev, {"SYN"}, 0, << >>)
  <2>3. p \in Segment /\ p.flags = {"SYN"} /\ p.data = << >>
    BY <1>0, <1>7, <1>8
  <2>. HIDE DEF p
  <2>. QED
    BY <1>6, <1>8, <2>1, <2>2, <2>3 DEF p
<1>10. CASE DevFin
  <2>1. /\ dev'.sent = dev.sent /\ dev'.fin /\ dev.phase = "established" /\ dev'.phase = dev.phase
    BY <1>0, <1>10 DEF DevFin, DeviceRecord
  <2>. DEFINE p == segment_of(dev, {"FIN", "ACK"}, dev.sent + 1, << >>)
  <2>2. up' = Append(up, p)
    BY <1>10 DEF DevFin, Send, devSegment
  <2>3. dev.sent + 1 \in Nat /\ dev.sent + 1 < SeqMod
    BY <1>0, Small
  <2>4. p \in Segment /\ p.data = << >>
    BY <1>0, <1>7, <1>8, <2>3
  <2>5. ~early'
    BY <2>1 DEF early
  <2>. HIDE DEF p
  <2>. QED
    BY <1>6, <2>1, <2>2, <2>4, <2>5
<1>11. CASE DevResend
  <2>1. dev' = dev /\ early' = early
    BY <1>11 DEF DevResend, early
  <2>2. CASE Send(devSegment({"SYN"}, 0, << >>)) /\ dev.phase = "synSent"
    <3>. DEFINE p == segment_of(dev, {"SYN"}, 0, << >>)
    <3>1. up' = Append(up, p) /\ early
      BY <2>2 DEF Send, devSegment, early
    <3>2. p \in Segment /\ p.flags = {"SYN"} /\ p.data = << >>
      BY <1>0, <1>7, <1>8
    <3>. HIDE DEF p
    <3>. QED
      BY <1>6, <1>8, <2>1, <3>1, <3>2
  <2>3. CASE dev.phase = "established"
    <3>. DEFINE last == smaller(dev.sent, (dev.una + MaxPayload) - 1)
                flags == IF dev.fin /\ last = dev.sent THEN {"FIN", "ACK"} ELSE {"ACK"}
                data == range(dev.una, last)
                p == segment_of(dev, flags, dev.una, data)
    <3>1. up' = Append(up, p) /\ ~early
      BY <1>11, <2>3 DEF DevResend, Send, devSegment, early
    <3>2. last \in Nat /\ last <= dev.sent /\ dev.una \in Nat \ {0}
      <4>1. MaxPayload \in Nat \ {0} /\ dev.una >= 1 /\ dev.una \in Nat
        BY <1>0, <2>3, SizesAssumption
      <4>2. (dev.una + MaxPayload) - 1 \in Nat
        BY <4>1
      <4>3. \A x, y \in Nat : smaller(x, y) \in Nat /\ smaller(x, y) <= x
        BY DEF smaller
      <4>4. dev.sent \in Nat
        BY <1>0
      <4>5. dev.una \in Nat \ {0}
        BY <4>1
      <4>. QED
        BY <4>1, <4>2, <4>3, <4>4, <4>5, Zenon
    <3>3. flags \in SUBSET Flag
      BY DEF Flag
    <3>. HIDE DEF last, flags
    <3>4. data \in Seq(Byte) /\ Len(data) = IF dev.una <= last THEN (last + 1) - dev.una ELSE 0
      <4>1. 1 .. MaxSent \subseteq Byte /\ MaxSent \in Nat /\ last <= MaxSent
        BY <1>0, <3>2, SessionAssumption
      <4>. QED
        BY <3>2, <4>1, RangeType
    <3>. HIDE DEF data
    <3>5. dev.una < SeqMod
      BY <1>0, Small
    <3>6. p \in Segment /\ place(p) = dev.una /\ p.data = data
      BY <1>0, <3>2, <3>3, <3>4, <3>5, SegmentOfPlace
    <3>. HIDE DEF p
    <3>7. Repeats(p, dev.sent)
      <4>1. CASE dev.una <= last
        <5>1. Len(data) = (last + 1) - dev.una
          BY <3>4, <4>1
        <5>2. (dev.una + ((last + 1) - dev.una)) - 1 <= dev.sent
          BY <1>0, <3>2, <4>1
        <5>. QED
          BY <3>6, <5>1, <5>2 DEF Repeats
      <4>2. CASE ~(dev.una <= last)
        <5>1. data = << >>
          BY <3>4, <4>2, EmptySeq
        <5>. QED
          BY <3>6, <5>1 DEF Repeats
      <4>. QED
        BY <4>1, <4>2
    <3>8. dev.sent \in 0 .. MaxSent /\ dev.sent = after(p, dev.sent)
      BY <1>0, <3>6, <3>7, NotBoth, Small DEF after
    <3>9. Chain(up', k, dev.sent)
      BY <1>1, <3>1, <3>6, <3>7, <3>8, ChainAppend
    <3>. QED
      BY <1>4, <2>1, <3>1, <3>9
  <2>. QED
    BY <1>11, <2>2, <2>3 DEF DevResend
<1>12. CASE DevWindow
  <2>1. PICK w \in Windows \ {dev.window} :
          /\ dev' = [dev EXCEPT !.window = w]
          /\ Send(segment_of([dev EXCEPT !.window = w], {"ACK"}, devNext, << >>))
    BY <1>12 DEF DevWindow
  <2>2. /\ dev'.sent = dev.sent /\ dev'.fin = dev.fin /\ dev'.phase = dev.phase
        /\ dev'.rcvNext = dev.rcvNext /\ dev'.window = w /\ dev.phase = "established"
    BY <1>0, <1>12, <2>1 DEF DeviceRecord, DevWindow
  <2>. DEFINE p == segment_of(dev', {"ACK"}, devNext, << >>)
  <2>3. up' = Append(up, p) /\ ~early'
    BY <2>1, <2>2 DEF Send, early
  <2>4. p \in Segment /\ p.data = << >>
    BY <1>0, <1>7, <1>8, <2>2
  <2>. HIDE DEF p
  <2>. QED
    BY <1>6, <2>2, <2>3, <2>4
<1>13. CASE DevReceive
  <2>. DEFINE q == Head(down)
              p == segment_of(dev', {"ACK"}, devNext, << >>)
  <2>1. GetReset(q) \/ GetSynAck(q) \/ GetAck(q) \/ GetData(q) \/ Ignore(q)
    BY <1>13 DEF DevReceive
  <2>. HIDE DEF q
  <2>2. dev'.sent = dev.sent /\ dev'.fin = dev.fin
    BY <1>0, <2>1 DEF GetReset, GetSynAck, GetAck, GetData, Ignore, with_ack, DeviceRecord
  <2>3. up' = up \/ up' = Append(up, p)
    BY <2>1 DEF GetReset, GetSynAck, GetAck, GetData, Ignore, Reply
  <2>4. ~early' \/ (dev' = dev /\ up' = up)
    <3>1. CASE Ignore(q)
      BY <3>1 DEF Ignore
    <3>2. CASE GetReset(q) \/ GetSynAck(q) \/ GetAck(q) \/ GetData(q)
      BY <1>0, <3>2 DEF GetReset, GetSynAck, GetAck, GetData, with_ack, DeviceRecord, early
    <3>. QED
      BY <2>1, <3>1, <3>2
  <2>5. p \in Segment /\ p.data = << >>
    <3>1. dev'.rcvNext \in SeqNum /\ dev'.window \in Windows
      BY <1>1 DEF DeviceRecord
    <3>. QED
      BY <1>0, <1>7, <1>8, <3>1
  <2>. HIDE DEF p
  <2>6. early' => early /\ up' = up
    BY <2>4 DEF early
  <2>. QED
    BY <1>5, <1>6, <2>2, <2>3, <2>5, <2>6
<1>14. CASE \E j \in 1 .. MaxPayload : DevSend(j)
  <2>1. PICK j \in 1 .. MaxPayload : DevSend(j)
    BY <1>14
  <2>. DEFINE data == range(dev.sent + 1, dev.sent + j)
              p == segment_of(dev, {"ACK"}, dev.sent + 1, data)
  <2>2. /\ dev' = [dev EXCEPT !.sent = @ + j] /\ ~dev.fin /\ dev.phase = "established"
        /\ dev.sent + j <= MaxSent /\ up' = Append(up, p)
    BY <2>1 DEF DevSend, Send, devSegment
  <2>3. dev'.sent = dev.sent + j /\ dev'.phase = dev.phase
    BY <1>0, <2>2 DEF DeviceRecord
  <2>4. j \in Nat /\ j >= 1 /\ dev.sent + 1 \in Nat \ {0} /\ dev.sent + j \in Nat
        /\ dev.sent + 1 < SeqMod /\ dev.sent + 1 <= dev.sent + j
        /\ ((dev.sent + j) + 1) - (dev.sent + 1) = j
    BY <1>0, SizesAssumption, Small
  <2>5. data \in Seq(Byte) /\ Len(data) = j
    <3>1. 1 .. MaxSent \subseteq Byte /\ MaxSent \in Nat
      BY SessionAssumption
    <3>. QED
      BY <2>2, <2>4, <3>1, RangeType
  <2>. HIDE DEF data
  <2>6. p \in Segment /\ place(p) = dev.sent + 1 /\ p.data = data
    <3>1. ASSUME NEW i \in Nat, i < SeqMod
          PROVE  LET q == segment_of(dev, {"ACK"}, i, data)
                 IN  q \in Segment /\ place(q) = i /\ q.data = data
      BY <1>0, <1>8, <2>5, <3>1, SegmentOfPlace
    <3>2. dev.sent + 1 \in Nat /\ dev.sent + 1 < SeqMod
      BY <2>4
    <3>. QED
      BY <3>1, <3>2
  <2>. HIDE DEF p
  <2>7. p.data # << >>
    <3>1. Len(p.data) # 0
      BY <2>4, <2>5, <2>6
    <3>. QED
      BY <3>1
  <2>8. Extends(p, dev.sent) /\ dev'.sent = after(p, dev.sent)
    BY <2>3, <2>5, <2>6, <2>7 DEF Extends, after
  <2>9. dev.sent \in 0 .. MaxSent /\ dev'.sent \in 0 .. MaxSent
    BY <1>0, <1>1 DEF DeviceRecord
  <2>10. Chain(up', k, dev'.sent)
    BY <1>1, <2>2, <2>6, <2>8, <2>9, ChainAppend
  <2>11. ~early'
    BY <2>2, <2>3 DEF early
  <2>. QED
    BY <1>4, <2>2, <2>10, <2>11
<1>. QED
  BY <1>9, <1>10, <1>11, <1>12, <1>13, <1>14 DEF Device, DevStray, DevReset

\* Every step of the session preserves the chain.
LEMMA SmoothStep ==
  ASSUME SmoothInv, ~ServerEnds, Overshoot = 0, ~Failures, [SessionNext]_vars
  PROVE  SmoothInv'
<1>0. UploadInv'
  BY UploadStep DEF SmoothInv
<1>1. CASE Relay \/ OtherConnections
  BY <1>0, <1>1, SmoothRelay
<1>2. CASE Device
  BY <1>0, <1>2, SmoothDevice
<1>3. CASE UNCHANGED vars
  BY <1>0, <1>3 DEF vars, connVars, envVars, SmoothInv, early
<1>. QED
  BY <1>1, <1>2, <1>3 DEF SessionNext

\* It holds at first.
LEMMA SmoothInitial ==
  ASSUME SessionInit
  PROVE  SmoothInv
<1>1. UploadInv
  BY UploadInitial
<1>2. /\ c = New /\ up = << >> /\ net = [out |-> << >>, in |-> 0] /\ pc = "idle"
      /\ dev.phase = "closed" /\ dev.sent = 0 /\ Len(<< >>) = 0
  BY DEF SessionInit, Init
<1>3. c.state = "Init" /\ c.toNetwork = << >> /\ c.closed = FALSE /\ net.out = << >>
  BY <1>2 DEF New
<1>4. taken(c, Len(net.out)) = 0
  BY <1>2, <1>3 DEF taken
<1>5. ASSUME NEW s, s = << >>
      PROVE  Chain(s, 0, 0)
  <2>. DEFINE r == [i \in 0 .. 0 |-> 0]
  <2>1. r \in [0 .. 0 -> 0 .. MaxSent] /\ r[0] = 0
    BY Small
  <2>2. Len(s) = 0 /\ \A i \in 1 .. Len(s) : Follows(s, r, i)
    BY <1>5
  <2>. HIDE DEF r
  <2>. QED
    BY <2>1, <2>2 DEF Chain
<1>6. up \in Seq(Syns)
  BY <1>2
<1>. QED
  BY <1>1, <1>2, <1>3, <1>4, <1>5, <1>6 DEF SmoothInv

\* A segment before the acknowledged byte repeats what the relay has.
LEMMA SmoothProperties ==
  ASSUME SmoothInv, ~Failures
  PROVE  RetransmissionIsOld
<1>. DEFINE n == Len(net.out)
            k == taken(c, n)
            p == Head(up)
<1>. SUFFICES ASSUME up # << >>, c.state # "Init", 2 * minus(p.seq, c.ack) >= SeqMod,
                     NEW i \in 1 .. Len(p.data)
              PROVE  p.data[i] <= accepted
  BY DEF RetransmissionIsOld
<1>1. /\ Kept(c, n, dev) /\ dev \in DeviceRecord /\ n \in Nat /\ Sound(c)
      /\ up \in Seq(UpSegment(dev)) /\ up \in Seq(Segment) /\ Books(c, n, dev)
      /\ Chain(up, k, dev.sent)
  BY LenProperties
     DEF SmoothInv, UploadInv, OpeningInv, SessionType, DeviceType, Inv, Kept
<1>. HIDE DEF n
<1>2. k \in Nat /\ k = n + Len(c.toNetwork) /\ k <= dev.sent /\ dev.sent <= MaxSent
      /\ dev.sent \in Nat /\ Len(c.toNetwork) \in Nat
  BY <1>1, TakenType
<1>3. p \in UpSegment(dev) /\ (Repeats(p, k) \/ Extends(p, k))
  BY <1>1, ChainTail
<1>. HIDE DEF p, k
<1>4. accepted = k
  BY <1>2 DEF accepted, n
<1>5. /\ p \in Segment /\ Len(p.data) \in Nat /\ p.data # << >> /\ place(p) \in Nat
      /\ p.seq = at(place(p)) /\ place(p) < SeqMod
  BY <1>3, LenProperties, Places DEF UpSegment, Segment
<1>6. p.data[i] = (place(p) + i) - 1
  BY <1>3, <1>5 DEF UpSegment, carries
<1>7. CASE Repeats(p, k)
  <2>1. (place(p) + Len(p.data)) - 1 <= k
    BY <1>5, <1>7 DEF Repeats
  <2>2. ASSUME NEW l \in Nat, NEW j \in 1 .. l, (place(p) + l) - 1 <= k
        PROVE  (place(p) + j) - 1 <= k
    BY <1>2, <1>5, <2>2
  <2>. QED
    BY <1>4, <1>5, <1>6, <2>1, <2>2
<1>8. CASE Extends(p, k)
  <2>1. place(p) = k + 1
    BY <1>8 DEF Extends
  <2>2. c.state # "LastAck"
    <3>1. c.state = "LastAck" => k = dev.sent
      BY <1>1 DEF Books, k
    <3>. QED
      BY <1>1, <1>3, <1>8, <3>1, NothingAfterLast
  <2>3. c.ack = at(k + 1)
    BY <1>1, <2>2 DEF Books, Astray, k
  <2>4. minus(p.seq, c.ack) = 0
    <3>1. \A j \in Nat : j < SeqMod => minus(at(j), at(j)) = IF j <= j THEN j - j ELSE (j + SeqMod) - j
      BY Offsets
    <3>2. minus(at(place(p)), at(place(p))) = 0
      BY <1>5, <3>1
    <3>. QED
      BY <1>5, <2>1, <2>3, <3>2
  <2>. QED
    BY <2>4, Small
<1>. QED
  BY <1>3, <1>7, <1>8

\* While nothing fails, a segment that handle_packet() takes for an old one
\* carries nothing that the relay has not accepted.
THEOREM RetransmissionsAreOld ==
  ASSUME ~ServerEnds, Overshoot = 0, ~Failures
  PROVE  SessionSpec => []RetransmissionIsOld
<1>1. SmoothInv /\ [SessionNext]_vars => SmoothInv'
  BY SmoothStep
<1>2. SmoothInv => RetransmissionIsOld
  BY SmoothProperties
<1>. QED
  BY <1>1, <1>2, SmoothInitial, PTL DEF SessionSpec

-----------------------------------------------------------------------------
(***************************************************************************)
(* The download.  Offsets are counted from b, the relay's initial sequence *)
(* number: its SYN is at 0, byte i of the server at i, its FIN after the   *)
(* last byte, as long as no packet was deferred.  Flushing a deferred      *)
(* packet advances the sequence by the length of its headers too: from g,  *)
(* where that happened first, everything is ahead of what the device       *)
(* expects.                                                                *)
(***************************************************************************)
offset(b, x) == minus(x, b)

span(n) == n * (HeaderLen + 1)

pending(d) == IF d.deferred = None THEN 0 ELSE Len(d.deferred[1].data)

finSent(d) == d.finSeq # None

Whole(p) == p.total = rawLength(p)

\* Neither a SYN-ACK nor anything that occupies the sequence space.
Silent == {p \in Segment : occupies(p) = 0 /\ p.flags # {"SYN", "ACK"}}

\* A segment before g has the bytes of its place, and only the FIN ends there.
InOrder(p, o, g, fin) ==
  /\ o + occupies(p) <= g
  /\ \A j \in 1 .. Len(p.data) : p.data[j] = (o + j) - 1
  /\ "FIN" \in p.flags => fin /\ p.data = << >> /\ o + 1 = g

Placed(b, g, s, fin) ==
  {p \in Segment :
     /\ p.flags = {"SYN", "ACK"} => p.seq = b
     /\ occupies(p) > 0 =>
          /\ offset(b, p.seq) >= 1 /\ offset(b, p.seq) + occupies(p) <= s
          /\ offset(b, p.seq) <= g => InOrder(p, offset(b, p.seq), g, fin)}

\* The sequence number s of a connection in state st that has numbered n bytes.
Counted(st, s, g, n, fin) ==
  /\ g <= s /\ s <= span(n) + (IF fin THEN 2 ELSE 1)
  /\ IF st = "SynSent" THEN s = 0 /\ n = 0 ELSE s >= n + 1 /\ g >= 1
  /\ st # "SynSent" /\ s = g /\ ~fin => s = n + 1

\* The deferred packet q ends the m bytes read; while nothing was written over
\* its headers they are those of the next packet.
Waiting(q, m, seq, fin) ==
  /\ Len(q.data) >= 1 /\ Len(q.data) <= m
  /\ \A j \in 1 .. Len(q.data) : q.data[j] = (m - Len(q.data)) + j
  /\ Whole(q) => ~fin /\ q.seq = seq /\ q.flags = {"ACK"}

\* The connection's part of the invariant, when m bytes have been read.
Stream(d, m, b, g) ==
  /\ pending(d) <= m
  /\ Counted(d.state, offset(b, d.seq), g, m - pending(d), finSent(d))
  /\ d.deferred # None => Waiting(d.deferred[1], m, d.seq, finSent(d))
  /\ ~d.garbled => d.buffer \in Seq(Placed(b, g, offset(b, d.seq), finSent(d)))

\* What is under way stays in place when the connection d becomes e.
Wide(d, g, e, h, b) ==
  /\ offset(b, d.seq) <= offset(b, e.seq) /\ g <= h
  /\ finSent(d) => finSent(e) /\ h = g
  /\ h = g \/ offset(b, d.seq) = g
  /\ d.garbled => e.garbled

Flows(d, m, e, n, b, g) == \E h \in Nat : Stream(e, n, b, h) /\ Wide(d, g, e, h, b)

(* Arithmetic *)

\* The sequence space holds everything the relay may number.
LEMMA Span ==
  ASSUME NEW n \in Nat
  PROVE  /\ span(n) \in Nat /\ n <= span(n)
         /\ n <= MaxServed => span(n) + 4 <= SeqMod
         /\ \A l \in Nat : span(n + l) >= span(n) + l
         /\ \A l \in Nat : l >= 1 => span(n + l) >= (span(n) + l) + HeaderLen
<1>1. HeaderLen \in Nat /\ MaxServed \in Nat /\ SeqMod \in Nat
      /\ MaxServed * (HeaderLen + 1) + 4 <= SeqMod
  BY SizesAssumption, SessionAssumption, StreamsAssumption
<1>2. \A a, h \in Nat : a * (h + 1) \in Nat /\ a <= a * (h + 1)
  OBVIOUS
<1>3. \A a, l, h \in Nat : (a + l) * (h + 1) = a * (h + 1) + l * (h + 1)
  OBVIOUS
<1>4. \A l, h \in Nat : l * (h + 1) >= l /\ (l >= 1 => l * (h + 1) >= l + h)
  OBVIOUS
<1>5. ASSUME n <= MaxServed
      PROVE  span(n) + 4 <= SeqMod
  <2>1. MaxServed - n \in Nat /\ n + (MaxServed - n) = MaxServed
    BY <1>1, <1>5
  <2>2. MaxServed * (HeaderLen + 1) = n * (HeaderLen + 1) + (MaxServed - n) * (HeaderLen + 1)
    BY <1>1, <1>3, <2>1
  <2>3. (MaxServed - n) * (HeaderLen + 1) \in Nat /\ n * (HeaderLen + 1) \in Nat
    BY <1>1, <1>2, <2>1
  <2>. QED
    BY <1>1, <2>2, <2>3 DEF span
<1>6. ASSUME NEW l \in Nat
      PROVE  /\ span(n + l) >= span(n) + l
             /\ l >= 1 => span(n + l) >= (span(n) + l) + HeaderLen
  <2>1. span(n + l) = span(n) + l * (HeaderLen + 1)
    BY <1>1, <1>3 DEF span
  <2>2. span(n) \in Nat /\ l * (HeaderLen + 1) \in Nat
    BY <1>1, <1>2 DEF span
  <2>3. l * (HeaderLen + 1) >= l /\ (l >= 1 => l * (HeaderLen + 1) >= l + HeaderLen)
    BY <1>1, <1>4
  <2>. HIDE DEF span
  <2>. QED
    BY <1>1, <2>1, <2>2, <2>3
<1>. QED
  BY <1>1, <1>2, <1>5, <1>6 DEF span

\* Offsets and the sequence numbers they stand for.
LEMMA OffsetIs ==
  ASSUME NEW b \in SeqNum, NEW x \in SeqNum
  PROVE  /\ offset(b, x) \in Nat /\ offset(b, x) < SeqMod
         /\ \A y \in SeqNum : offset(b, y) = offset(b, x) => y = x
         /\ \A k \in Nat : offset(b, x) + k < SeqMod =>
              plus(x, k) \in SeqNum /\ offset(b, plus(x, k)) = offset(b, x) + k
<1>1. /\ b \in Nat /\ b < SeqMod /\ x \in Nat /\ x < SeqMod /\ SeqMod \in Nat
  BY SizesAssumption DEF SeqNum
<1>2. offset(b, x) = IF b <= x THEN x - b ELSE (x + SeqMod) - b
  BY MinusIs DEF offset
<1>3. offset(b, x) \in Nat /\ offset(b, x) < SeqMod
  BY <1>1, <1>2
<1>4. ASSUME NEW y \in SeqNum, offset(b, y) = offset(b, x)
      PROVE  y = x
  <2>1. offset(b, y) = IF b <= y THEN y - b ELSE (y + SeqMod) - b
    BY MinusIs DEF offset
  <2>2. y \in Nat /\ y < SeqMod
    BY <1>1 DEF SeqNum
  <2>. QED
    BY <1>1, <1>2, <1>4, <2>1, <2>2
<1>5. ASSUME NEW k \in Nat, offset(b, x) + k < SeqMod
      PROVE  plus(x, k) \in SeqNum /\ offset(b, plus(x, k)) = offset(b, x) + k
  <2>. DEFINE y == plus(x, k)
  <2>1. x + k \in Nat /\ x + k < 2 * SeqMod
    BY <1>1, <1>3, <1>5
  <2>2. y = IF x + k < SeqMod THEN x + k ELSE (x + k) - SeqMod
    BY <2>1, ModIs DEF plus
  <2>3. y \in Nat /\ y < SeqMod /\ y \in SeqNum
    BY <1>1, <2>1, <2>2 DEF SeqNum
  <2>. HIDE DEF y
  <2>4. offset(b, y) = IF b <= y THEN y - b ELSE (y + SeqMod) - b
    BY <2>3, MinusIs DEF offset
  <2>5. offset(b, y) = offset(b, x) + k
    BY <1>1, <1>2, <1>3, <1>5, <2>1, <2>2, <2>3, <2>4
  <2>. QED
    BY <2>3, <2>5 DEF y
<1>. QED
  BY <1>3, <1>4, <1>5

\* The base itself.
LEMMA OffsetZero ==
  ASSUME NEW b \in SeqNum
  PROVE  offset(b, b) = 0 /\ \A k \in Nat : k < SeqMod => offset(b, plus(b, k)) = k /\ plus(b, k) \in SeqNum
<1>1. b \in Nat /\ SeqMod \in Nat
  BY SizesAssumption DEF SeqNum
<1>2. offset(b, b) = 0
  BY <1>1, MinusIs DEF offset
<1>. QED
  BY <1>2, OffsetIs

\* remaining_client_window() never reaches beyond the window, counted from the
\* last acknowledgement.
LEMMA WindowLeft ==
  ASSUME NEW d \in Connection, NEW b \in SeqNum,
         offset(b, d.theirAck) <= offset(b, d.seq), remaining_client_window(d) > 0
  PROVE  /\ d.window \in Nat /\ remaining_client_window(d) \in Nat
         /\ offset(b, d.seq) + remaining_client_window(d) <= offset(b, d.theirAck) + d.window
         /\ d.window # 0
<1>. DEFINE x == d.theirAck
            y == d.seq
            w == d.window
            z == plus(x, w)
<1>1. /\ x \in SeqNum /\ y \in SeqNum /\ w \in Nat /\ 2 * w < SeqMod /\ SeqMod \in Nat
      /\ b \in Nat /\ b < SeqMod /\ x \in Nat /\ x < SeqMod /\ y \in Nat /\ y < SeqMod
  <2>1. d.theirAck \in SeqNum /\ d.seq \in SeqNum /\ d.window \in Window
    BY DEF Connection
  <2>. HIDE DEF x, y, w
  <2>2. x \in SeqNum /\ y \in SeqNum /\ w \in Window
    BY <2>1 DEF x, y, w
  <2>. QED
    BY <2>2, SizesAssumption DEF SeqNum, Window
<1>2. remaining_client_window(d) = IF w # 0 /\ minus(z, y) <= w THEN minus(z, y) ELSE 0
  BY DEF remaining_client_window
<1>. HIDE DEF x, y, w
<1>3. /\ offset(b, x) = IF b <= x THEN x - b ELSE (x + SeqMod) - b
      /\ offset(b, y) = IF b <= y THEN y - b ELSE (y + SeqMod) - b
  BY <1>1, MinusIs DEF offset
<1>4. z = IF x + w < SeqMod THEN x + w ELSE (x + w) - SeqMod
  BY <1>1, ModIs DEF plus
<1>5. z \in Nat /\ z < SeqMod /\ z \in SeqNum
  BY <1>1, <1>4 DEF SeqNum
<1>. HIDE DEF z
<1>6. minus(z, y) = IF y <= z THEN z - y ELSE (z + SeqMod) - y
  BY <1>1, <1>5, MinusIs
<1>7. w # 0 /\ minus(z, y) <= w /\ remaining_client_window(d) = minus(z, y) /\ minus(z, y) \in Nat
  BY <1>1, <1>2, <1>5, <1>6
<1>8. offset(b, x) <= offset(b, y)
  BY DEF x, y
<1>9. offset(b, y) + minus(z, y) <= offset(b, x) + w
  BY <1>1, <1>3, <1>4, <1>5, <1>6, <1>7, <1>8
<1>. QED
  BY <1>1, <1>7, <1>9 DEF x, y, w
(* The relay's methods *)

\* What a segment occupies, in numbers.
LEMMA Occupied ==
  ASSUME NEW p \in Segment
  PROVE  /\ occupies(p) \in Nat /\ Len(p.data) \in Nat /\ Len(p.data) <= occupies(p)
         /\ "FIN" \notin p.flags => occupies(p) = Len(p.data)
         /\ p.data = << >> /\ "FIN" \in p.flags => occupies(p) = 1
         /\ p.data = << >> /\ "FIN" \notin p.flags => occupies(p) = 0
<1>1. Len(p.data) \in Nat /\ (p.data = << >> => Len(p.data) = 0)
  BY LenProperties DEF Segment
<1>2. \A l \in Nat : l + 0 = l /\ l + 1 \in Nat /\ l <= l + 1 /\ l <= l
  OBVIOUS
<1>3. CASE "FIN" \in p.flags
  <2>1. occupies(p) = Len(p.data) + 1
    BY <1>3 DEF occupies
  <2>2. Len(p.data) = 0 => occupies(p) = 1
    BY <2>1
  <2>. QED
    BY <1>1, <1>2, <1>3, <2>1, <2>2
<1>4. CASE "FIN" \notin p.flags
  <2>1. occupies(p) = Len(p.data) + 0
    BY <1>4 DEF occupies
  <2>2. occupies(p) = Len(p.data)
    BY <1>1, <1>2, <2>1
  <2>. QED
    BY <1>1, <1>2, <1>4, <2>2
<1>. QED
  BY <1>3, <1>4

\* Segments stay in place.
LEMMA PlacedGrows ==
  ASSUME NEW b \in SeqNum, NEW g \in Nat, NEW h \in Nat, NEW s \in Nat, NEW t \in Nat,
         NEW fin \in BOOLEAN, NEW end \in BOOLEAN,
         s <= t, g <= h, fin => end /\ h = g, h = g \/ s = g
  PROVE  Placed(b, g, s, fin) \subseteq Placed(b, h, t, end)
<1>. SUFFICES ASSUME NEW p \in Placed(b, g, s, fin)
              PROVE  p \in Placed(b, h, t, end)
  OBVIOUS
<1>1. p \in Segment /\ (p.flags = {"SYN", "ACK"} => p.seq = b)
  BY DEF Placed
<1>. SUFFICES ASSUME occupies(p) > 0
              PROVE  /\ offset(b, p.seq) >= 1 /\ offset(b, p.seq) + occupies(p) <= t
                     /\ offset(b, p.seq) <= h => InOrder(p, offset(b, p.seq), h, end)
  BY <1>1 DEF Placed
<1>. DEFINE o == offset(b, p.seq)
<1>2. /\ o >= 1 /\ o + occupies(p) <= s
      /\ o <= g => InOrder(p, o, g, fin)
  BY DEF Placed
<1>3. o \in Nat /\ occupies(p) \in Nat
  <2>1. p.seq \in SeqNum
    BY <1>1 DEF Segment
  <2>. QED
    BY <1>1, <2>1, OffsetIs, Occupied
<1>. HIDE DEF o
<1>4. o + occupies(p) <= t
  BY <1>2, <1>3
<1>5. ASSUME o <= h
      PROVE  InOrder(p, o, h, end)
  <2>1. o <= g
    BY <1>2, <1>3, <1>5
  <2>2. InOrder(p, o, g, fin)
    BY <1>2, <2>1
  <2>3. o + occupies(p) <= h
    BY <1>3, <2>2 DEF InOrder
  <2>. QED
    BY <2>2, <2>3 DEF InOrder
<1>. QED
  BY <1>2, <1>4, <1>5 DEF o

\* Segments that occupy nothing are in place anywhere.
LEMMA SilentPlaced ==
  ASSUME NEW b, NEW g, NEW s, NEW fin
  PROVE  Silent \subseteq Placed(b, g, s, fin)
BY DEF Silent, Placed

\* The numbers of a connection.
LEMMA StreamType ==
  ASSUME NEW d, Typed(d), NEW b \in SeqNum, NEW g \in Nat, NEW m \in 0 .. MaxServed,
         Stream(d, m, b, g)
  PROVE  /\ offset(b, d.seq) \in Nat /\ pending(d) \in Nat /\ m - pending(d) \in Nat
         /\ m \in Nat /\ m - pending(d) <= MaxServed /\ finSent(d) \in BOOLEAN
         /\ g <= offset(b, d.seq) /\ offset(b, d.seq) + 2 <= SeqMod
         /\ span(m - pending(d)) \in Nat /\ d.seq \in SeqNum /\ SeqMod \in Nat
         /\ offset(b, d.seq) <= span(m - pending(d)) + (IF finSent(d) THEN 2 ELSE 1)
         /\ d.deferred # None => d.deferred = Some(d.deferred[1]) /\ d.deferred[1] \in Segment
<1>1. d.seq \in SeqNum /\ finSent(d) \in BOOLEAN /\ m \in Nat /\ MaxServed \in Nat /\ SeqMod \in Nat
      /\ m <= MaxServed
  BY SessionAssumption, SizesAssumption DEF Typed, Connection, finSent
<1>2. offset(b, d.seq) \in Nat
  BY <1>1, OffsetIs
<1>3. d.deferred # None => d.deferred = Some(d.deferred[1]) /\ d.deferred[1] \in Segment
  <2>. SUFFICES ASSUME d.deferred # None
                PROVE  d.deferred = Some(d.deferred[1]) /\ d.deferred[1] \in Segment
    OBVIOUS
  <2>1. d.deferred \in Seq(Segment) /\ Len(d.deferred) <= 1
    BY DEF Typed, Connection
  <2>2. Len(d.deferred) = 1
    <3>1. Len(d.deferred) \in Nat
      BY <2>1, LenProperties
    <3>2. Len(d.deferred) # 0
      BY <2>1, EmptySeq DEF None
    <3>3. \A l \in Nat : l <= 1 /\ l # 0 => l = 1
      OBVIOUS
    <3>. QED
      BY <2>1, <3>1, <3>2, <3>3
  <2>3. d.deferred[1] \in Segment
    BY <2>1, <2>2
  <2>4. d.deferred = << d.deferred[1] >>
    BY <2>1, <2>2
  <2>. QED
    BY <2>3, <2>4 DEF Some
<1>4. pending(d) \in Nat /\ pending(d) <= m
  <2>1. pending(d) \in Nat
    BY <1>3, Occupied DEF pending
  <2>. QED
    BY <2>1 DEF Stream
<1>5. m - pending(d) \in Nat /\ m - pending(d) <= MaxServed
  BY <1>1, <1>4
<1>6. /\ g <= offset(b, d.seq)
      /\ offset(b, d.seq) <= span(m - pending(d)) + (IF finSent(d) THEN 2 ELSE 1)
  BY DEF Stream, Counted
<1>. DEFINE n == m - pending(d)
<1>7. span(n) \in Nat /\ span(n) + 4 <= SeqMod
  BY <1>5, Span
<1>8. offset(b, d.seq) + 2 <= SeqMod
  BY <1>1, <1>2, <1>6, <1>7
<1>. QED
  BY <1>1, <1>2, <1>3, <1>4, <1>5, <1>6, <1>7, <1>8

\* What send_empty_packet_to_client() does to a connection with a packet waiting.
Sent(d, e, p, m) ==
  /\ SameTcb(d, e) /\ e.garbled = d.garbled /\ e \in Connection
  /\ p \in Segment /\ p.data = << >> /\ p.seq = d.seq
  /\ e.buffer = d.buffer \/ e.buffer = Append(d.buffer, p)
  /\ pending(e) = pending(d) /\ (e.deferred = None <=> d.deferred = None)
  /\ e.deferred # None => \A seq, fin : Waiting(e.deferred[1], m, seq, fin)

\* That is what it does, with any flags.
LEMMA SendKeeps ==
  ASSUME NEW d, Typed(d), NEW flags \in SUBSET Flag, NEW m,
         d.deferred # None => Waiting(d.deferred[1], m, d.seq, finSent(d))
  PROVE  LET p == segment(d, flags, << >>)
         IN  Sent(d, send_empty(d, flags), p, m) /\ p.flags = flags
<1>. DEFINE p == segment(d, flags, << >>)
            q == [p EXCEPT !.data = d.deferred[1].data]
            e == IF d.deferred = None THEN d ELSE [d EXCEPT !.deferred = Some(q)]
            r == send_empty(d, flags)
<1>1. r = IF fits(e, p) THEN sent_to_buffer(e, p) ELSE e
  BY DEF send_empty
<1>2. Answered(d, r, p) /\ r \in Connection
  BY SendEmptyAnswers, SendEmpty DEF Typed
<1>3. p \in Segment
  BY EmptySeq, SegmentType
<1>4. p.data = << >> /\ p.seq = d.seq /\ p.flags = flags /\ p.total = HeaderLen + Len(<< >>)
  BY DEF segment
<1>5. q \in Segment \/ d.deferred = None
  <2>. HIDE DEF p
  <2>1. d.deferred # None => d.deferred[1] \in Segment
    BY DEF Typed, Connection, None
  <2>. QED
    BY <1>3, <2>1 DEF Segment
<1>6. d.deferred # None => q.data = d.deferred[1].data /\ q.total = p.total
  <2>. HIDE DEF p
  <2>. QED
    BY <1>3 DEF Segment
<1>7. Whole(p)
  BY <1>4 DEF Whole, rawLength
<1>. HIDE DEF p, q
<1>8. e \in Connection /\ e.garbled = d.garbled
      /\ e.deferred = IF d.deferred = None THEN None ELSE Some(q)
  <2>1. CASE d.deferred = None
    BY <2>1 DEF Typed
  <2>2. CASE d.deferred # None
    <3>1. Some(q) \in Seq(Segment)
      BY <1>5, <2>2 DEF Some
    <3>. QED
      BY <2>2, <3>1 DEF Typed, Connection
  <2>. QED
    BY <2>1, <2>2
<1>. HIDE DEF e, r
<1>9. r.garbled = d.garbled /\ r.deferred = e.deferred
  <2>1. /\ sent_to_buffer(e, p).garbled = (e.garbled \/ p.total # rawLength(p))
        /\ sent_to_buffer(e, p).deferred = e.deferred
    BY <1>8 DEF sent_to_buffer, Connection
  <2>2. e.garbled \in BOOLEAN
    BY <1>8 DEF Connection
  <2>. QED
    BY <1>1, <1>7, <1>8, <2>1, <2>2 DEF Whole
<1>10. (r.deferred = None <=> d.deferred = None) /\ pending(r) = pending(d)
  <2>1. Some(q) # None /\ Some(q)[1] = q
    BY DEF Some, None
  <2>. QED
    BY <1>6, <1>8, <1>9, <2>1 DEF pending
<1>11. ASSUME r.deferred # None, NEW seq, NEW fin
       PROVE  Waiting(r.deferred[1], m, seq, fin)
  <2>1. d.deferred # None /\ r.deferred[1] = q
    BY <1>8, <1>9, <1>11 DEF Some
  <2>2. q \in Segment /\ q.data = d.deferred[1].data /\ q.total = HeaderLen + Len(<< >>)
    BY <1>4, <1>5, <1>6, <2>1
  <2>3. Waiting(d.deferred[1], m, d.seq, finSent(d))
    BY <2>1
  <2>4. Len(q.data) >= 1 /\ Len(q.data) \in Nat
    BY <2>2, <2>3, Occupied DEF Waiting
  <2>5. ~Whole(q)
    <3>1. Len(<< >>) = 0 /\ HeaderLen \in Nat
      BY SizesAssumption
    <3>2. \A l \in Nat : l >= 1 => HeaderLen + 0 # HeaderLen + l
      BY <3>1
    <3>. QED
      BY <2>2, <2>4, <3>1, <3>2 DEF Whole, rawLength
  <2>. QED
    BY <2>1, <2>2, <2>3, <2>5 DEF Waiting
<1>12. /\ SameTcb(d, r)
       /\ r.buffer = d.buffer \/ r.buffer = Append(d.buffer, p)
  BY <1>2 DEF Answered
<1>. QED
  BY <1>2, <1>3, <1>4, <1>9, <1>10, <1>11, <1>12 DEF Sent, p, r

\* A segment that occupies nothing changes nothing.
LEMMA FlowSend ==
  ASSUME NEW d, Typed(d), NEW b \in SeqNum, NEW g \in Nat, NEW m \in 0 .. MaxServed,
         Stream(d, m, b, g),
         NEW flags \in SUBSET Flag, "FIN" \notin flags, flags # {"SYN", "ACK"}
  PROVE  Stream(send_empty(d, flags), m, b, g) /\ Wide(d, g, send_empty(d, flags), g, b)
<1>. DEFINE e == send_empty(d, flags)
            p == segment(d, flags, << >>)
<1>1. Sent(d, e, p, m) /\ p.flags = flags
  BY SendKeeps DEF Stream
<1>. HIDE DEF e, p
<1>2. /\ e.state = d.state /\ e.seq = d.seq /\ finSent(e) = finSent(d) /\ pending(e) = pending(d)
      /\ e.garbled = d.garbled
  BY <1>1 DEF Sent, SameTcb, SameCore, finSent
<1>3. p \in Placed(b, g, offset(b, d.seq), finSent(d))
  <2>1. p \in Silent
    BY <1>1, Occupied DEF Sent, Silent
  <2>. QED
    BY <2>1, SilentPlaced
<1>4. ASSUME ~e.garbled
      PROVE  e.buffer \in Seq(Placed(b, g, offset(b, e.seq), finSent(e)))
  <2>1. d.buffer \in Seq(Placed(b, g, offset(b, d.seq), finSent(d)))
    BY <1>2, <1>4 DEF Stream
  <2>2. e.buffer = d.buffer \/ e.buffer = Append(d.buffer, p)
    BY <1>1 DEF Sent
  <2>. DEFINE S == Placed(b, g, offset(b, d.seq), finSent(d))
  <2>3. d.buffer \in Seq(S) /\ p \in S /\ S = Placed(b, g, offset(b, e.seq), finSent(e))
    BY <1>2, <1>3, <2>1, Zenon
  <2>. HIDE DEF S
  <2>4. Append(d.buffer, p) \in Seq(S)
    BY <2>3, AppendProperties
  <2>. QED
    BY <2>2, <2>3, <2>4, Zenon
<1>5. Wide(d, g, e, g, b)
  <2>1. offset(b, d.seq) <= offset(b, e.seq) /\ g <= g
    BY <1>2, StreamType
  <2>. QED
    BY <1>2, <2>1 DEF Wide
<1>6. Stream(e, m, b, g)
  <2>1. pending(e) <= m /\ Counted(e.state, offset(b, e.seq), g, m - pending(e), finSent(e))
    BY <1>2 DEF Stream
  <2>2. e.deferred # None => Waiting(e.deferred[1], m, e.seq, finSent(e))
    BY <1>1 DEF Sent
  <2>. QED
    BY <1>4, <2>1, <2>2 DEF Stream
<1>. QED
  BY <1>5, <1>6 DEF e

\* Neither does anything that leaves the sequence and the packets alone.
SameFlow(d, e) ==
  /\ e.seq = d.seq /\ e.finSeq = d.finSeq /\ e.deferred = d.deferred
  /\ e.buffer = d.buffer /\ e.garbled = d.garbled
  /\ e.state = "SynSent" <=> d.state = "SynSent"

\* Such a step keeps the stream as it is.
LEMMA FlowSame ==
  ASSUME NEW d, NEW e, SameFlow(d, e), NEW b \in SeqNum, NEW g \in Nat, NEW m \in 0 .. MaxServed,
         Stream(d, m, b, g), Typed(d)
  PROVE  Stream(e, m, b, g) /\ Wide(d, g, e, g, b)
<1>1. pending(e) = pending(d) /\ finSent(e) = finSent(d)
  BY DEF SameFlow, pending, finSent
<1>2. Counted(e.state, offset(b, e.seq), g, m - pending(e), finSent(e))
  BY <1>1 DEF SameFlow, Stream, Counted
<1>3. offset(b, d.seq) <= offset(b, e.seq) /\ g <= g
  BY StreamType DEF SameFlow
<1>. QED
  BY <1>1, <1>2, <1>3 DEF SameFlow, Stream, Wide

\* A FIN goes after the last byte.
LEMMA FlowFin ==
  ASSUME NEW d, Typed(d), NEW b \in SeqNum, NEW g \in Nat, NEW m \in 0 .. MaxServed,
         Stream(d, m, b, g), ~finSent(d), d.state # "SynSent",
         NEW st, st # "SynSent", NEW x
  PROVE  Flows(d, m, [send_empty(d, {"FIN", "ACK"}) EXCEPT
                        !.finSeq = Some(x), !.seq = plus(@, 1), !.state = st], m, b, g)
<1>. DEFINE a == send_empty(d, {"FIN", "ACK"})
            e == [a EXCEPT !.finSeq = Some(x), !.seq = plus(@, 1), !.state = st]
            p == segment(d, {"FIN", "ACK"}, << >>)
            s == offset(b, d.seq)
            h == IF s = g THEN g + 1 ELSE g
<1>0. {"FIN", "ACK"} \in SUBSET Flag /\ "FIN" \in {"FIN", "ACK"} /\ {"FIN", "ACK"} # {"SYN", "ACK"}
  <2>1. "FIN" \in {"FIN", "ACK"} /\ "FIN" \notin {"SYN", "ACK"}
    OBVIOUS
  <2>. QED
    BY <2>1 DEF Flag
<1>1. Sent(d, a, p, m) /\ p.flags = {"FIN", "ACK"}
  BY <1>0, SendKeeps DEF Stream
<1>. HIDE DEF a, p
<1>2. /\ s \in Nat /\ pending(d) \in Nat /\ m - pending(d) \in Nat /\ m \in Nat
      /\ g <= s /\ s + 2 <= SeqMod /\ span(m - pending(d)) \in Nat /\ d.seq \in SeqNum
      /\ s <= span(m - pending(d)) + 1 /\ SeqMod \in Nat
  BY StreamType
<1>. HIDE DEF s
<1>3. plus(d.seq, 1) \in SeqNum /\ offset(b, plus(d.seq, 1)) = s + 1
  <2>1. s + 1 < SeqMod
    BY <1>2
  <2>. QED
    BY <1>2, <2>1, OffsetIs DEF s
<1>4. /\ e.seq = plus(d.seq, 1) /\ e.finSeq = Some(x) /\ e.state = st
      /\ e.deferred = a.deferred /\ e.buffer = a.buffer /\ e.garbled = d.garbled
  BY <1>1 DEF Sent, SameTcb, SameCore, Connection
<1>. HIDE DEF e
<1>5. finSent(e) /\ pending(e) = pending(d) /\ offset(b, e.seq) = s + 1
  BY <1>1, <1>3, <1>4 DEF finSent, pending, Sent, Some, None
<1>6. /\ h \in Nat /\ g <= h /\ h <= s + 1 /\ s <= s + 1
      /\ h = g \/ s = g
  BY <1>2
<1>7. Wide(d, g, e, h, b)
  BY <1>4, <1>5, <1>6 DEF Wide, s
<1>8. Counted(e.state, s + 1, h, m - pending(e), TRUE)
  <2>1. s >= (m - pending(d)) + 1 /\ g >= 1
    BY DEF Stream, Counted, s
  <2>2. s + 1 <= span(m - pending(d)) + 2 /\ s + 1 >= (m - pending(d)) + 1 /\ h >= 1
    BY <1>2, <2>1
  <2>. QED
    BY <1>4, <1>5, <1>6, <2>2 DEF Counted
<1>9. p \in Placed(b, h, s + 1, TRUE)
  <2>1. p \in Segment /\ p.data = << >> /\ p.seq = d.seq /\ occupies(p) = 1 /\ Len(p.data) = 0
    BY <1>0, <1>1, Occupied DEF Sent
  <2>2. s >= 1
    <3>1. s >= (m - pending(d)) + 1
      BY DEF Stream, Counted, s
    <3>. QED
      BY <1>2, <3>1
  <2>3. ASSUME s <= h
        PROVE  InOrder(p, s, h, TRUE)
    <3>1. s = g /\ h = s + 1
      BY <1>2, <1>6, <2>3
    <3>2. \A j \in 1 .. Len(p.data) : p.data[j] = (s + j) - 1
      BY <2>1
    <3>. QED
      BY <1>2, <2>1, <3>1, <3>2 DEF InOrder
  <2>4. offset(b, p.seq) = s /\ p.flags # {"SYN", "ACK"} /\ s + 1 <= s + 1
    BY <1>0, <1>1, <1>2, <2>1 DEF s
  <2>. HIDE DEF h
  <2>. QED
    BY <2>1, <2>2, <2>3, <2>4 DEF Placed
<1>10. ASSUME ~e.garbled
       PROVE  e.buffer \in Seq(Placed(b, h, s + 1, TRUE))
  <2>0. finSent(d) = FALSE
    BY DEF finSent
  <2>1. d.buffer \in Seq(Placed(b, g, s, FALSE))
    BY <1>4, <1>10, <2>0 DEF Stream, s
  <2>2. Placed(b, g, s, FALSE) \subseteq Placed(b, h, s + 1, TRUE)
    <3>1. s + 1 \in Nat
      BY <1>2
    <3>. HIDE DEF h
    <3>. QED
      BY <1>2, <1>6, <3>1, PlacedGrows
  <2>3. d.buffer \in Seq(Placed(b, h, s + 1, TRUE))
    BY <2>1, <2>2, SeqGrows
  <2>. DEFINE S == Placed(b, h, s + 1, TRUE)
  <2>4. d.buffer \in Seq(S) /\ p \in S
    BY <1>9, <2>3
  <2>. HIDE DEF S, h
  <2>5. e.buffer = d.buffer \/ e.buffer = Append(d.buffer, p)
    BY <1>1, <1>4 DEF Sent
  <2>6. Append(d.buffer, p) \in Seq(S)
    BY <2>4, AppendProperties
  <2>7. e.buffer \in Seq(S)
    BY <2>4, <2>5, <2>6
  <2>. QED
    BY <2>7 DEF S
<1>11. e.deferred # None => Waiting(e.deferred[1], m, e.seq, finSent(e))
  BY <1>1, <1>4 DEF Sent
<1>12. Stream(e, m, b, h)
  <2>1. pending(e) <= m
    BY <1>5 DEF Stream
  <2>2. finSent(e) = TRUE
    BY <1>5 DEF finSent
  <2>. QED
    BY <1>5, <1>8, <1>10, <1>11, <2>1, <2>2 DEF Stream
<1>. HIDE DEF h
<1>. QED
  BY <1>6, <1>7, <1>12 DEF Flows, e, a

\* What the connection knows of the device's acknowledgements and window.
SameAck(d, e) == e.theirAck = d.theirAck /\ e.window = d.window

\* One method after the other.
LEMMA WideTrans ==
  ASSUME NEW d, NEW e, NEW f, NEW b, NEW g \in Nat, NEW h \in Nat, NEW k \in Nat,
         offset(b, d.seq) \in Nat, offset(b, e.seq) \in Nat, offset(b, f.seq) \in Nat,
         g <= offset(b, d.seq), Wide(d, g, e, h, b), Wide(e, h, f, k, b)
  PROVE  Wide(d, g, f, k, b)
<1>1. offset(b, d.seq) <= offset(b, f.seq) /\ g <= k
  BY DEF Wide
<1>2. k = g \/ offset(b, d.seq) = g
  <2>1. CASE h = g /\ k # h
    <3>1. offset(b, e.seq) = g
      BY <2>1 DEF Wide
    <3>2. offset(b, d.seq) <= offset(b, e.seq)
      BY DEF Wide
    <3>. QED
      BY <3>1, <3>2
  <2>. QED
    BY <2>1 DEF Wide
<1>3. finSent(d) => finSent(f) /\ k = g
  BY DEF Wide
<1>. QED
  BY <1>1, <1>2, <1>3 DEF Wide

\* A step that goes on from where another one stopped.
LEMMA FlowTrans ==
  ASSUME NEW d, Typed(d), NEW e, Typed(e), NEW f, Typed(f),
         NEW b \in SeqNum, NEW g \in Nat, NEW h \in Nat, NEW m \in 0 .. MaxServed,
         Stream(d, m, b, g), Wide(d, g, e, h, b), Flows(e, m, f, m, b, h)
  PROVE  Flows(d, m, f, m, b, g)
<1>1. PICK k \in Nat : Stream(f, m, b, k) /\ Wide(e, h, f, k, b)
  BY DEF Flows
<1>2. offset(b, d.seq) \in Nat /\ offset(b, e.seq) \in Nat /\ offset(b, f.seq) \in Nat
      /\ g <= offset(b, d.seq)
  <2>1. d.seq \in SeqNum /\ e.seq \in SeqNum /\ f.seq \in SeqNum
    BY DEF Typed, Connection
  <2>. QED
    BY <2>1, OffsetIs DEF Stream, Counted
<1>3. Wide(d, g, f, k, b)
  BY <1>1, <1>2, WideTrans
<1>. QED
  BY <1>1, <1>3 DEF Flows

\* do_handle_fin().
LEMMA FlowDoFin ==
  ASSUME NEW d, Sound(d), NEW b \in SeqNum, NEW g \in Nat, NEW m \in 0 .. MaxServed,
         Stream(d, m, b, g)
  PROVE  Flows(d, m, do_handle_fin(d), m, b, g) /\ SameAck(d, do_handle_fin(d))
<1>. DEFINE a == [d EXCEPT !.ack = plus(@, 1)]
            s == send_empty(a, {"FIN", "ACK"})
            t == send_empty(a, {"ACK"})
            e == do_handle_fin(d)
<1>0. Sound(e) /\ Typed(d) /\ d \in Connection
  BY DoHandleFin DEF Preserves, Sound, Typed
<1>1. plus(d.ack, 1) \in SeqNum
  BY NumbersAreNat, PlusType DEF Sound
<1>2. Typed(a) /\ SameFlow(d, a) /\ SameAck(d, a) /\ a.state = d.state
  BY <1>1 DEF Sound, Typed, Connection, SameFlow, SameAck
<1>. HIDE DEF a
<1>3. Stream(a, m, b, g) /\ Wide(d, g, a, g, b)
  BY <1>0, <1>2, FlowSame
<1>4. {"ACK"} \in SUBSET Flag /\ {"FIN", "ACK"} \in SUBSET Flag /\ "FIN" \notin {"ACK"} /\ {"ACK"} # {"SYN", "ACK"}
  <2>1. "SYN" \notin {"ACK"} /\ "SYN" \in {"SYN", "ACK"}
    OBVIOUS
  <2>. QED
    BY <2>1 DEF Flag
<1>5. Stream(t, m, b, g) /\ Wide(a, g, t, g, b)
  BY <1>2, <1>3, <1>4, FlowSend
<1>6. /\ Typed(t) /\ SameTcb(a, t) /\ Typed(s) /\ SameTcb(a, s)
  BY <1>2, <1>4, SendEmptyAnswers, SendEmpty DEF Answered, Typed
<1>. HIDE DEF s, t, e
<1>7. CASE a.state = "Established"
  <2>1. e = [s EXCEPT !.finSeq = Some(a.seq), !.seq = plus(@, 1), !.state = "LastAck"]
    BY <1>7 DEF e, do_handle_fin, a, s
  <2>2. ~finSent(a)
    BY <1>2, <1>7 DEF SameFlow, finSent, Sound, FinMatches, is_closed
  <2>3. Flows(a, m, e, m, b, g)
    BY <1>2, <1>3, <1>7, <2>1, <2>2, FlowFin DEF s
  <2>4. SameAck(d, e)
    BY <1>2, <1>6, <2>1 DEF SameAck, SameTcb, Typed, Connection
  <2>. QED
    BY <1>0, <1>2, <1>3, <2>3, <2>4, FlowTrans DEF e, Sound
<1>8. CASE a.state = "FinWait1" \/ a.state = "FinWait2"
  <2>1. e = [t EXCEPT !.state = "Closing"] \/ e = close(t)
    BY <1>8 DEF e, do_handle_fin, a, t
  <2>2. SameFlow(t, e) /\ SameAck(t, e)
    <3>1. t.state # "SynSent" /\ t \in Connection
      BY <1>6, <1>8 DEF SameTcb, SameCore, Typed
    <3>. QED
      BY <2>1, <3>1 DEF SameFlow, SameAck, close, Connection
  <2>3. Stream(e, m, b, g) /\ Wide(t, g, e, g, b)
    BY <1>5, <1>6, <2>2, FlowSame
  <2>4. SameAck(d, e)
    BY <1>2, <1>6, <2>2 DEF SameAck, SameTcb
  <2>5. Flows(t, m, e, m, b, g)
    BY <2>3 DEF Flows
  <2>6. Flows(a, m, e, m, b, g)
    BY <1>0, <1>2, <1>3, <1>5, <1>6, <2>5, FlowTrans DEF Sound
  <2>. QED
    BY <1>0, <1>2, <1>3, <2>4, <2>6, FlowTrans DEF e, Sound
<1>9. CASE a.state \notin {"Established", "FinWait1", "FinWait2"}
  <2>1. e = a
    BY <1>9 DEF e, do_handle_fin, a
  <2>. QED
    BY <1>2, <1>3, <2>1 DEF Flows, e
<1>. QED
  BY <1>7, <1>8, <1>9

\* handle_packet(), on the expected segment.
LEMMA FlowExpected ==
  ASSUME NEW d, Sound(d), NEW b \in SeqNum, NEW g \in Nat, NEW m \in 0 .. MaxServed,
         Stream(d, m, b, g), NEW p \in Segment
  PROVE  LET e == handle_expected(d, p)
         IN  Flows(d, m, e, m, b, g) /\ e.theirAck = p.ack /\ e.window = p.window
<1>. DEFINE u == updated(d, p)
            a == after_ack(u, p)
            f == after_fin(a, p)
            k == after_fin_ack(f, p)
            e == handle_expected(d, p)
<1>0. Typed(d) /\ d \in Connection /\ Sound(e) /\ Typed(e)
  BY HandleExpected DEF Preserves, Sound, Typed
<1>1. Sound(u) /\ Typed(u) /\ SameFlow(d, u) /\ u.theirAck = p.ack /\ u.window = p.window
  BY DEF updated, Sound, Typed, Connection, Segment, FinMatches, SameFlow
<1>. HIDE DEF u
<1>2. Stream(u, m, b, g) /\ Wide(d, g, u, g, b)
  BY <1>0, <1>1, FlowSame
<1>3. {"ACK"} \in SUBSET Flag /\ "FIN" \notin {"ACK"} /\ {"ACK"} # {"SYN", "ACK"}
  <2>1. "SYN" \notin {"ACK"} /\ "SYN" \in {"SYN", "ACK"}
    OBVIOUS
  <2>. QED
    BY <2>1 DEF Flag
<1>4. ASSUME NEW x, Typed(x), Stream(x, m, b, g)
      PROVE  LET y == send_empty(x, {"ACK"})
             IN  Stream(y, m, b, g) /\ Wide(x, g, y, g, b) /\ SameAck(x, y) /\ Typed(y)
  <2>1. SameTcb(x, send_empty(x, {"ACK"})) /\ Typed(send_empty(x, {"ACK"}))
    BY <1>3, <1>4, SendEmptyAnswers, SendEmpty DEF Answered, Typed
  <2>. QED
    BY <1>3, <1>4, <2>1, FlowSend DEF SameTcb, SameAck
<1>5. Sound(a) /\ Typed(a) /\ Stream(a, m, b, g) /\ Wide(u, g, a, g, b) /\ SameAck(u, a)
  <2>1. Sound(a) /\ Typed(a)
    BY <1>1, HandleAck DEF after_ack, Preserves, Sound
  <2>2. Stream(u, m, b, g) /\ Wide(u, g, u, g, b) /\ SameAck(u, u)
    <3>1. SameFlow(u, u)
      BY DEF SameFlow
    <3>. QED
      BY <1>1, <1>2, <3>1, FlowSame DEF SameAck
  <2>3. CASE u.state = "SynReceived"
    <3>. DEFINE v == [u EXCEPT !.state = "Established"]
    <3>1. SameFlow(u, v) /\ SameAck(u, v)
      BY <1>1, <2>3 DEF SameFlow, SameAck, Typed, Connection
    <3>. HIDE DEF v
    <3>2. Stream(v, m, b, g) /\ Wide(u, g, v, g, b)
      BY <1>1, <1>2, <3>1, FlowSame
    <3>3. a = v \/ a = u
      BY <2>3 DEF after_ack, handle_ack, v
    <3>. HIDE DEF a
    <3>. QED
      BY <2>1, <2>2, <3>1, <3>2, <3>3
  <2>4. CASE u.state # "SynReceived"
    <3>. DEFINE v == [u EXCEPT !.toNetwork = @ \o p.data, !.ack = plus(@, Len(p.data))]
                x == send_empty(u, {"ACK"})
                y == send_empty(v, {"ACK"})
    <3>1. a = u \/ a = x \/ (a = y /\ ~(NetCap - Len(u.toNetwork) < Len(p.data)))
      BY <2>4 DEF after_ack, handle_ack
    <3>2. Stream(x, m, b, g) /\ Wide(u, g, x, g, b) /\ SameAck(u, x)
      BY <1>1, <1>2, <1>4
    <3>3. ASSUME ~(NetCap - Len(u.toNetwork) < Len(p.data))
          PROVE  Stream(y, m, b, g) /\ Wide(u, g, y, g, b) /\ SameAck(u, y)
      <4>1. Len(p.data) \in Nat /\ Len(u.toNetwork) \in Nat /\ p.data \in Seq(Byte) /\ NetCap \in Nat
        BY <1>1, LenProperties, SizesAssumption DEF Segment, Sound, Typed, Connection
      <4>2. Len(p.data) <= NetCap - Len(u.toNetwork)
        BY <3>3, <4>1, NotLess
      <4>3. Sound(v)
        BY <1>1, <4>1, <4>2, AcceptPayload DEF Preserves
      <4>4. SameFlow(u, v) /\ SameAck(u, v) /\ Typed(v)
        BY <1>1, <4>3 DEF SameFlow, SameAck, Sound, Typed, Connection
      <4>. HIDE DEF v
      <4>5. Stream(v, m, b, g) /\ Wide(u, g, v, g, b)
        BY <1>1, <1>2, <4>4, FlowSame
      <4>6. Stream(y, m, b, g) /\ Wide(v, g, y, g, b) /\ SameAck(v, y) /\ Typed(y)
        BY <1>4, <4>4, <4>5
      <4>. HIDE DEF y
      <4>7. Wide(u, g, y, g, b)
        <5>1. /\ offset(b, u.seq) \in Nat /\ offset(b, v.seq) \in Nat /\ offset(b, y.seq) \in Nat
              /\ g <= offset(b, u.seq)
          BY <1>1, <1>2, <4>4, <4>5, <4>6, StreamType
        <5>. QED
          BY <4>5, <4>6, <5>1, WideTrans
      <4>. QED
        BY <4>4, <4>6, <4>7 DEF SameAck
    <3>. HIDE DEF x, y, a
    <3>. QED
      BY <2>1, <2>2, <3>1, <3>2, <3>3
  <2>. QED
    BY <2>3, <2>4
<1>. HIDE DEF a
<1>6. Sound(f) /\ Typed(f) /\ Flows(a, m, f, m, b, g) /\ SameAck(a, f)
  <2>1. Sound(f) /\ Typed(f)
    BY <1>5, HandleFin DEF after_fin, Preserves, Sound
  <2>2. Flows(a, m, a, m, b, g) /\ SameAck(a, a)
    <3>1. SameFlow(a, a)
      BY DEF SameFlow
    <3>2. Stream(a, m, b, g) /\ Wide(a, g, a, g, b)
      BY <1>5, <3>1, FlowSame
    <3>. QED
      BY <3>2 DEF SameAck, Flows
  <2>. DEFINE r == [a EXCEPT !.finReceived = TRUE]
  <2>3. Sound(r) /\ Typed(r) /\ SameFlow(a, r) /\ SameAck(a, r)
    BY <1>5 DEF Sound, Typed, Connection, FinMatches, SameFlow, SameAck
  <2>4. f = a \/ f = r \/ f = do_handle_fin(r)
    BY DEF after_fin, handle_fin
  <2>. HIDE DEF r
  <2>5. Stream(r, m, b, g) /\ Wide(a, g, r, g, b)
    BY <1>5, <2>3, FlowSame
  <2>6. Flows(r, m, do_handle_fin(r), m, b, g) /\ SameAck(r, do_handle_fin(r))
        /\ Typed(do_handle_fin(r))
    BY <2>3, <2>5, FlowDoFin, DoHandleFin DEF Preserves, Sound
  <2>7. Flows(a, m, do_handle_fin(r), m, b, g) /\ SameAck(a, do_handle_fin(r))
    BY <1>5, <2>3, <2>5, <2>6, FlowTrans DEF SameAck
  <2>8. Flows(a, m, r, m, b, g)
    BY <2>5 DEF Flows
  <2>. HIDE DEF f
  <2>. QED
    BY <2>1, <2>2, <2>3, <2>4, <2>7, <2>8
<1>. HIDE DEF f
<1>7. PICK h \in Nat : Stream(f, m, b, h) /\ Wide(a, g, f, h, b)
  BY <1>6 DEF Flows
<1>8. Sound(k) /\ Typed(k) /\ SameFlow(f, k) /\ SameAck(f, k)
  <2>1. Sound(k) /\ Typed(k)
    BY <1>6, HandleFinAck DEF after_fin_ack, Preserves, Sound
  <2>2. SameFlow(f, k) /\ SameAck(f, k)
    BY <1>6 DEF after_fin_ack, handle_fin_ack, close, Typed, Connection, SameFlow, SameAck
  <2>. QED
    BY <2>1, <2>2
<1>. HIDE DEF k
<1>9. Flows(f, m, k, m, b, h)
  BY <1>6, <1>7, <1>8, FlowSame DEF Flows
<1>10. Flows(d, m, k, m, b, g)
  <2>1. Flows(a, m, k, m, b, g)
    BY <1>5, <1>6, <1>7, <1>8, <1>9, FlowTrans
  <2>2. Flows(u, m, k, m, b, g)
    BY <1>1, <1>2, <1>5, <1>8, <2>1, FlowTrans
  <2>. QED
    BY <1>0, <1>1, <1>2, <1>8, <2>2, FlowTrans
<1>11. k.theirAck = p.ack /\ k.window = p.window
  BY <1>1, <1>5, <1>6, <1>8 DEF SameAck
<1>12. Flows(d, m, close(u), m, b, g) /\ close(u).theirAck = p.ack /\ close(u).window = p.window
  <2>1. SameFlow(u, close(u)) /\ SameAck(u, close(u)) /\ Typed(close(u))
    BY <1>1 DEF close, SameFlow, SameAck, Typed, Connection
  <2>2. Flows(u, m, close(u), m, b, g)
    BY <1>1, <1>2, <2>1, FlowSame DEF Flows
  <2>. QED
    BY <1>0, <1>1, <1>2, <2>1, <2>2, FlowTrans DEF SameAck
<1>13. e = close(u) \/ e = k
  BY DEF e, handle_expected, u, a, f, k
<1>. HIDE DEF e
<1>. QED
  BY <1>10, <1>11, <1>12, <1>13 DEF e

\* send_empty_packet_to_client(RST) and close(), or close() alone.
LEMMA FlowClose ==
  ASSUME NEW d, Sound(d), NEW b \in SeqNum, NEW g \in Nat, NEW m \in 0 .. MaxServed,
         Stream(d, m, b, g), NEW e, e = close(d) \/ e = reset_and_close(d)
  PROVE  /\ Flows(d, m, e, m, b, g) /\ SameAck(d, e)
         /\ e.state = d.state /\ e.ack = d.ack /\ Typed(e)
<1>0. Typed(d) /\ d \in Connection
  BY DEF Sound, Typed
<1>1. ASSUME NEW x, Typed(x), Stream(x, m, b, g)
      PROVE  /\ Stream(close(x), m, b, g) /\ Wide(x, g, close(x), g, b) /\ SameAck(x, close(x))
             /\ close(x).state = x.state /\ close(x).ack = x.ack /\ Typed(close(x))
  <2>1. SameFlow(x, close(x)) /\ SameAck(x, close(x)) /\ Typed(close(x))
        /\ close(x).state = x.state /\ close(x).ack = x.ack
    BY <1>1 DEF close, SameFlow, SameAck, Typed, Connection
  <2>. QED
    BY <1>1, <2>1, FlowSame
<1>2. CASE e = close(d)
  BY <1>0, <1>1, <1>2 DEF Flows
<1>3. CASE e = reset_and_close(d)
  <2>. DEFINE r == send_empty(d, {"RST"})
  <2>1. {"RST"} \in SUBSET Flag /\ "FIN" \notin {"RST"} /\ {"RST"} # {"SYN", "ACK"}
    <3>1. "SYN" \notin {"RST"} /\ "SYN" \in {"SYN", "ACK"}
      OBVIOUS
    <3>. QED
      BY <3>1 DEF Flag
  <2>2. Stream(r, m, b, g) /\ Wide(d, g, r, g, b)
    BY <1>0, <2>1, FlowSend
  <2>3. SameTcb(d, r) /\ Typed(r)
    BY <1>0, <2>1, SendEmptyAnswers, SendEmpty DEF Answered, Typed
  <2>. HIDE DEF r
  <2>4. /\ Stream(close(r), m, b, g) /\ Wide(r, g, close(r), g, b) /\ SameAck(r, close(r))
        /\ close(r).state = r.state /\ close(r).ack = r.ack /\ Typed(close(r))
    BY <1>1, <2>2, <2>3
  <2>5. e = close(r)
    BY <1>3 DEF reset_and_close, r
  <2>6. Flows(r, m, e, m, b, g)
    BY <2>4, <2>5 DEF Flows
  <2>7. Flows(d, m, e, m, b, g)
    BY <1>0, <2>2, <2>3, <2>4, <2>5, <2>6, FlowTrans
  <2>. QED
    BY <2>3, <2>4, <2>5, <2>7 DEF SameAck, SameTcb, SameCore
<1>. QED
  BY <1>2, <1>3

\* handle_packet(), once the connection has begun.
LEMMA FlowPacket ==
  ASSUME NEW d, Sound(d), NEW b \in SeqNum, NEW g \in Nat, NEW m \in 0 .. MaxServed,
         Stream(d, m, b, g), d.state # "Init", NEW p \in Segment, NEW isn \in SeqNum
  PROVE  LET e == handle_packet(d, p, isn)
         IN  /\ Flows(d, m, e, m, b, g)
             /\ \/ /\ "SYN" \notin p.flags /\ p.seq = d.ack
                   /\ e = handle_expected(d, p) /\ e.theirAck = p.ack /\ e.window = p.window
                \/ /\ SameAck(d, e) /\ e.state = d.state
                   /\ e.ack = d.ack \/ ("SYN" \in p.flags /\ e.ack = plus(p.seq, 1))
<1>. DEFINE e == handle_packet(d, p, isn)
<1>0. Typed(d) /\ d \in Connection
  BY DEF Sound, Typed
<1>1. Stream(d, m, b, g) /\ Flows(d, m, d, m, b, g)
  <2>1. SameFlow(d, d)
    BY DEF SameFlow
  <2>. QED
    BY <1>0, <2>1, FlowSame DEF Flows
<1>2. CASE "SYN" \in p.flags
  <2>. DEFINE f == [d EXCEPT !.synSeq = p.seq, !.ack = plus(p.seq, 1)]
  <2>1. SameFlow(d, f) /\ SameAck(d, f) /\ f.state = d.state /\ f.ack = plus(p.seq, 1)
    BY <1>0 DEF SameFlow, SameAck, Connection
  <2>. HIDE DEF f
  <2>2. Flows(d, m, f, m, b, g)
    BY <1>0, <2>1, FlowSame DEF Flows
  <2>3. e = f \/ e = reset_and_close(d) \/ e = d
    BY <1>2 DEF e, f, handle_packet, handle_duplicate_syn, reset_and_close
  <2>. HIDE DEF e
  <2>4. e # f /\ e # d => Flows(d, m, e, m, b, g) /\ SameAck(d, e) /\ e.state = d.state /\ e.ack = d.ack
    BY <2>3, FlowClose
  <2>. QED
    BY <1>1, <1>2, <2>1, <2>2, <2>4 DEF SameAck, e
<1>3. CASE "SYN" \notin p.flags /\ p.seq = d.ack
  <2>1. e = handle_expected(d, p)
    BY <1>3 DEF handle_packet
  <2>. HIDE DEF e
  <2>2. Flows(d, m, e, m, b, g) /\ e.theirAck = p.ack /\ e.window = p.window
    BY <2>1, FlowExpected
  <2>. QED
    BY <1>3, <2>1, <2>2 DEF e
<1>4. CASE "SYN" \notin p.flags /\ p.seq # d.ack
  <2>. DEFINE t == send_empty(d, {"ACK"})
  <2>1. e = t \/ e = d
    BY <1>4 DEF handle_packet
  <2>2. {"ACK"} \in SUBSET Flag /\ "FIN" \notin {"ACK"} /\ {"ACK"} # {"SYN", "ACK"}
    <3>1. "SYN" \notin {"ACK"} /\ "SYN" \in {"SYN", "ACK"}
      OBVIOUS
    <3>. QED
      BY <3>1 DEF Flag
  <2>3. Flows(d, m, t, m, b, g)
    BY <1>0, <2>2, FlowSend DEF Flows
  <2>4. SameAck(d, t) /\ t.state = d.state /\ t.ack = d.ack
    BY <1>0, <2>2, SendEmptyAnswers DEF Answered, SameTcb, SameCore, SameAck
  <2>. HIDE DEF t, e
  <2>. QED
    BY <1>1, <2>1, <2>3, <2>4 DEF SameAck, e
<1>. QED
  BY <1>2, <1>3, <1>4

\* The acknowledgement that ends the handshake.
LEMMA ExpectedConnects ==
  ASSUME NEW d, Sound(d), NEW p \in Segment, d.state = "SynReceived", "ACK" \in p.flags
  PROVE  LET e == handle_expected(d, p)
         IN  is_connected(e.state) \/ (e.state = d.state /\ e.ack = d.ack)
<1>. DEFINE u == updated(d, p)
            a == after_ack(u, p)
            f == after_fin(a, p)
            k == after_fin_ack(f, p)
<1>1. Sound(u) /\ u.state = d.state /\ u.ack = d.ack /\ u \in Connection
  BY DEF updated, Sound, Typed, Connection, Segment, FinMatches
<1>. HIDE DEF u
<1>2. Sound(a) /\ a.state = "Established"
  <2>1. Sound(a)
    BY <1>1, HandleAck DEF after_ack, Preserves
  <2>2. a = [u EXCEPT !.state = "Established"]
    BY <1>1 DEF after_ack, handle_ack
  <2>. QED
    BY <1>1, <2>1, <2>2 DEF Connection
<1>. HIDE DEF a
<1>3. Sound(f) /\ onward(a, f)
  BY <1>2, HandleFin, PreservesSame DEF after_fin, Preserves
<1>. HIDE DEF f
<1>4. onward(f, k)
  BY <1>3, HandleFinAck, PreservesSame DEF after_fin_ack, Preserves
<1>. HIDE DEF k
<1>5. is_connected(a.state) /\ a.state \in States /\ f.state \in States
  BY <1>2, <1>3 DEF is_connected, States, Sound, Typed, Connection
<1>6. is_connected(k.state)
  BY <1>3, <1>4, <1>5, GrownUp
<1>7. close(u).state = d.state /\ close(u).ack = d.ack
  BY <1>1 DEF close, Connection
<1>8. handle_expected(d, p) = close(u) \/ handle_expected(d, p) = k
  BY DEF handle_expected, u, a, f, k
<1>. QED
  BY <1>6, <1>7, <1>8

\* flush_pending_packet(): the headers are counted in the sequence too, so that
\* nothing sent from then on is where the device expects it.
LEMMA FlowFlush ==
  ASSUME NEW d, Sound(d), NEW b \in SeqNum, NEW g \in Nat, NEW m \in 0 .. MaxServed,
         Stream(d, m, b, g), d.deferred # None, d.state # "SynSent"
  PROVE  LET e == flush_pending_packet(d)
         IN  Flows(d, m, e, m, b, g) /\ SameAck(d, e) /\ e.state = d.state /\ e.ack = d.ack
<1>. DEFINE q == d.deferred[1]
            l == Len(q.data)
            n == m - l
            k == HeaderLen + l
            s == offset(b, d.seq)
            e == flush_pending_packet(d)
            h == IF s = g /\ Whole(q) THEN g + l ELSE g
            fin == finSent(d)
            x == IF fin THEN 2 ELSE 1
<1>0. Typed(d) /\ d \in Connection
  BY DEF Sound, Typed
<1>1. pending(d) = l
  BY DEF pending
<1>2. /\ s \in Nat /\ l \in Nat /\ n \in Nat /\ m \in Nat /\ g <= s /\ d.seq \in SeqNum
      /\ s <= span(n) + x /\ q \in Segment /\ fin \in BOOLEAN /\ x \in {1, 2}
      /\ m <= MaxServed /\ MaxServed \in Nat
  <2>. HIDE DEF s, fin, q
  <2>1. /\ offset(b, d.seq) \in Nat /\ m - pending(d) \in Nat /\ m \in Nat
        /\ pending(d) \in Nat /\ finSent(d) \in BOOLEAN /\ g <= offset(b, d.seq)
        /\ d.seq \in SeqNum /\ d.deferred[1] \in Segment
        /\ offset(b, d.seq) <= span(m - pending(d)) + (IF finSent(d) THEN 2 ELSE 1)
    BY <1>0, StreamType
  <2>2. m <= MaxServed /\ MaxServed \in Nat /\ x \in {1, 2}
    BY SessionAssumption
  <2>. QED
    BY <1>1, <2>1, <2>2 DEF s, fin, q
<1>3. Waiting(q, m, d.seq, fin) /\ Counted(d.state, s, g, n, fin)
  BY <1>1 DEF Stream
<1>4. rawLength(q) = k /\ HeaderLen \in Nat /\ HeaderLen >= 1
  BY SizesAssumption DEF rawLength
<1>5. /\ e.seq = plus(d.seq, k) /\ e.deferred = None /\ e.state = d.state /\ e.ack = d.ack
      /\ e.finSeq = d.finSeq /\ e.buffer = Append(d.buffer, q) /\ SameAck(d, e)
      /\ e.garbled = (d.garbled \/ ~Whole(q))
  <2>. HIDE DEF q
  <2>1. e = [sent_to_buffer(d, q) EXCEPT !.seq = plus(@, rawLength(q)), !.deferred = None]
    BY DEF flush_pending_packet, q
  <2>. QED
    BY <1>0, <1>4, <2>1 DEF sent_to_buffer, Connection, SameAck, Whole
<1>. HIDE DEF q, s, e, fin
<1>6. l >= 1 /\ l <= m /\ (Whole(q) => ~fin /\ q.seq = d.seq /\ q.flags = {"ACK"})
      /\ \A j \in 1 .. l : q.data[j] = n + j
  BY <1>3 DEF Waiting
<1>7. s >= n + 1 /\ g >= 1 /\ (s = g /\ ~fin => s = n + 1)
  BY <1>3 DEF Counted
<1>. HIDE DEF l
<1>8. k \in Nat /\ n + l = m /\ k >= l + 1
  BY <1>2, <1>4
<1>9. span(m) \in Nat /\ span(n) \in Nat /\ span(m) + 4 <= SeqMod /\ SeqMod \in Nat
      /\ span(m) >= (span(n) + l) + HeaderLen
  <2>1. span(n + l) >= (span(n) + l) + HeaderLen
    BY <1>2, <1>6, Span
  <2>2. span(m) \in Nat /\ span(n) \in Nat /\ span(m) + 4 <= SeqMod
    BY <1>2, Span
  <2>. QED
    BY <1>8, <2>1, <2>2, SizesAssumption
<1>10. s + k <= span(m) + x /\ s + k < SeqMod
  <2>. HIDE DEF x, n
  <2>. QED
    BY <1>2, <1>4, <1>9
<1>11. offset(b, e.seq) = s + k
  <2>. HIDE DEF k
  <2>. QED
    BY <1>2, <1>5, <1>8, <1>10, OffsetIs DEF s
<1>12. /\ h \in Nat /\ g <= h /\ (h = g \/ s = g) /\ s <= s + k
       /\ h <= s + l /\ h <= s + k
  BY <1>2, <1>4
<1>13. finSent(e) = fin /\ pending(e) = 0
  BY <1>5 DEF finSent, fin, pending
<1>14. fin => h = g
  BY <1>6
<1>15. Wide(d, g, e, h, b)
  <2>1. g <= h /\ (h = g \/ s = g)
    BY <1>2
  <2>. HIDE DEF h, k
  <2>. QED
    BY <1>5, <1>11, <1>12, <1>13, <1>14, <2>1 DEF Wide, s, fin
<1>16. Counted(e.state, s + k, h, m - 0, fin)
  <2>1. m - 0 = m /\ s + k >= m + 1 /\ s + k # h /\ h <= s + k /\ h >= 1
    BY <1>2, <1>4, <1>7
  <2>. HIDE DEF h, k
  <2>. QED
    BY <1>5, <1>10, <2>1 DEF Counted
<1>17. ASSUME ~e.garbled
       PROVE  e.buffer \in Seq(Placed(b, h, s + k, fin))
  <2>1. Whole(q) /\ ~d.garbled
    BY <1>5, <1>17
  <2>2. ~fin /\ q.seq = d.seq /\ q.flags = {"ACK"} /\ offset(b, q.seq) = s
    BY <1>6, <2>1 DEF s
  <2>3. "FIN" \notin q.flags /\ q.flags # {"SYN", "ACK"}
    <3>1. "SYN" \notin {"ACK"} /\ "SYN" \in {"SYN", "ACK"} /\ "FIN" \notin {"ACK"}
      OBVIOUS
    <3>. QED
      BY <2>2, <3>1
  <2>4. occupies(q) = l
    BY <1>2, <2>3, Occupied DEF l
  <2>5. ASSUME s <= h
        PROVE  InOrder(q, s, h, fin)
    <3>1. s = g /\ h = s + l /\ s = n + 1
      BY <1>2, <1>6, <1>7, <2>1, <2>2, <2>5
    <3>2. \A j \in 1 .. l : q.data[j] = (s + j) - 1
      <4>1. \A j \in 1 .. l : n + j = ((n + 1) + j) - 1
        BY <1>2
      <4>. QED
        BY <1>6, <3>1, <4>1
    <3>3. \A j \in 1 .. Len(q.data) : q.data[j] = (s + j) - 1
      BY <3>2 DEF l
    <3>4. s + l <= h
      BY <1>2, <3>1
    <3>. HIDE DEF h
    <3>. QED
      BY <2>3, <2>4, <3>3, <3>4 DEF InOrder
  <2>6. s >= 1 /\ s + l <= s + k
    BY <1>2, <1>4, <1>7
  <2>. HIDE DEF h, k
  <2>7. q \in Placed(b, h, s + k, fin)
    BY <1>2, <2>2, <2>3, <2>4, <2>5, <2>6 DEF Placed
  <2>8. d.buffer \in Seq(Placed(b, g, s, fin))
    BY <2>1 DEF Stream, s, fin
  <2>9. Placed(b, g, s, fin) \subseteq Placed(b, h, s + k, fin)
    <3>1. s + k \in Nat /\ s <= s + k /\ g <= h /\ h \in Nat /\ (h = g \/ s = g)
      BY <1>2, <1>8, <1>12 DEF h
    <3>. QED
      BY <1>2, <1>14, <3>1, PlacedGrows
  <2>. DEFINE S == Placed(b, h, s + k, fin)
  <2>10. d.buffer \in Seq(S) /\ q \in S
    BY <2>7, <2>8, <2>9, SeqGrows
  <2>. HIDE DEF S
  <2>11. Append(d.buffer, q) \in Seq(S)
    BY <2>10, AppendProperties
  <2>. QED
    BY <1>5, <2>11 DEF S
<1>18. Stream(e, m, b, h)
  <2>. HIDE DEF h, k
  <2>1. pending(e) <= m
    BY <1>2, <1>13
  <2>. QED
    BY <1>5, <1>11, <1>13, <1>16, <1>17, <2>1 DEF Stream
<1>. HIDE DEF h
<1>. QED
  BY <1>5, <1>12, <1>15, <1>18 DEF Flows, e

\* process_receive(): the bytes that follow the m read so far.
LEMMA FlowReceive ==
  ASSUME NEW d, Sound(d), NEW b \in SeqNum, NEW g \in Nat, NEW m \in 0 .. MaxServed,
         Stream(d, m, b, g), d.deferred = None, ~finSent(d), d.state # "SynSent",
         NEW data \in Seq(Byte), NEW k \in Nat, Len(data) = k, k >= 1, m + k <= MaxServed,
         \A j \in 1 .. k : data[j] = m + j
  PROVE  LET e == process_receive(d, data)
         IN  Flows(d, m, e, m + k, b, g) /\ SameAck(d, e) /\ e.state = d.state /\ e.ack = d.ack
<1>. DEFINE p == segment(d, {"ACK"}, data)
            s == offset(b, d.seq)
            e == process_receive(d, data)
            h == IF s = g THEN g + k ELSE g
<1>0. Typed(d) /\ d \in Connection /\ pending(d) = 0 /\ finSent(d) = FALSE
  BY DEF Sound, Typed, pending, finSent
<1>1. /\ s \in Nat /\ m \in Nat /\ g <= s /\ d.seq \in SeqNum /\ s <= span(m) + 1
      /\ MaxServed \in Nat /\ m + k \in Nat
  <2>1. /\ offset(b, d.seq) \in Nat /\ m \in Nat /\ g <= offset(b, d.seq) /\ d.seq \in SeqNum
        /\ offset(b, d.seq) <= span(m - pending(d)) + (IF finSent(d) THEN 2 ELSE 1)
    BY <1>0, StreamType
  <2>2. m - 0 = m /\ m + k \in Nat /\ MaxServed \in Nat
    BY <2>1, SessionAssumption
  <2>. QED
    BY <1>0, <2>1, <2>2
<1>2. s >= m + 1 /\ g >= 1 /\ (s = g => s = m + 1)
  <2>1. Counted(d.state, s, g, m - pending(d), finSent(d))
    BY DEF Stream
  <2>2. m - pending(d) = m /\ finSent(d) = FALSE
    BY <1>0, <1>1
  <2>3. Counted(d.state, s, g, m, FALSE)
    BY <2>1, <2>2
  <2>. HIDE DEF s
  <2>. QED
    BY <2>3 DEF Counted
<1>3. p \in Segment
  BY <1>0, SegmentType DEF Flag
<1>4. p.data = data /\ p.seq = d.seq /\ p.flags = {"ACK"} /\ Whole(p)
  BY DEF segment, Whole, rawLength
<1>5. e = IF fits(d, p) THEN [sent_to_buffer(d, p) EXCEPT !.seq = plus(@, Len(data))]
          ELSE [d EXCEPT !.deferred = Some(p)]
  BY DEF process_receive
<1>. HIDE DEF p, e, s
<1>6. span(m) \in Nat /\ span(m + k) \in Nat /\ span(m + k) >= span(m) + k
      /\ span(m + k) + 4 <= SeqMod /\ SeqMod \in Nat
  BY <1>1, Span, SizesAssumption
<1>7. s + k <= span(m + k) + 1 /\ s + k < SeqMod /\ s + k \in Nat
  BY <1>1, <1>6
<1>8. h \in Nat /\ g <= h /\ (h = g \/ s = g) /\ h <= s + k /\ s <= s + k
  BY <1>1
<1>9. CASE fits(d, p)
  <2>1. /\ e.seq = plus(d.seq, k) /\ e.deferred = None /\ e.state = d.state /\ e.ack = d.ack
        /\ e.finSeq = d.finSeq /\ e.buffer = Append(d.buffer, p) /\ SameAck(d, e)
        /\ e.garbled = (d.garbled \/ ~Whole(p))
    BY <1>0, <1>5, <1>9 DEF sent_to_buffer, Connection, SameAck, Whole
  <2>2. offset(b, e.seq) = s + k /\ finSent(e) = FALSE /\ pending(e) = 0
    BY <1>0, <1>1, <1>7, <2>1, OffsetIs DEF s, finSent, pending
  <2>3. Wide(d, g, e, h, b)
    <3>. HIDE DEF h
    <3>. QED
      BY <1>0, <1>8, <2>1, <2>2 DEF Wide, s
  <2>4. Counted(e.state, s + k, h, (m + k) - 0, FALSE)
    <3>1. /\ (m + k) - 0 = m + k /\ s + k >= (m + k) + 1 /\ h >= 1
          /\ s + k = h => s + k = (m + k) + 1
      BY <1>1, <1>2
    <3>. HIDE DEF h
    <3>. QED
      BY <1>7, <1>8, <2>1, <3>1 DEF Counted
  <2>5. ASSUME ~e.garbled
        PROVE  e.buffer \in Seq(Placed(b, h, s + k, FALSE))
    <3>1. ~d.garbled
      BY <2>1, <2>5
    <3>2. "FIN" \notin p.flags /\ p.flags # {"SYN", "ACK"} /\ offset(b, p.seq) = s
      <4>1. "SYN" \notin {"ACK"} /\ "SYN" \in {"SYN", "ACK"} /\ "FIN" \notin {"ACK"}
        OBVIOUS
      <4>. QED
        BY <1>4, <4>1 DEF s
    <3>3. occupies(p) = k
      BY <1>3, <1>4, <3>2, Occupied
    <3>4. ASSUME s <= h
          PROVE  InOrder(p, s, h, FALSE)
      <4>1. s = g /\ h = s + k /\ s = m + 1
        BY <1>1, <1>2, <3>4
      <4>2. \A j \in 1 .. k : data[j] = (s + j) - 1
        <5>1. \A j \in 1 .. k : m + j = ((m + 1) + j) - 1
          BY <1>1
        <5>. QED
          BY <4>1, <5>1
      <4>3. s + k <= h
        BY <1>1, <4>1
      <4>. HIDE DEF h
      <4>. QED
        BY <1>4, <3>2, <3>3, <4>2, <4>3 DEF InOrder
    <3>5. s >= 1 /\ s + k <= s + k
      BY <1>1, <1>2
    <3>. HIDE DEF h
    <3>6. p \in Placed(b, h, s + k, FALSE)
      BY <1>3, <3>2, <3>3, <3>4, <3>5 DEF Placed
    <3>7. d.buffer \in Seq(Placed(b, g, s, FALSE))
      BY <1>0, <3>1 DEF Stream, s
    <3>8. Placed(b, g, s, FALSE) \subseteq Placed(b, h, s + k, FALSE)
      BY <1>1, <1>7, <1>8, PlacedGrows
    <3>. DEFINE R == Placed(b, g, s, FALSE)
                S == Placed(b, h, s + k, FALSE)
    <3>11. d.buffer \in Seq(R) /\ R \subseteq S /\ p \in S
      BY <3>6, <3>7, <3>8
    <3>. HIDE DEF R, S
    <3>9. d.buffer \in Seq(S) /\ p \in S
      BY <3>11, SeqGrows
    <3>10. Append(d.buffer, p) \in Seq(S)
      BY <3>9, AppendProperties
    <3>. QED
      BY <2>1, <3>10 DEF S
  <2>6. Stream(e, m + k, b, h)
    <3>. HIDE DEF h
    <3>1. pending(e) <= m + k
      BY <1>1, <2>2
    <3>. QED
      BY <2>1, <2>2, <2>4, <2>5, <3>1 DEF Stream
  <2>. HIDE DEF h
  <2>. QED
    BY <1>8, <2>1, <2>3, <2>6 DEF Flows, e
<1>10. CASE ~fits(d, p)
  <2>1. /\ e.seq = d.seq /\ e.deferred = Some(p) /\ e.state = d.state /\ e.ack = d.ack
        /\ e.finSeq = d.finSeq /\ e.buffer = d.buffer /\ SameAck(d, e) /\ e.garbled = d.garbled
    BY <1>0, <1>5, <1>10 DEF Connection, SameAck
  <2>2. e.deferred[1] = p /\ e.deferred # None
    BY <2>1 DEF Some, None
  <2>3. pending(e) = k /\ finSent(e) = FALSE
    BY <1>0, <1>4, <2>1, <2>2 DEF pending, finSent
  <2>4. (m + k) - k = m /\ k <= m + k /\ g <= g /\ m - 0 = m /\ s <= s
    BY <1>1
  <2>5. Waiting(p, m + k, e.seq, FALSE)
    BY <1>4, <2>1, <2>4 DEF Waiting
  <2>6. Counted(e.state, offset(b, e.seq), g, (m + k) - k, FALSE)
    BY <1>0, <2>1, <2>4 DEF Stream
  <2>7. Stream(e, m + k, b, g)
    BY <1>0, <2>1, <2>2, <2>3, <2>4, <2>5, <2>6 DEF Stream
  <2>8. Wide(d, g, e, g, b)
    BY <1>0, <1>1, <2>1, <2>3, <2>4 DEF Wide, s
  <2>. QED
    BY <2>1, <2>7, <2>8 DEF Flows, e
<1>. QED
  BY <1>9, <1>10

\* process_connect(): the SYN-ACK is at the beginning.
LEMMA FlowConnect ==
  ASSUME NEW d, Sound(d), NEW b \in SeqNum, NEW g \in Nat, NEW m \in 0 .. MaxServed,
         Stream(d, m, b, g), d.deferred = None, d.state = "SynSent"
  PROVE  LET e == process_connect(d)
         IN  Flows(d, m, e, m, b, g) /\ SameAck(d, e) /\ e.state = "SynReceived" /\ e.ack = d.ack
<1>. DEFINE a == [d EXCEPT !.state = "SynReceived"]
            r == send_empty(a, {"SYN", "ACK"})
            p == segment(a, {"SYN", "ACK"}, << >>)
            e == process_connect(d)
<1>0. Typed(d) /\ d \in Connection /\ pending(d) = 0 /\ finSent(d) = FALSE
  BY DEF Sound, Typed, pending, finSent, FinMatches, is_closed
<1>1. /\ Typed(a) /\ a.state = "SynReceived" /\ a.ack = d.ack /\ a.seq = d.seq /\ a.deferred = None
      /\ a.garbled = d.garbled /\ a.buffer = d.buffer /\ a.finSeq = d.finSeq /\ SameAck(d, a)
  BY <1>0 DEF Typed, Connection, States, SameAck
<1>. HIDE DEF a
<1>2. offset(b, d.seq) = 0 /\ m = 0 /\ g = 0
  <2>1. Counted(d.state, offset(b, d.seq), g, m - pending(d), finSent(d))
    BY DEF Stream
  <2>2. g <= offset(b, d.seq) /\ offset(b, d.seq) = 0 /\ m - pending(d) = 0
    BY <2>1 DEF Counted
  <2>. QED
    BY <1>0, <2>2
<1>3. d.seq = b
  <2>1. d.seq \in SeqNum /\ offset(b, b) = 0
    BY <1>0, OffsetZero DEF Connection
  <2>. QED
    BY <1>2, <2>1, OffsetIs
<1>4. {"SYN", "ACK"} \in SUBSET Flag /\ "FIN" \notin {"SYN", "ACK"}
  BY DEF Flag
<1>5. Sent(a, r, p, m) /\ p.flags = {"SYN", "ACK"}
  BY <1>1, <1>4, SendKeeps
<1>6. e = [r EXCEPT !.seq = plus(@, 1)]
  BY DEF process_connect, a, r
<1>. HIDE DEF r, p, e
<1>7. /\ e.seq = plus(b, 1) /\ e.deferred = None /\ e.state = "SynReceived" /\ e.ack = d.ack
      /\ e.finSeq = d.finSeq /\ SameAck(d, e) /\ e.garbled = d.garbled
      /\ e.buffer = d.buffer \/ e.buffer = Append(d.buffer, p)
  <2>1. /\ r \in Connection /\ SameTcb(a, r) /\ r.garbled = a.garbled /\ r.deferred = None
        /\ r.buffer = a.buffer \/ r.buffer = Append(a.buffer, p)
    BY <1>1, <1>5 DEF Sent
  <2>. QED
    BY <1>1, <1>3, <1>6, <2>1 DEF SameTcb, SameCore, SameAck, Connection
<1>8. offset(b, e.seq) = 1 /\ finSent(e) = FALSE /\ pending(e) = 0 /\ m - 0 = 0
  <2>1. 1 < SeqMod /\ 1 \in Nat
    BY SessionAssumption, StreamsAssumption, SizesAssumption
  <2>. QED
    BY <1>0, <1>2, <1>7, <2>1, OffsetZero DEF finSent, pending
<1>9. Counted(e.state, 1, 1, 0, FALSE)
  <2>1. span(0) \in Nat
    BY Span
  <2>. QED
    BY <1>7, <2>1 DEF Counted
<1>10. Wide(d, g, e, 1, b)
  BY <1>0, <1>2, <1>7, <1>8 DEF Wide
<1>11. ASSUME ~e.garbled
       PROVE  e.buffer \in Seq(Placed(b, 1, 1, FALSE))
  <2>1. d.buffer \in Seq(Placed(b, 0, 0, FALSE))
    BY <1>0, <1>2, <1>7, <1>11 DEF Stream
  <2>2. Placed(b, 0, 0, FALSE) \subseteq Placed(b, 1, 1, FALSE)
    <3>1. 0 \in Nat /\ 1 \in Nat /\ 0 <= 1 /\ FALSE \in BOOLEAN
      OBVIOUS
    <3>. QED
      BY <3>1, PlacedGrows, Zenon
  <2>3. p \in Segment /\ occupies(p) = 0 /\ p.seq = b
    BY <1>1, <1>3, <1>4, <1>5, Occupied DEF Sent
  <2>4. p \in Placed(b, 1, 1, FALSE)
    BY <2>3 DEF Placed
  <2>. DEFINE R == Placed(b, 0, 0, FALSE)
              S == Placed(b, 1, 1, FALSE)
  <2>5. d.buffer \in Seq(R) /\ R \subseteq S /\ p \in S
    BY <2>1, <2>2, <2>4
  <2>. HIDE DEF R, S
  <2>6. d.buffer \in Seq(S) /\ Append(d.buffer, p) \in Seq(S)
    BY <2>5, SeqGrows, AppendProperties
  <2>7. e.buffer \in Seq(S)
    BY <1>7, <2>6
  <2>. QED
    BY <2>7 DEF S
<1>12. Stream(e, m, b, 1)
  <2>1. m - pending(e) = 0 /\ pending(e) <= m
    BY <1>2, <1>8
  <2>. QED
    BY <1>7, <1>8, <1>9, <1>11, <2>1 DEF Stream
<1>. QED
  BY <1>7, <1>10, <1>12 DEF Flows, e

\* process_send().
LEMMA FlowProcessSend ==
  ASSUME NEW d, Sound(d), NEW b \in SeqNum, NEW g \in Nat, NEW m \in 0 .. MaxServed,
         Stream(d, m, b, g), NEW w \in 1 .. Len(d.toNetwork)
  PROVE  LET e == process_send(d, w)
         IN  Flows(d, m, e, m, b, g) /\ SameAck(d, e)
<1>. DEFINE r == SubSeq(d.toNetwork, w + 1, Len(d.toNetwork))
            s == [d EXCEPT !.toNetwork = r]
            t == send_empty(s, {"ACK"})
            e == process_send(d, w)
<1>0. Typed(d) /\ d \in Connection
  BY DEF Sound, Typed
<1>1. d.toNetwork \in Seq(Byte) /\ Len(d.toNetwork) \in Nat /\ Len(d.toNetwork) <= NetCap
  BY LenProperties DEF Sound, Typed, Connection
<1>2. r \in Seq(Byte) /\ Len(r) <= NetCap
  <2>1. r \in Seq(Byte)
    BY <1>1, SubSeqProperties
  <2>2. Len(r) = IF w + 1 <= Len(d.toNetwork) THEN (Len(d.toNetwork) - (w + 1)) + 1 ELSE 0
    BY <1>1, SubSeqProperties
  <2>. HIDE DEF r
  <2>. QED
    BY <1>1, <2>1, <2>2, SizesAssumption
<1>3. e = IF s.finReceived /\ s.toNetwork = << >> THEN do_handle_fin(s) ELSE t
  BY DEF process_send
<1>. HIDE DEF r
<1>4. Sound(s) /\ SameFlow(d, s) /\ SameAck(d, s)
  BY <1>0, <1>2 DEF Sound, Typed, Connection, FinMatches, SameFlow, SameAck
<1>. HIDE DEF s
<1>5. Typed(s) /\ Stream(s, m, b, g) /\ Wide(d, g, s, g, b)
  BY <1>0, <1>4, FlowSame DEF Sound
<1>6. {"ACK"} \in SUBSET Flag /\ "FIN" \notin {"ACK"} /\ {"ACK"} # {"SYN", "ACK"}
  <2>1. "SYN" \notin {"ACK"} /\ "SYN" \in {"SYN", "ACK"}
    OBVIOUS
  <2>. QED
    BY <2>1 DEF Flag
<1>7. Flows(s, m, t, m, b, g) /\ SameAck(s, t) /\ Typed(t)
  <2>1. SameTcb(s, t) /\ Typed(t)
    BY <1>5, <1>6, SendEmptyAnswers, SendEmpty DEF Answered, Typed
  <2>. QED
    BY <1>5, <1>6, <2>1, FlowSend DEF Flows, SameTcb, SameAck
<1>8. Flows(s, m, do_handle_fin(s), m, b, g) /\ SameAck(s, do_handle_fin(s)) /\ Typed(do_handle_fin(s))
  BY <1>4, <1>5, FlowDoFin, DoHandleFin DEF Preserves, Sound
<1>. HIDE DEF t
<1>9. Flows(s, m, e, m, b, g) /\ SameAck(s, e) /\ Typed(e)
  BY <1>3, <1>7, <1>8
<1>. HIDE DEF e
<1>. QED
  BY <1>0, <1>4, <1>5, <1>9, FlowTrans DEF SameAck, e

\* eof().
LEMMA FlowEof ==
  ASSUME NEW d, Sound(d), NEW b \in SeqNum, NEW g \in Nat, NEW m \in 0 .. MaxServed,
         Stream(d, m, b, g), d.state = "Established"
  PROVE  LET e == eof(d)
         IN  Flows(d, m, e, m, b, g) /\ SameAck(d, e)
<1>. DEFINE a == [d EXCEPT !.ack = plus(@, 1)]
            s == send_empty(a, {"FIN", "ACK"})
            e == eof(d)
<1>0. Typed(d) /\ d \in Connection /\ Typed(e)
  BY Eof DEF Sound, Typed, Preserves
<1>1. plus(d.ack, 1) \in SeqNum
  BY NumbersAreNat, PlusType DEF Sound
<1>2. Typed(a) /\ SameFlow(d, a) /\ SameAck(d, a) /\ a.state = d.state /\ ~finSent(a)
  BY <1>1 DEF Sound, Typed, Connection, SameFlow, SameAck, finSent, FinMatches, is_closed
<1>. HIDE DEF a
<1>3. Stream(a, m, b, g) /\ Wide(d, g, a, g, b)
  BY <1>0, <1>2, FlowSame
<1>4. e = [s EXCEPT !.finSeq = Some(a.seq), !.seq = plus(@, 1), !.state = "FinWait1"]
  BY DEF eof, a
<1>. HIDE DEF e
<1>5. Flows(a, m, e, m, b, g)
  <2>1. a.state # "SynSent" /\ "FinWait1" # "SynSent"
    BY <1>2
  <2>. QED
    BY <1>2, <1>3, <1>4, <2>1, FlowFin
<1>6. SameAck(a, e)
  <2>1. {"FIN", "ACK"} \in SUBSET Flag
    BY DEF Flag
  <2>2. SameTcb(a, s) /\ s \in Connection
    BY <1>2, <2>1, SendEmptyAnswers, SendEmpty DEF Answered, Typed
  <2>. HIDE DEF s, e
  <2>. QED
    BY <1>4, <2>2 DEF SameAck, SameTcb, Connection
<1>. HIDE DEF e
<1>. QED
  BY <1>0, <1>2, <1>3, <1>5, <1>6, FlowTrans DEF SameAck, e

\* handle_first_packet().
LEMMA FlowOpen ==
  ASSUME NEW d, Sound(d), d.state = "Init", d.deferred = None, ~d.garbled, d.buffer \in Seq(Silent),
         NEW p \in Segment, NEW isn \in SeqNum
  PROVE  LET e == handle_packet(d, p, isn)
         IN  /\ "SYN" \in p.flags =>
                  /\ Stream(e, 0, isn, 0) /\ e.state = "SynSent" /\ e.window = p.window
                  /\ e.ack = plus(p.seq, 1) /\ e.seq = isn /\ e.finSeq = None
             /\ "SYN" \notin p.flags =>
                  /\ e.state = "Init" /\ e.deferred = None /\ ~e.garbled /\ e.buffer \in Seq(Silent)
                  /\ e.window = d.window
<1>. DEFINE e == handle_packet(d, p, isn)
<1>0. Typed(d) /\ d \in Connection /\ d.finSeq = None
  BY DEF Sound, Typed, FinMatches, is_closed
<1>1. CASE "SYN" \in p.flags
  <2>1. /\ e.seq = isn /\ e.state = "SynSent" /\ e.window = p.window /\ e.ack = plus(p.seq, 1)
        /\ e.finSeq = None /\ e.deferred = None /\ e.buffer = d.buffer
    BY <1>0, <1>1 DEF handle_packet, handle_first_packet, Connection
  <2>. HIDE DEF e
  <2>2. offset(isn, e.seq) = 0 /\ finSent(e) = FALSE /\ pending(e) = 0
    BY <2>1, OffsetZero DEF finSent, pending
  <2>3. Counted(e.state, 0, 0, 0 - 0, FALSE)
    <3>1. span(0) \in Nat
      BY Span
    <3>. QED
      BY <2>1, <3>1 DEF Counted
  <2>4. e.buffer \in Seq(Placed(isn, 0, 0, FALSE))
    <3>. DEFINE S == Placed(isn, 0, 0, FALSE)
    <3>1. Silent \subseteq S
      BY SilentPlaced
    <3>. HIDE DEF S
    <3>2. e.buffer \in Seq(S)
      BY <2>1, <3>1, SeqGrows
    <3>. QED
      BY <3>2 DEF S
  <2>5. Stream(e, 0, isn, 0)
    <3>1. 0 - pending(e) = 0 - 0 /\ pending(e) <= 0
      BY <2>2
    <3>. QED
      BY <2>1, <2>2, <2>3, <2>4, <3>1 DEF Stream
  <2>. QED
    BY <1>1, <2>1, <2>5 DEF e
<1>2. CASE "SYN" \notin p.flags
  <2>. DEFINE x == [d EXCEPT !.seq = p.ack]
              r == send_empty(x, {"RST"})
              q == segment(x, {"RST"}, << >>)
  <2>1. /\ Typed(x) /\ x.state = "Init" /\ x.deferred = None /\ x.garbled = d.garbled
        /\ x.buffer = d.buffer /\ x.window = d.window
    BY <1>0 DEF Typed, Connection, Segment
  <2>. HIDE DEF x
  <2>2. {"RST"} \in SUBSET Flag /\ "FIN" \notin {"RST"} /\ {"RST"} # {"SYN", "ACK"}
    <3>1. "SYN" \notin {"RST"} /\ "SYN" \in {"SYN", "ACK"}
      OBVIOUS
    <3>. QED
      BY <3>1 DEF Flag
  <2>3. Sent(x, r, q, 0) /\ q.flags = {"RST"}
    BY <2>1, <2>2, SendKeeps
  <2>4. e = close(r)
    BY <1>2 DEF handle_packet, handle_first_packet, x
  <2>. HIDE DEF r, q, e
  <2>5. q \in Silent
    <3>1. q \in Segment /\ q.data = << >>
      BY <2>3 DEF Sent
    <3>. QED
      BY <2>2, <2>3, <3>1, Occupied DEF Silent
  <2>6. /\ r \in Connection /\ SameTcb(x, r) /\ r.garbled = x.garbled /\ r.deferred = None
        /\ r.buffer = x.buffer \/ r.buffer = Append(x.buffer, q)
    BY <2>1, <2>3 DEF Sent
  <2>7. Append(d.buffer, q) \in Seq(Silent)
    <3>. HIDE DEF Silent
    <3>. QED
      BY <2>5, AppendProperties
  <2>8. /\ e.state = "Init" /\ e.deferred = None /\ e.garbled = d.garbled
        /\ e.buffer = d.buffer \/ e.buffer = Append(d.buffer, q)
        /\ e.window = d.window
    BY <2>1, <2>4, <2>6 DEF close, Connection, SameTcb, SameCore
  <2>. HIDE DEF Silent
  <2>. QED
    BY <1>2, <2>7, <2>8 DEF e
<1>. QED
  BY <1>1, <1>2
(* The invariant *)

\* First elements of A only, then elements of B only.
Mixed(s, A, B) ==
  /\ s \in Seq(A \cup B)
  /\ \A i, j \in 1 .. Len(s) : i < j /\ s[i] \notin A => s[j] \in B

\* Elements of A alone.
LEMMA MixedFirst ==
  ASSUME NEW A, NEW B, NEW s \in Seq(A)
  PROVE  Mixed(s, A, B)
<1>1. s \in Seq(A \cup B)
  BY SeqGrows
<1>2. \A i \in 1 .. Len(s) : s[i] \in A
  BY ElementOfSeq
<1>. QED
  BY <1>1, <1>2 DEF Mixed

\* More may count as elements of B.
LEMMA MixedGrows ==
  ASSUME NEW A, NEW B, NEW C, B \subseteq C, NEW s, Mixed(s, A, B)
  PROVE  Mixed(s, A, C)
<1>. DEFINE S == A \cup B
            T == A \cup C
<1>1. S \subseteq T /\ s \in Seq(S)
  BY DEF Mixed
<1>2. s \in Seq(T)
  <2>. HIDE DEF S, T
  <2>. QED
    BY <1>1, SeqGrows
<1>. QED
  BY <1>2 DEF Mixed

\* Elements of B go at the end.
LEMMA MixedAppend ==
  ASSUME NEW A, NEW B, NEW s, Mixed(s, A, B), NEW p \in B
  PROVE  Mixed(Append(s, p), A, B)
<1>. DEFINE S == A \cup B
            t == Append(s, p)
<1>1. s \in Seq(S) /\ p \in S /\ \A i, j \in 1 .. Len(s) : i < j /\ s[i] \notin A => s[j] \in B
  BY DEF Mixed
<1>. HIDE DEF S
<1>2. /\ t \in Seq(S) /\ Len(t) = Len(s) + 1 /\ Len(s) \in Nat
      /\ \A i \in 1 .. Len(s) : t[i] = s[i]
      /\ t[Len(s) + 1] = p
  BY <1>1, AppendProperties, LenProperties
<1>. HIDE DEF t
<1>3. ASSUME NEW i \in 1 .. Len(t), NEW j \in 1 .. Len(t), i < j, t[i] \notin A
      PROVE  t[j] \in B
  <2>1. CASE j = Len(s) + 1
    BY <1>2, <2>1
  <2>2. CASE j # Len(s) + 1
    <3>1. i \in 1 .. Len(s) /\ j \in 1 .. Len(s)
      BY <1>2, <1>3, <2>2
    <3>. QED
      BY <1>1, <1>2, <1>3, <3>1
  <2>. QED
    BY <2>1, <2>2
<1>. QED
  BY <1>2, <1>3 DEF Mixed, S, t

\* What is left once the first element is taken.
LEMMA MixedTail ==
  ASSUME NEW A, NEW B, NEW s, Mixed(s, A, B), s # << >>
  PROVE  /\ Mixed(Tail(s), A, B) /\ Head(s) \in A \cup B
         /\ Head(s) \notin A => Tail(s) \in Seq(B)
<1>. DEFINE S == A \cup B
            t == Tail(s)
<1>1. s \in Seq(S) /\ \A i, j \in 1 .. Len(s) : i < j /\ s[i] \notin A => s[j] \in B
  BY DEF Mixed
<1>. HIDE DEF S
<1>2. /\ t \in Seq(S) /\ Len(t) = Len(s) - 1 /\ Len(s) \in Nat /\ Len(t) \in Nat
      /\ \A i \in 1 .. Len(t) : t[i] = s[i + 1]
      /\ Head(s) = s[1] /\ Head(s) \in S
  BY <1>1, HeadTailProperties, LenProperties
<1>. HIDE DEF t
<1>3. ASSUME NEW i \in 1 .. Len(t), NEW j \in 1 .. Len(t), i < j, t[i] \notin A
      PROVE  t[j] \in B
  <2>1. i + 1 \in 1 .. Len(s) /\ j + 1 \in 1 .. Len(s) /\ i + 1 < j + 1
    BY <1>2, <1>3
  <2>. QED
    BY <1>1, <1>2, <1>3, <2>1
<1>4. ASSUME Head(s) \notin A
      PROVE  t \in Seq(B)
  <2>1. \A j \in 1 .. Len(t) : j + 1 \in 1 .. Len(s) /\ 1 \in 1 .. Len(s) /\ 1 < j + 1
    BY <1>2
  <2>2. \A j \in 1 .. Len(t) : t[j] \in B
    BY <1>1, <1>2, <1>4, <2>1
  <2>. QED
    BY <1>2, <2>2
<1>. QED
  BY <1>2, <1>3, <1>4 DEF Mixed, S, t

\* What the device sends until it has the SYN-ACK, and after.
Stray ==
  {p \in Segment :
     /\ p.window \in Windows /\ p.data = << >>
     /\ place(p) = MaxSent + 2 \/ (place(p) = 0 /\ "SYN" \in p.flags)}

Genuine(b, v) ==
  {p \in Segment :
     /\ p.window \in Windows /\ "ACK" \in p.flags /\ "SYN" \notin p.flags
     /\ 1 <= offset(b, p.ack) /\ offset(b, p.ack) <= offset(b, v.rcvNext)}

\* What the device v has received ends before g, or with the FIN at g.
Heard(v, b, g, fin) ==
  LET r == offset(b, v.rcvNext)
  IN  /\ r <= g
      /\ r = Len(v.got) + 1 \/ (r = Len(v.got) + 2 /\ fin /\ r = g)

\* The relay's end: the connection d and the segments u it has not handled.
Listening(d, v, u, b) ==
  /\ Mixed(u, Stray, Genuine(b, v))
  /\ ~is_connected(d.state) => d.ack \in {at(1), at(MaxSent + 3)}
  /\ is_connected(d.state) =>
       /\ v.phase \notin {"closed", "synSent"} /\ u \in Seq(Genuine(b, v))
       /\ 1 <= offset(b, d.theirAck) /\ offset(b, d.theirAck) <= offset(b, v.rcvNext)

\* The device's end: what it has received, and the segments s under way to it.
Speaking(d, v, s, b, g) ==
  /\ ~d.garbled => s \in Seq(Placed(b, g, offset(b, d.seq), finSent(d)))
  /\ v.phase \notin {"closed", "synSent"} => Heard(v, b, g, finSent(d))

Quiet(d, m, s) ==
  /\ m = 0 /\ d.deferred = None /\ ~d.garbled
  /\ d.buffer \in Seq(Silent) /\ s \in Seq(Silent)

DownInv ==
  /\ OpeningInv
  /\ \A i \in 1 .. Len(dev.got) : dev.got[i] = i
  /\ early => dev.got = << >> /\ up \in Seq(Stray)
  /\ c.window = 0 \/ c.window \in Windows
  /\ DeviceNeverOverrun
  /\ c.state = "Init" => Quiet(c, net.in, down)
  /\ c.state # "Init" =>
       \E b \in SeqNum, g \in Nat :
         Stream(c, net.in, b, g) /\ Listening(c, dev, up, b) /\ Speaking(c, dev, down, b, g)

\* What was said stays in order when the connection goes on.
LEMMA SpeakingFlows ==
  ASSUME NEW d, Typed(d), NEW e, Typed(e), NEW b \in SeqNum, NEW g \in Nat, NEW h \in Nat,
         NEW v, NEW s, Speaking(d, v, s, b, g), Wide(d, g, e, h, b),
         v.rcvNext \in SeqNum
  PROVE  Speaking(e, v, s, b, h)
<1>1. /\ offset(b, d.seq) \in Nat /\ offset(b, e.seq) \in Nat /\ offset(b, v.rcvNext) \in Nat
      /\ finSent(d) \in BOOLEAN /\ finSent(e) \in BOOLEAN
  <2>1. d.seq \in SeqNum /\ e.seq \in SeqNum
    BY DEF Typed, Connection
  <2>. QED
    BY <2>1, OffsetIs DEF finSent
<1>2. ASSUME ~e.garbled
      PROVE  s \in Seq(Placed(b, h, offset(b, e.seq), finSent(e)))
  <2>. DEFINE R == Placed(b, g, offset(b, d.seq), finSent(d))
              S == Placed(b, h, offset(b, e.seq), finSent(e))
  <2>1. R \subseteq S
    <3>1. /\ offset(b, d.seq) <= offset(b, e.seq) /\ g <= h
          /\ finSent(d) => finSent(e) /\ h = g
          /\ h = g \/ offset(b, d.seq) = g
      BY DEF Wide
    <3>. QED
      BY <1>1, <3>1, PlacedGrows
  <2>2. s \in Seq(R)
    BY <1>2 DEF Wide, Speaking
  <2>. HIDE DEF R, S
  <2>3. s \in Seq(S)
    BY <2>1, <2>2, SeqGrows
  <2>. QED
    BY <2>3 DEF S
<1>3. Heard(v, b, g, finSent(d)) => Heard(v, b, h, finSent(e))
  <2>1. g <= h /\ (finSent(d) => finSent(e) /\ h = g)
    BY DEF Wide
  <2>. QED
    BY <1>1, <2>1 DEF Heard
<1>. QED
  BY <1>2, <1>3 DEF Speaking
(* The relay's steps *)

\* The types a step of the download relies on.
LEMMA DownType ==
  ASSUME DownInv
  PROVE  /\ Sound(c) /\ Typed(c) /\ c \in Connection /\ c.state \in States /\ Young(c)
         /\ dev \in DeviceRecord /\ dev.rcvNext \in SeqNum /\ dev.window \in Windows
         /\ dev.got \in Seq(Byte) /\ Len(dev.got) \in Nat
         /\ up \in Seq(Segment) /\ down \in Seq(Segment)
         /\ net.in \in 0 .. MaxServed /\ net.in \in Nat
<1>1. OpeningInv /\ SessionType
  BY DEF DownInv, OpeningInv
<1>2. dev \in DeviceRecord /\ Sound(c) /\ net.in \in 0 .. MaxServed /\ dev.got \in Seq(Byte)
  BY <1>1 DEF SessionType, DeviceType, Inv, DeviceRecord
<1>3. Len(dev.got) \in Nat /\ net.in \in Nat
  BY <1>2, LenProperties, SessionAssumption
<1>4. Young(c) /\ up \in Seq(Segment) /\ down \in Seq(Segment)
  BY <1>1 DEF OpeningInv, SessionType
<1>5. Typed(c) /\ c \in Connection /\ c.state \in States
  BY <1>2 DEF Sound, Typed, Connection
<1>. QED
  BY <1>2, <1>3, <1>4, <1>5 DEF DeviceRecord

\* A step of the connection, whatever it reads and handles.
LEMMA DownFlows ==
  ASSUME DownInv, OpeningInv', UNCHANGED <<dev, down>>, c'.state # "Init",
         NEW b \in SeqNum, NEW g \in Nat, Speaking(c, dev, down, b, g),
         Flows(c, net.in, c', net'.in, b, g), Listening(c', dev, up', b),
         early => up' \in Seq(Stray),
         c'.window = 0 \/ c'.window \in Windows, DeviceNeverOverrun'
  PROVE  DownInv'
<1>1. PICK h \in Nat : Stream(c', net'.in, b, h) /\ Wide(c, g, c', h, b)
  BY DEF Flows
<1>2. Typed(c) /\ Typed(c') /\ dev.rcvNext \in SeqNum
  BY DownType DEF OpeningInv, SessionType, Inv, Sound
<1>3. Speaking(c', dev, down, b, h)
  BY <1>1, <1>2, SpeakingFlows
<1>4. early' = early
  BY DEF early
<1>. QED
  BY <1>1, <1>3, <1>4 DEF DownInv

\* A step of a poll that reads nothing.
LEMMA DownConn ==
  ASSUME DownInv, OpeningInv', onward(c, c'), UNCHANGED <<dev, up, down>>, net'.in = net.in,
         c.state # "Init", SameAck(c, c'),
         \A b \in SeqNum, g \in Nat :
           Stream(c, net.in, b, g) => Flows(c, net.in, c', net.in, b, g),
         \/ is_connected(c.state)
         \/ ~is_connected(c'.state) /\ c'.ack = c.ack /\ c'.state # "Init"
  PROVE  DownInv'
<1>0. c.state \in States
  BY DownType
<1>1. PICK b \in SeqNum, g \in Nat :
        Stream(c, net.in, b, g) /\ Listening(c, dev, up, b) /\ Speaking(c, dev, down, b, g)
  BY DEF DownInv
<1>2. Flows(c, net.in, c', net'.in, b, g)
  BY <1>1
<1>3. is_connected(c.state) => is_connected(c'.state)
  BY <1>0, GrownUp
<1>4. ~is_connected(c'.state) => ~is_connected(c.state) /\ c'.ack = c.ack
  BY <1>3
<1>5. is_connected(c'.state) => is_connected(c.state)
  OBVIOUS
<1>6. Listening(c', dev, up', b)
  BY <1>1, <1>4, <1>5 DEF Listening, SameAck
<1>7. c'.state # "Init"
  BY <1>3 DEF is_connected
<1>8. (early => up' \in Seq(Stray)) /\ (c'.window = 0 \/ c'.window \in Windows)
  BY DEF DownInv, SameAck
<1>9. DeviceNeverOverrun'
  BY DEF DownInv, DeviceNeverOverrun
<1>. QED
  BY <1>1, <1>2, <1>6, <1>7, <1>8, <1>9, DownFlows

\* A step that leaves the connection alone.
LEMMA DownSame ==
  ASSUME DownInv, OpeningInv', UNCHANGED <<c, dev, up, down>>, net'.in = net.in
  PROVE  DownInv'
<1>1. early' = early /\ (DeviceNeverOverrun' <=> DeviceNeverOverrun)
  BY DEF early, DeviceNeverOverrun
<1>. QED
  BY <1>1 DEF DownInv

\* The place of a stray segment.
LEMMA StrayPlace ==
  ASSUME NEW p \in Stray
  PROVE  /\ p \in Segment /\ p.window \in Windows
         /\ p.seq \notin {at(1), at(MaxSent + 3)}
         /\ plus(p.seq, 1) \in {at(1), at(MaxSent + 3)}
<1>1. /\ p \in Segment /\ p.window \in Windows /\ place(p) \in {0, MaxSent + 2}
  BY DEF Stray
<1>2. p.seq = at(place(p))
  BY <1>1, Places
<1>3. /\ MaxSent \in Nat /\ MaxSent + 4 < SeqMod /\ SeqMod \in Nat
  BY Small
<1>4. \A i, k \in Nat : i < SeqMod /\ k < SeqMod /\ at(k) = at(i) => k = i
  BY Offsets
<1>5. \A i, k \in Nat : i < SeqMod /\ i + k < SeqMod => plus(at(i), k) = at(i + k)
  BY Offsets
<1>6. CASE place(p) = 0
  <2>1. 0 < SeqMod /\ 1 < SeqMod /\ 0 + 1 = 1 /\ MaxSent + 3 < SeqMod /\ MaxSent + 3 \in Nat /\ MaxSent + 3 # 0
    BY <1>3
  <2>2. at(0) # at(1) /\ at(0) # at(MaxSent + 3)
    BY <1>4, <2>1
  <2>3. plus(at(0), 1) = at(1)
    BY <1>5, <2>1
  <2>. QED
    BY <1>1, <1>2, <1>6, <2>2, <2>3
<1>7. CASE place(p) = MaxSent + 2
  <2>1. /\ MaxSent + 2 \in Nat /\ MaxSent + 2 < SeqMod /\ 1 < SeqMod /\ (MaxSent + 2) + 1 = MaxSent + 3
        /\ MaxSent + 3 < SeqMod /\ MaxSent + 3 \in Nat /\ MaxSent + 3 # MaxSent + 2 /\ MaxSent + 2 # 1
    BY <1>3
  <2>2. at(MaxSent + 2) # at(1) /\ at(MaxSent + 2) # at(MaxSent + 3)
    BY <1>4, <2>1
  <2>3. plus(at(MaxSent + 2), 1) = at(MaxSent + 3)
    BY <1>5, <2>1
  <2>. QED
    BY <1>1, <1>2, <1>7, <2>2, <2>3
<1>. QED
  BY <1>1, <1>6, <1>7

\* The segment that opens the connection, or does not.
LEMMA DownOpens ==
  ASSUME DownInv, OpeningInv', RelayHandle, c.state = "Init"
  PROVE  DownInv'
<1>. DEFINE p == Head(up)
<1>0. /\ Sound(c) /\ Typed(c) /\ up # << >> /\ up' = Tail(up) /\ UNCHANGED <<dev, down, net>>
      /\ early' = early
  BY DownType DEF RelayHandle, early
<1>1. PICK isn \in RelayIsns : c' = handle_packet(c, p, isn)
  BY DEF RelayHandle, Handle
<1>2. isn \in SeqNum
  BY SessionAssumption
<1>3. early /\ up \in Seq(Stray)
  BY DEF DownInv, OpeningInv, Opening, early
<1>4. Quiet(c, net.in, down)
  BY DEF DownInv
<1>5. p \in Stray /\ up' \in Seq(Stray)
  <2>. HIDE DEF Stray
  <2>. QED
    BY <1>0, <1>3, HeadTailProperties
<1>. HIDE DEF p
<1>6. /\ p \in Segment /\ p.window \in Windows /\ plus(p.seq, 1) \in {at(1), at(MaxSent + 3)}
  BY <1>5, StrayPlace
<1>7. DeviceNeverOverrun'
  BY <1>0 DEF DownInv, DeviceNeverOverrun
<1>8. CASE "SYN" \in p.flags
  <2>1. /\ Stream(c', 0, isn, 0) /\ c'.state = "SynSent" /\ c'.window = p.window
        /\ c'.ack = plus(p.seq, 1) /\ c'.seq = isn /\ c'.finSeq = None
    BY <1>0, <1>1, <1>2, <1>4, <1>6, <1>8, FlowOpen DEF Quiet
  <2>2. Mixed(up', Stray, Genuine(isn, dev))
    BY <1>5, MixedFirst
  <2>3. Listening(c', dev, up', isn)
    BY <1>6, <2>1, <2>2 DEF Listening, is_connected
  <2>4. Speaking(c', dev, down, isn, 0)
    <3>. DEFINE S == Placed(isn, 0, offset(isn, c'.seq), finSent(c'))
    <3>1. Silent \subseteq S /\ down \in Seq(Silent)
      BY <1>4, SilentPlaced DEF Quiet
    <3>. HIDE DEF S
    <3>2. down \in Seq(S)
      BY <3>1, SeqGrows
    <3>. QED
      BY <1>3, <3>2 DEF Speaking, early, S
  <2>5. net'.in = 0 /\ 0 \in Nat
    BY <1>0, <1>4 DEF Quiet
  <2>6. Stream(c', net'.in, isn, 0) /\ Listening(c', dev', up', isn) /\ Speaking(c', dev', down', isn, 0)
    BY <1>0, <2>1, <2>3, <2>4, <2>5
  <2>. QED
    BY <1>0, <1>2, <1>5, <1>6, <1>7, <2>1, <2>5, <2>6 DEF DownInv
<1>9. CASE "SYN" \notin p.flags
  <2>1. /\ c'.state = "Init" /\ c'.deferred = None /\ ~c'.garbled /\ c'.buffer \in Seq(Silent)
        /\ c'.window = c.window
    BY <1>0, <1>1, <1>2, <1>4, <1>6, <1>9, FlowOpen DEF Quiet
  <2>2. Quiet(c', net'.in, down')
    BY <1>0, <1>4, <2>1 DEF Quiet
  <2>. QED
    BY <1>0, <1>5, <1>7, <2>1, <2>2 DEF DownInv
<1>. QED
  BY <1>8, <1>9

\* Any other segment.
LEMMA DownHandle ==
  ASSUME DownInv, OpeningInv', onward(c, c'), RelayHandle, c.state # "Init"
  PROVE  DownInv'
<1>. DEFINE p == Head(up)
<1>0. /\ Sound(c) /\ Typed(c) /\ c.state \in States
      /\ up # << >> /\ up' = Tail(up) /\ UNCHANGED <<dev, down, net>> /\ early' = early
      /\ net.in \in 0 .. MaxServed
  BY DownType DEF RelayHandle, early
<1>1. PICK isn \in RelayIsns : c' = handle_packet(c, p, isn)
  BY DEF RelayHandle, Handle
<1>2. isn \in SeqNum
  BY SessionAssumption
<1>3. PICK b \in SeqNum, g \in Nat :
        Stream(c, net.in, b, g) /\ Listening(c, dev, up, b) /\ Speaking(c, dev, down, b, g)
  BY DEF DownInv
<1>. DEFINE G == Genuine(b, dev)
<1>4. /\ Mixed(up', Stray, G) /\ p \in Stray \cup G
      /\ p \notin Stray => up' \in Seq(G)
  <2>1. Mixed(up, Stray, G)
    BY <1>3 DEF Listening
  <2>. HIDE DEF G, Stray
  <2>. QED
    BY <1>0, <2>1, MixedTail
<1>5. is_connected(c.state) => ~early /\ up' \in Seq(G) /\ p \in G
  <2>1. is_connected(c.state) => ~early /\ up \in Seq(G)
    BY <1>3 DEF Listening, early
  <2>. HIDE DEF G
  <2>. QED
    BY <1>0, <2>1, HeadTailProperties
<1>6. early => up' \in Seq(Stray) /\ p \in Stray
  <2>1. early => up \in Seq(Stray)
    BY DEF DownInv
  <2>. HIDE DEF Stray
  <2>. QED
    BY <1>0, <2>1, HeadTailProperties
<1>. HIDE DEF p
<1>7. p \in Segment /\ p.window \in Windows
  BY <1>4 DEF Stray, Genuine
<1>8. /\ Flows(c, net.in, c', net.in, b, g)
      /\ \/ /\ "SYN" \notin p.flags /\ p.seq = c.ack
            /\ c' = handle_expected(c, p) /\ c'.theirAck = p.ack /\ c'.window = p.window
         \/ /\ SameAck(c, c') /\ c'.state = c.state
            /\ c'.ack = c.ack \/ ("SYN" \in p.flags /\ c'.ack = plus(p.seq, 1))
  BY <1>0, <1>1, <1>2, <1>3, <1>7, FlowPacket
<1>9. c'.state # "Init"
  BY <1>0 DEF onward, Later, States
<1>10. ~is_connected(c.state) => c.ack \in {at(1), at(MaxSent + 3)}
  BY <1>3 DEF Listening
<1>11. DeviceNeverOverrun'
  BY <1>0 DEF DownInv, DeviceNeverOverrun
<1>12. CASE /\ "SYN" \notin p.flags /\ p.seq = c.ack
            /\ c' = handle_expected(c, p) /\ c'.theirAck = p.ack /\ c'.window = p.window
  <2>1. ~is_connected(c.state) => p \notin Stray
    BY <1>10, <1>12, StrayPlace
  <2>2. p \in G /\ up' \in Seq(G) /\ ~early
    BY <1>4, <1>5, <1>6, <2>1
  <2>3. ASSUME ~is_connected(c.state)
        PROVE  is_connected(c'.state) \/ (c'.state = c.state /\ c'.ack = c.ack)
    <3>1. c.state = "SynReceived"
      BY <2>2, <2>3 DEF DownInv, OpeningInv, Opening, early, is_connected
    <3>2. "ACK" \in p.flags
      BY <2>2 DEF Genuine
    <3>. QED
      BY <1>0, <1>7, <1>12, <3>1, <3>2, ExpectedConnects
  <2>4. ~is_connected(c'.state) => c'.ack \in {at(1), at(MaxSent + 3)}
    <3>1. is_connected(c.state) => is_connected(c'.state)
      BY <1>0, GrownUp
    <3>. QED
      BY <1>10, <2>3, <3>1
  <2>5. 1 <= offset(b, p.ack) /\ offset(b, p.ack) <= offset(b, dev.rcvNext)
    BY <2>2 DEF Genuine
  <2>6. Listening(c', dev, up', b)
    BY <1>4, <1>12, <2>2, <2>4, <2>5 DEF Listening, early
  <2>7. (early => up' \in Seq(Stray)) /\ (c'.window = 0 \/ c'.window \in Windows)
    BY <1>7, <1>12, <2>2
  <2>8. Flows(c, net.in, c', net'.in, b, g)
    BY <1>0, <1>8
  <2>. QED
    BY <1>0, <1>3, <1>9, <1>11, <2>6, <2>7, <2>8, DownFlows
<1>13. CASE /\ SameAck(c, c') /\ c'.state = c.state
            /\ c'.ack = c.ack \/ ("SYN" \in p.flags /\ c'.ack = plus(p.seq, 1))
  <2>1. "SYN" \in p.flags => p \in Stray
    BY <1>4 DEF Genuine
  <2>2. ~is_connected(c'.state) => c'.ack \in {at(1), at(MaxSent + 3)}
    BY <1>10, <1>13, <2>1, StrayPlace
  <2>3. Listening(c', dev, up', b)
    BY <1>3, <1>4, <1>5, <1>13, <2>2 DEF Listening, SameAck
  <2>4. (early => up' \in Seq(Stray)) /\ (c'.window = 0 \/ c'.window \in Windows)
    BY <1>6, <1>13 DEF SameAck, DownInv
  <2>5. Flows(c, net.in, c', net'.in, b, g)
    BY <1>0, <1>8
  <2>. QED
    BY <1>0, <1>3, <1>9, <1>11, <2>3, <2>4, <2>5, DownFlows
<1>. QED
  BY <1>8, <1>12, <1>13

\* A connection that reads is connected, and has not sent its FIN.
LEMMA Reading ==
  ASSUME Sound(c), may_read(c)
  PROVE  /\ c.state = "Established" /\ is_connected(c.state) /\ c.deferred = None
         /\ remaining_client_window(c) > 0 /\ finSent(c) = FALSE
<1>1. c.state \in States
  BY DEF Sound, Typed, Connection
<1>2. c.state = "Established"
  BY <1>1 DEF may_read, is_connected, is_closed, States
<1>3. finSent(c) = FALSE
  BY <1>2 DEF finSent, Sound, FinMatches, is_closed
<1>. QED
  BY <1>2, <1>3 DEF may_read

\* The bytes the relay reads fit in the window the device has left.
LEMMA DownReads ==
  ASSUME DownInv, OpeningInv', onward(c, c'), NEW n \in 1 .. (MaxServed - net.in),
         PollReceiveBytes(range(net.in + 1, net.in + n)),
         net' = [net EXCEPT !.in = @ + n], UNCHANGED <<dev, up, down>>
  PROVE  DownInv'
<1>. DEFINE m == net.in
            data == range(m + 1, m + n)
            k == Len(dev.got)
            r == remaining_client_window(c)
<1>0. /\ Sound(c) /\ Typed(c) /\ c \in Connection /\ c.state \in States
      /\ m \in 0 .. MaxServed /\ m \in Nat /\ MaxServed \in Nat /\ k \in Nat
      /\ n \in Nat /\ n >= 1 /\ m + n <= MaxServed /\ dev.rcvNext \in SeqNum
  BY DownType, SessionAssumption
<1>1. /\ c.state = "Established" /\ is_connected(c.state) /\ c.deferred = None
      /\ r > 0 /\ finSent(c) = FALSE
  BY <1>0, Reading DEF PollReceiveBytes, can_receive
<1>2. /\ data \in Seq(Byte) /\ Len(data) = n
      /\ \A j \in 1 .. n : data[j] = m + j
  <2>1. 1 .. MaxServed \subseteq Byte
    BY SessionAssumption
  <2>2. m + 1 \in Nat \ {0} /\ m + n \in Nat /\ m + 1 <= m + n
        /\ ((m + n) + 1) - (m + 1) = n
    BY <1>0
  <2>3. /\ data \in Seq(Byte) /\ Len(data) = ((m + n) + 1) - (m + 1)
        /\ \A j \in 1 .. Len(data) : data[j] = ((m + 1) + j) - 1
    <3>. HIDE DEF m
    <3>. QED
      BY <1>0, <2>1, <2>2, RangeType
  <2>4. \A j \in 1 .. n : ((m + 1) + j) - 1 = m + j
    BY <1>0
  <2>. HIDE DEF data, m
  <2>. QED
    BY <2>2, <2>3, <2>4
<1>3. PICK b \in SeqNum, g \in Nat :
        Stream(c, m, b, g) /\ Listening(c, dev, up, b) /\ Speaking(c, dev, down, b, g)
  BY <1>1 DEF DownInv
<1>4. c' = process_receive(c, data) /\ n <= r
  <2>1. c' = process_receive(c, data) /\ Len(data) <= smaller(r, MaxPayload)
    BY DEF PollReceiveBytes
  <2>2. n <= smaller(r, MaxPayload)
    BY <1>2, <2>1
  <2>3. r \in Nat /\ MaxPayload \in Nat
    <3>1. /\ c.theirAck \in SeqNum /\ c.seq \in SeqNum /\ c.window \in Nat
      BY <1>0, SizesAssumption DEF Connection, Window
    <3>2. c.theirAck \in Nat /\ c.seq \in Nat /\ c.seq < SeqMod
      BY <3>1, SizesAssumption DEF SeqNum
    <3>3. plus(c.theirAck, c.window) \in Nat
      BY <3>1, <3>2, PlusType, SizesAssumption DEF SeqNum
    <3>4. minus(plus(c.theirAck, c.window), c.seq) \in Nat
      BY <3>2, <3>3, SeqArith, SizesAssumption DEF SeqNum
    <3>. QED
      BY <3>4, SizesAssumption DEF remaining_client_window
  <2>. HIDE DEF r
  <2>. QED
    BY <1>0, <2>1, <2>2, <2>3 DEF smaller
<1>. HIDE DEF data
<1>5. /\ Flows(c, m, c', m + n, b, g) /\ SameAck(c, c')
      /\ c'.state = c.state /\ c'.ack = c.ack
  <2>. HIDE DEF m
  <2>. QED
    BY <1>0, <1>1, <1>2, <1>3, <1>4, FlowReceive
<1>6. net'.in = m + n
  BY DEF DownInv, OpeningInv, SessionType
<1>7. /\ dev.phase \notin {"closed", "synSent"}
      /\ offset(b, c.theirAck) <= offset(b, dev.rcvNext)
      /\ offset(b, dev.rcvNext) = k + 1 /\ offset(b, dev.rcvNext) <= g
  BY <1>1, <1>3 DEF Listening, Speaking, Heard
<1>8. /\ offset(b, c.seq) \in Nat /\ g <= offset(b, c.seq) /\ offset(b, c.seq) >= m + 1
      /\ offset(b, c.theirAck) \in Nat
  <2>1. offset(b, c.seq) \in Nat /\ g <= offset(b, c.seq)
    BY <1>0, <1>3, StreamType
  <2>2. pending(c) = 0 /\ m - 0 = m
    BY <1>0, <1>1 DEF pending
  <2>3. offset(b, c.seq) >= (m - pending(c)) + 1
    <3>. HIDE DEF m
    <3>. QED
      BY <1>1, <1>3 DEF Stream, Counted
  <2>4. c.theirAck \in SeqNum
    BY <1>0 DEF Connection
  <2>. QED
    BY <2>1, <2>2, <2>3, <2>4, OffsetIs
<1>9. /\ c.window \in Nat /\ r \in Nat /\ c.window # 0
      /\ offset(b, c.seq) + r <= offset(b, c.theirAck) + c.window
  <2>1. offset(b, c.theirAck) <= offset(b, c.seq)
    BY <1>0, <1>7, <1>8
  <2>. QED
    BY <1>0, <1>1, <2>1, WindowLeft
<1>10. DeviceNeverOverrun'
  <2>. DEFINE w == c.window
  <2>1. w \in Windows
    BY <1>9 DEF DownInv
  <2>2. (m + n) - k <= w
    <3>. HIDE DEF m, k, r, w
    <3>. QED
      BY <1>0, <1>4, <1>7, <1>8, <1>9 DEF w
  <2>. QED
    BY <1>6, <2>1, <2>2 DEF DeviceNeverOverrun
<1>11. Listening(c', dev, up', b)
  BY <1>3, <1>5 DEF Listening, SameAck
<1>12. /\ early => up' \in Seq(Stray)
       /\ c'.window = 0 \/ c'.window \in Windows
       /\ c'.state # "Init"
  BY <1>1, <1>5 DEF DownInv, SameAck
<1>. QED
  BY <1>3, <1>5, <1>6, <1>10, <1>11, <1>12, DownFlows

\* The client loop hands over what is in the buffer.
LEMMA DownDrain ==
  ASSUME DownInv, OpeningInv', RelayDrain
  PROVE  DownInv'
<1>0. /\ Sound(c) /\ Typed(c) /\ c \in Connection /\ net.in \in 0 .. MaxServed
  BY DownType
<1>1. /\ c' = [c EXCEPT !.buffer = << >>, !.used = 0] /\ down' = down \o c.buffer
      /\ UNCHANGED <<dev, up, net>> /\ early' = early
  BY DEF RelayDrain, Drain, early
<1>2. /\ c'.state = c.state /\ c'.seq = c.seq /\ c'.finSeq = c.finSeq /\ c'.deferred = c.deferred
      /\ c'.garbled = c.garbled /\ c'.buffer = << >> /\ c'.ack = c.ack
      /\ c'.theirAck = c.theirAck /\ c'.window = c.window
  BY <1>0, <1>1 DEF Connection
<1>3. ASSUME NEW S, c.buffer \in Seq(S), down \in Seq(S)
      PROVE  c'.buffer \in Seq(S) /\ down' \in Seq(S)
  BY <1>1, <1>2, <1>3, ConcatProperties, EmptySeq
<1>4. DeviceNeverOverrun'
  BY <1>1 DEF DownInv, DeviceNeverOverrun
<1>5. CASE c.state = "Init"
  <2>1. Quiet(c, net.in, down)
    BY <1>5 DEF DownInv
  <2>2. c'.buffer \in Seq(Silent) /\ down' \in Seq(Silent)
    BY <1>3, <2>1 DEF Quiet
  <2>3. Quiet(c', net'.in, down')
    BY <1>1, <1>2, <2>1, <2>2 DEF Quiet
  <2>. QED
    BY <1>1, <1>2, <1>4, <1>5, <2>3 DEF DownInv
<1>6. CASE c.state # "Init"
  <2>1. PICK b \in SeqNum, g \in Nat :
          Stream(c, net.in, b, g) /\ Listening(c, dev, up, b) /\ Speaking(c, dev, down, b, g)
    BY <1>6 DEF DownInv
  <2>. DEFINE S == Placed(b, g, offset(b, c.seq), finSent(c))
  <2>2. ~c.garbled => c.buffer \in Seq(S) /\ down \in Seq(S)
    BY <2>1 DEF Stream, Speaking
  <2>. HIDE DEF S
  <2>3. ~c.garbled => c'.buffer \in Seq(S) /\ down' \in Seq(S)
    BY <1>3, <2>2
  <2>4. finSent(c') = finSent(c) /\ pending(c') = pending(c)
    BY <1>2 DEF finSent, pending
  <2>5. Stream(c', net'.in, b, g)
    BY <1>1, <1>2, <2>1, <2>3, <2>4 DEF Stream, S
  <2>6. Speaking(c', dev', down', b, g)
    BY <1>1, <1>2, <2>1, <2>3, <2>4 DEF Speaking, S
  <2>7. Listening(c', dev', up', b)
    BY <1>1, <1>2, <2>1 DEF Listening
  <2>. QED
    BY <1>1, <1>2, <1>4, <1>6, <2>5, <2>6, <2>7 DEF DownInv
<1>. QED
  BY <1>5, <1>6

\* Other connections only take room in the buffer.
LEMMA DownOthers ==
  ASSUME DownInv, OpeningInv', onward(c, c'), OtherConnections
  PROVE  DownInv'
<1>0. /\ Sound(c) /\ Typed(c) /\ c \in Connection /\ net.in \in 0 .. MaxServed
  BY DownType
<1>1. PICK n : c' = [c EXCEPT !.used = @ + n] /\ UNCHANGED <<dev, up, down, net>>
  BY DEF OtherConnections, OtherTraffic, envVars
<1>2. SameFlow(c, c') /\ SameAck(c, c') /\ c'.state = c.state /\ c'.ack = c.ack
  BY <1>0, <1>1 DEF SameFlow, SameAck, Connection
<1>3. CASE c.state = "Init"
  <2>1. Quiet(c', net'.in, down')
    BY <1>1, <1>2, <1>3 DEF DownInv, Quiet, SameFlow
  <2>2. early' = early /\ DeviceNeverOverrun'
    BY <1>1 DEF DownInv, DeviceNeverOverrun, early
  <2>. QED
    BY <1>1, <1>2, <1>3, <2>1, <2>2 DEF DownInv, SameAck
<1>4. CASE c.state # "Init"
  <2>1. \A b \in SeqNum, g \in Nat :
          Stream(c, net.in, b, g) => Flows(c, net.in, c', net.in, b, g)
    BY <1>0, <1>2, FlowSame DEF Flows
  <2>. QED
    BY <1>1, <1>2, <1>4, <2>1, DownConn
<1>. QED
  BY <1>3, <1>4

\* What the router absorbs is not there any more.
LEMMA DownAbsorbs ==
  ASSUME DownInv, OpeningInv', RouterAbsorbs
  PROVE  DownInv'
<1>1. up # << >> /\ up' = Tail(up) /\ UNCHANGED <<c, dev, down, net>> /\ early' = early
  BY DEF RouterAbsorbs, connVars, early
<1>2. ASSUME NEW S, up \in Seq(S)
      PROVE  up' \in Seq(S)
  BY <1>1, <1>2, HeadTailProperties
<1>3. ASSUME NEW b, Listening(c, dev, up, b)
      PROVE  Listening(c', dev', up', b)
  <2>1. Mixed(up', Stray, Genuine(b, dev))
    BY <1>1, <1>3, MixedTail DEF Listening
  <2>. HIDE DEF Genuine, Stray
  <2>. QED
    BY <1>1, <1>2, <1>3, <2>1 DEF Listening
<1>4. early' => up' \in Seq(Stray)
  BY <1>1, <1>2 DEF DownInv
<1>5. DeviceNeverOverrun'
  BY <1>1 DEF DownInv, DeviceNeverOverrun
<1>. QED
  BY <1>1, <1>3, <1>4, <1>5 DEF DownInv

\* The other steps of a poll.
LEMMA DownPoll ==
  ASSUME DownInv, OpeningInv', onward(c, c'),
         \/ RelayFlush \/ RelaySend \/ RelayConnect
         \/ (PollReceiveEof \/ PollReceiveFails \/ PollReceiveEnd) /\ UNCHANGED envVars
  PROVE  DownInv'
<1>0. /\ Sound(c) /\ Typed(c) /\ c \in Connection /\ net.in \in 0 .. MaxServed
      /\ c.state \in States /\ Young(c)
  BY DownType
<1>1. UNCHANGED <<dev, up, down>> /\ net'.in = net.in
  <2>1. net \in [out : Seq(Byte), in : 0 .. MaxServed]
    BY DEF DownInv, OpeningInv, SessionType
  <2>2. CASE SocketAccepts
    BY <2>1, <2>2 DEF SocketAccepts
  <2>. QED
    BY <2>2 DEF RelayFlush, RelaySend, RelayConnect, SocketConnects, envVars
<1>2. CASE UNCHANGED c
  BY <1>1, <1>2, DownSame
<1>3. ASSUME c.state # "Init",
             \A b \in SeqNum, g \in Nat :
               Stream(c, net.in, b, g) => Flows(c, net.in, c', net.in, b, g) /\ SameAck(c, c'),
             \/ is_connected(c.state)
             \/ ~is_connected(c'.state) /\ c'.ack = c.ack /\ c'.state # "Init"
      PROVE  DownInv'
  <2>1. SameAck(c, c')
    BY <1>3 DEF DownInv
  <2>. QED
    BY <1>1, <1>3, <2>1, DownConn
<1>4. c.deferred # None \/ c.toNetwork # << >> \/ may_read(c) => is_connected(c.state)
  BY <1>0 DEF Young, may_read
<1>5. CASE PollFlush \/ PollClosed
  <2>1. UNCHANGED c \/ (c.deferred # None /\ c' = flush_pending_packet(c))
    BY <1>5 DEF PollFlush, PollClosed
  <2>2. ASSUME c.deferred # None, c' = flush_pending_packet(c)
        PROVE  DownInv'
    <3>1. is_connected(c.state) /\ c.state # "SynSent" /\ c.state # "Init"
      BY <1>4, <2>2 DEF is_connected
    <3>2. \A b \in SeqNum, g \in Nat :
            Stream(c, net.in, b, g) => Flows(c, net.in, c', net.in, b, g) /\ SameAck(c, c')
      BY <1>0, <2>2, <3>1, FlowFlush
    <3>. QED
      BY <1>3, <3>1, <3>2
  <2>. QED
    BY <1>2, <2>1, <2>2
<1>6. CASE \E w \in 1 .. Len(c.toNetwork) : PollSendBytes(w)
  <2>1. PICK w \in 1 .. Len(c.toNetwork) : c' = process_send(c, w) /\ c.toNetwork # << >>
    BY <1>6 DEF PollSendBytes
  <2>2. is_connected(c.state) /\ c.state # "Init"
    BY <1>4, <2>1 DEF is_connected
  <2>3. \A b \in SeqNum, g \in Nat :
          Stream(c, net.in, b, g) => Flows(c, net.in, c', net.in, b, g) /\ SameAck(c, c')
    BY <1>0, <2>1, FlowProcessSend
  <2>. QED
    BY <1>3, <2>2, <2>3
<1>7. ASSUME c' = close(c) \/ c' = reset_and_close(c), c.state # "Init"
      PROVE  DownInv'
  <2>1. \A b \in SeqNum, g \in Nat :
          Stream(c, net.in, b, g) =>
            /\ Flows(c, net.in, c', net.in, b, g) /\ SameAck(c, c')
            /\ c'.state = c.state /\ c'.ack = c.ack
    BY <1>0, <1>7, FlowClose
  <2>2. c'.state = c.state /\ c'.ack = c.ack
    BY <1>7, <2>1 DEF DownInv
  <2>. QED
    BY <1>3, <1>7, <2>1, <2>2
<1>8. CASE PollSendFails
  <2>1. (c' = close(c) \/ c' = reset_and_close(c)) /\ is_connected(c.state)
    BY <1>4, <1>8 DEF PollSendFails
  <2>. QED
    BY <1>7, <2>1 DEF is_connected
<1>9. CASE PollReceiveFails
  <2>1. c' = reset_and_close(c) /\ is_connected(c.state)
    BY <1>4, <1>9 DEF PollReceiveFails, can_receive
  <2>. QED
    BY <1>7, <2>1 DEF is_connected
<1>10. CASE PollReceiveEof
  <2>1. c.state = "Established" /\ is_connected(c.state) /\ c' = eof(c)
    BY <1>0, <1>10, Reading DEF PollReceiveEof, can_receive
  <2>2. \A b \in SeqNum, g \in Nat :
          Stream(c, net.in, b, g) => Flows(c, net.in, c', net.in, b, g) /\ SameAck(c, c')
    BY <1>0, <2>1, FlowEof
  <2>. QED
    BY <1>3, <2>1, <2>2
<1>11. CASE PollConnectFails
  BY <1>7, <1>11 DEF PollConnectFails
<1>12. CASE PollConnected
  <2>1. c.state = "SynSent" /\ c' = process_connect(c) /\ c.deferred = None
    BY <1>0, <1>12 DEF PollConnected, Young, is_connected
  <2>2. \A b \in SeqNum, g \in Nat :
          Stream(c, net.in, b, g) =>
            /\ Flows(c, net.in, c', net.in, b, g) /\ SameAck(c, c')
            /\ c'.state = "SynReceived" /\ c'.ack = c.ack
    BY <1>0, <2>1, FlowConnect
  <2>3. c'.state = "SynReceived" /\ c'.ack = c.ack
    BY <2>1, <2>2 DEF DownInv
  <2>4. ~is_connected(c'.state)
    BY <2>3 DEF is_connected
  <2>. QED
    BY <1>3, <2>1, <2>2, <2>3, <2>4
<1>. QED
  BY <1>2, <1>5, <1>6, <1>8, <1>9, <1>10, <1>11, <1>12
     DEF RelayFlush, RelaySend, SocketAccepts, RelayConnect, SocketConnects, PollSendSkip,
         PollReceiveEnd, PollEnd
(* The device's steps *)

\* What is appended is one of them.
LEMMA Appended ==
  ASSUME NEW S, NEW s \in Seq(S), NEW p, Append(s, p) \in Seq(S)
  PROVE  p \in S
<1>. DEFINE t == Append(s, p)
            k == Len(s) + 1
<1>1. Len(s) \in Nat /\ Len(t) = k /\ t[k] = p
  BY LenProperties
<1>2. t \in Seq(S)
  OBVIOUS
<1>. HIDE DEF t
<1>3. k \in 1 .. Len(t)
  BY <1>1
<1>. QED
  BY <1>1, <1>2, <1>3, ElementOfSeq

\* The relay still listens when the device knows more, and to what it says.
LEMMA ListeningGrows ==
  ASSUME NEW d, NEW v, NEW w, NEW u, NEW b \in SeqNum, Listening(d, v, u, b),
         v.rcvNext \in SeqNum, w.rcvNext \in SeqNum, w.phase \notin {"closed", "synSent"},
         d.theirAck \in SeqNum, offset(b, v.rcvNext) <= offset(b, w.rcvNext)
  PROVE  Listening(d, w, u, b)
<1>1. /\ offset(b, v.rcvNext) \in Nat /\ offset(b, w.rcvNext) \in Nat /\ offset(b, d.theirAck) \in Nat
      /\ \A x \in SeqNum : offset(b, x) \in Nat
  BY OffsetIs
<1>2. \A x \in SeqNum : offset(b, x) <= offset(b, v.rcvNext) => offset(b, x) <= offset(b, w.rcvNext)
  BY <1>1
<1>3. Genuine(b, v) \subseteq Genuine(b, w)
  <2>. SUFFICES ASSUME NEW p \in Genuine(b, v)
                PROVE  p \in Genuine(b, w)
    OBVIOUS
  <2>1. p.ack \in SeqNum
    BY DEF Genuine, Segment
  <2>. QED
    BY <1>2, <2>1 DEF Genuine
<1>. DEFINE G == Genuine(b, v)
            H == Genuine(b, w)
<1>4. G \subseteq H /\ Mixed(u, Stray, G)
  BY <1>3 DEF Listening
<1>. HIDE DEF G, H
<1>5. Mixed(u, Stray, H) /\ (u \in Seq(G) => u \in Seq(H))
  BY <1>4, MixedGrows, SeqGrows
<1>. QED
  BY <1>2, <1>5 DEF Listening, G, H

\* The relay listens to what the device says next.
LEMMA ListeningAppend ==
  ASSUME NEW d, NEW v, NEW u, NEW b, Listening(d, v, u, b), NEW p \in Genuine(b, v)
  PROVE  Listening(d, v, Append(u, p), b)
<1>. DEFINE G == Genuine(b, v)
<1>1. Mixed(u, Stray, G) /\ p \in G
  BY DEF Listening
<1>. HIDE DEF G
<1>2. Mixed(Append(u, p), Stray, G) /\ (u \in Seq(G) => Append(u, p) \in Seq(G))
  BY <1>1, MixedAppend, AppendProperties
<1>. QED
  BY <1>2 DEF Listening, G

\* What the device says on its own account, once it has the SYN-ACK.
LEMMA DeviceSays ==
  ASSUME DownInv, OpeningInv', UNCHANGED <<c, down, net>>, ~early, ~early',
         dev'.rcvNext = dev.rcvNext, dev'.got = dev.got,
         NEW p, up' = Append(up, p), p.window \in Windows, "ACK" \in p.flags, "SYN" \notin p.flags,
         p.ack = dev.rcvNext
  PROVE  DownInv'
<1>0. /\ Sound(c) /\ dev.rcvNext \in SeqNum /\ up \in Seq(Segment) /\ Len(dev.got) \in Nat
  BY DownType
<1>1. c.state # "Init"
  BY DEF DownInv, OpeningInv, Opening, early
<1>2. PICK b \in SeqNum, g \in Nat :
        Stream(c, net.in, b, g) /\ Listening(c, dev, up, b) /\ Speaking(c, dev, down, b, g)
  BY <1>1 DEF DownInv
<1>3. p \in Segment
  <2>1. up' \in Seq(Segment)
    BY DEF OpeningInv, SessionType
  <2>. QED
    BY <1>0, <2>1, Appended
<1>4. Heard(dev, b, g, finSent(c)) /\ Heard(dev', b, g, finSent(c))
  BY <1>2 DEF Speaking, early, Heard
<1>5. 1 <= offset(b, dev.rcvNext) /\ offset(b, dev.rcvNext) <= offset(b, dev.rcvNext)
  <2>1. offset(b, dev.rcvNext) \in Nat
    BY <1>0, OffsetIs
  <2>. QED
    BY <1>0, <1>4, <2>1 DEF Heard
<1>6. p \in Genuine(b, dev)
  BY <1>3, <1>5 DEF Genuine
<1>7. Listening(c, dev, up', b)
  BY <1>2, <1>6, ListeningAppend
<1>8. Genuine(b, dev') = Genuine(b, dev)
  BY DEF Genuine
<1>9. Listening(c, dev', up', b)
  BY <1>7, <1>8 DEF Listening, early
<1>10. Speaking(c, dev', down, b, g)
  BY <1>2, <1>4 DEF Speaking
<1>11. DeviceNeverOverrun'
  BY DEF DownInv, DeviceNeverOverrun
<1>. QED
  BY <1>1, <1>2, <1>9, <1>10, <1>11 DEF DownInv

\* What it says before.
LEMMA DeviceCalls ==
  ASSUME DownInv, OpeningInv', UNCHANGED <<c, down, net>>, early, early', dev'.got = dev.got,
         NEW p, up' = Append(up, p), p.window \in Windows, p.data = << >>,
         place(p) = MaxSent + 2 \/ (place(p) = 0 /\ "SYN" \in p.flags)
  PROVE  DownInv'
<1>0. Sound(c) /\ up \in Seq(Segment)
  BY DownType
<1>1. p \in Segment
  <2>1. up' \in Seq(Segment)
    BY DEF OpeningInv, SessionType
  <2>. QED
    BY <1>0, <2>1, Appended
<1>2. p \in Stray /\ up \in Seq(Stray)
  BY <1>1 DEF Stray, DownInv
<1>3. up' \in Seq(Stray)
  <2>. HIDE DEF Stray
  <2>. QED
    BY <1>2, AppendProperties
<1>4. ASSUME NEW b \in SeqNum, NEW g \in Nat,
             Listening(c, dev, up, b) /\ Speaking(c, dev, down, b, g)
      PROVE  Listening(c, dev', up', b) /\ Speaking(c, dev', down, b, g)
  <2>1. Mixed(up', Stray, Genuine(b, dev'))
    BY <1>3, MixedFirst
  <2>2. ~is_connected(c.state)
    BY <1>4 DEF Listening, early
  <2>. QED
    BY <1>4, <2>1, <2>2 DEF Listening, Speaking, early
<1>5. DeviceNeverOverrun'
  BY DEF DownInv, DeviceNeverOverrun
<1>. QED
  BY <1>3, <1>4, <1>5 DEF DownInv

\* The device's steps that are no answers.
LEMMA DownSends ==
  ASSUME DownInv, OpeningInv', Device, ~DevReceive
  PROVE  DownInv'
<1>0. dev \in DeviceRecord /\ dev.window \in Windows
  BY DownType
<1>f. /\ "ACK" \in {"ACK"} /\ "SYN" \notin {"ACK"} /\ "ACK" \in {"FIN", "ACK"} /\ "SYN" \notin {"FIN", "ACK"}
      /\ "ACK" \in {"RST", "ACK"} /\ "SYN" \notin {"RST", "ACK"} /\ "SYN" \in {"SYN"}
  OBVIOUS
<1>1. ASSUME NEW v, NEW flags, NEW k, NEW data
      PROVE  LET p == segment_of(v, flags, k, data)
             IN  /\ p.flags = flags /\ p.ack = v.rcvNext /\ p.window = v.window /\ p.data = data
                 /\ p.seq = at(k)
  BY DEF segment_of, at
<1>2. ASSUME NEW v, NEW flags, NEW k \in Nat, k < SeqMod, NEW data
      PROVE  place(segment_of(v, flags, k, data)) = k
  BY <1>1, <1>2, Offsets DEF place
<1>3. ASSUME early, early', dev'.got = dev.got, UNCHANGED <<c, down, net>>,
             NEW flags, NEW k \in {0, MaxSent + 2}, k = 0 => "SYN" \in flags,
             Send(devSegment(flags, k, << >>))
      PROVE  DownInv'
  <2>. DEFINE p == devSegment(flags, k, << >>)
  <2>1. k \in Nat /\ k < SeqMod
    BY Small
  <2>2. p.flags = flags /\ p.window \in Windows /\ p.data = << >> /\ place(p) = k
    BY <1>0, <1>1, <1>2, <2>1 DEF devSegment
  <2>3. up' = Append(up, p)
    BY <1>3 DEF Send
  <2>. HIDE DEF p
  <2>4. place(p) = MaxSent + 2 \/ (place(p) = 0 /\ "SYN" \in p.flags)
    BY <1>3, <2>2
  <2>. QED
    BY <1>3, <2>2, <2>3, <2>4, DeviceCalls
<1>4. ASSUME ~early, ~early', UNCHANGED <<c, down, net>>,
             dev'.rcvNext = dev.rcvNext, dev'.got = dev.got,
             NEW v, v.rcvNext = dev.rcvNext, v.window \in Windows,
             NEW flags \in {{"ACK"}, {"FIN", "ACK"}, {"RST", "ACK"}}, NEW k, NEW data,
             Send(segment_of(v, flags, k, data))
      PROVE  DownInv'
  <2>. DEFINE p == segment_of(v, flags, k, data)
  <2>1. p.flags = flags /\ p.window \in Windows /\ p.ack = dev.rcvNext
    BY <1>1, <1>4
  <2>2. up' = Append(up, p)
    BY <1>4 DEF Send
  <2>3. "ACK" \in flags /\ "SYN" \notin flags
    BY <1>f
  <2>. HIDE DEF p
  <2>. QED
    BY <1>4, <2>1, <2>2, <2>3, DeviceSays
<1>5. CASE DevStray
  <2>1. UNCHANGED <<c, dev, down, net>> /\ early /\ early'
    BY <1>5 DEF DevStray, connVars, early
  <2>2. PICK flags : Send(devSegment(flags, MaxSent + 2, << >>))
    BY <1>5 DEF DevStray
  <2>3. MaxSent + 2 # 0
    BY Small
  <2>. QED
    BY <1>3, <2>1, <2>2, <2>3
<1>6. CASE DevOpen
  <2>1. UNCHANGED <<c, down, net>> /\ early /\ early' /\ dev'.got = dev.got
    BY <1>0, <1>6 DEF DevOpen, connVars, early, DeviceRecord
  <2>2. Send(devSegment({"SYN"}, 0, << >>))
    BY <1>6 DEF DevOpen
  <2>. QED
    BY <1>f, <1>3, <2>1, <2>2
<1>7. CASE DevResend
  <2>1. UNCHANGED <<c, dev, down, net>> /\ early' = early
    BY <1>7 DEF DevResend, connVars, early
  <2>2. CASE dev.phase = "synSent" /\ Send(devSegment({"SYN"}, 0, << >>))
    <3>1. early
      BY <2>2 DEF early
    <3>. QED
      BY <1>f, <1>3, <2>1, <2>2, <3>1
  <2>3. CASE dev.phase = "established"
    <3>. DEFINE last == smaller(dev.sent, (dev.una + MaxPayload) - 1)
                flags == IF dev.fin /\ last = dev.sent THEN {"FIN", "ACK"} ELSE {"ACK"}
    <3>1. ~early
      BY <2>3 DEF early
    <3>2. Send(segment_of(dev, flags, dev.una, range(dev.una, last)))
      BY <1>7, <2>3 DEF DevResend, devSegment
    <3>3. flags \in {{"ACK"}, {"FIN", "ACK"}, {"RST", "ACK"}}
      OBVIOUS
    <3>. HIDE DEF flags, last
    <3>. QED
      BY <1>0, <1>4, <2>1, <3>1, <3>2, <3>3
  <2>. QED
    BY <1>7, <2>2, <2>3 DEF DevResend
<1>8. CASE \E n \in 1 .. MaxPayload : DevSend(n)
  <2>1. PICK n \in 1 .. MaxPayload : DevSend(n)
    BY <1>8
  <2>2. /\ UNCHANGED <<c, down, net>> /\ ~early /\ ~early' /\ dev'.got = dev.got
        /\ dev'.rcvNext = dev.rcvNext
    BY <1>0, <2>1 DEF DevSend, connVars, early, DeviceRecord
  <2>3. Send(segment_of(dev, {"ACK"}, dev.sent + 1, range(dev.sent + 1, dev.sent + n)))
    BY <2>1 DEF DevSend, devSegment
  <2>. QED
    BY <1>0, <1>4, <2>2, <2>3
<1>9. CASE DevFin
  <2>1. /\ UNCHANGED <<c, down, net>> /\ ~early /\ ~early' /\ dev'.got = dev.got
        /\ dev'.rcvNext = dev.rcvNext
    BY <1>0, <1>9 DEF DevFin, connVars, early, DeviceRecord
  <2>2. Send(segment_of(dev, {"FIN", "ACK"}, dev.sent + 1, << >>))
    BY <1>9 DEF DevFin, devSegment
  <2>. QED
    BY <1>0, <1>4, <2>1, <2>2
<1>10. CASE DevReset
  <2>1. /\ UNCHANGED <<c, down, net>> /\ ~early /\ ~early' /\ dev'.got = dev.got
        /\ dev'.rcvNext = dev.rcvNext
    BY <1>0, <1>10 DEF DevReset, connVars, early, DeviceRecord
  <2>2. Send(segment_of(dev, {"RST", "ACK"}, devNext, << >>))
    BY <1>10 DEF DevReset, devSegment
  <2>. QED
    BY <1>0, <1>4, <2>1, <2>2
<1>11. CASE DevWindow
  <2>1. PICK w \in Windows : /\ dev' = [dev EXCEPT !.window = w]
                             /\ Send(segment_of([dev EXCEPT !.window = w], {"ACK"}, devNext, << >>))
    BY <1>11 DEF DevWindow
  <2>. DEFINE v == [dev EXCEPT !.window = w]
  <2>2. /\ UNCHANGED <<c, down, net>> /\ ~early /\ ~early' /\ dev'.got = dev.got
        /\ dev'.rcvNext = dev.rcvNext /\ v.rcvNext = dev.rcvNext /\ v.window = w
    BY <1>0, <1>11, <2>1 DEF DevWindow, connVars, early, DeviceRecord
  <2>3. Send(segment_of(v, {"ACK"}, devNext, << >>))
    BY <2>1
  <2>. HIDE DEF v
  <2>. QED
    BY <1>4, <2>2, <2>3
<1>. QED
  BY <1>5, <1>6, <1>7, <1>8, <1>9, <1>10, <1>11 DEF Device

\* What the device makes of a segment, once the connection is open.
LEMMA DownHears ==
  ASSUME DownInv, OpeningInv', UNCHANGED <<c, net>>, c.state # "Init",
         down # << >>, down' = Tail(down), ~early',
         NEW b \in SeqNum, NEW g \in Nat, Stream(c, net.in, b, g), Speaking(c, dev, down, b, g),
         Listening(c, dev', up', b), Heard(dev', b, g, finSent(c)),
         \A i \in 1 .. Len(dev'.got) : dev'.got[i] = i, Len(dev.got) <= Len(dev'.got)
  PROVE  DownInv'
<1>0. Len(dev.got) \in Nat /\ Len(dev'.got) \in Nat /\ net.in \in Nat
  <2>1. dev'.got \in Seq(Byte)
    BY DEF OpeningInv, SessionType, DeviceType, DeviceRecord
  <2>. QED
    BY <2>1, DownType, LenProperties
<1>1. DeviceNeverOverrun'
  <2>1. PICK w \in Windows : net.in - Len(dev.got) <= w
    BY DEF DownInv, DeviceNeverOverrun
  <2>2. w \in Nat
    BY SessionAssumption, SizesAssumption DEF Window
  <2>3. \A k, l \in Nat : net.in - k <= w /\ k <= l => net.in - l <= w
    BY <1>0, <2>2
  <2>4. net'.in - Len(dev'.got) <= w
    BY <1>0, <2>1, <2>3
  <2>. QED
    BY <2>4 DEF DeviceNeverOverrun
<1>2. Speaking(c, dev', down', b, g)
  <2>. DEFINE S == Placed(b, g, offset(b, c.seq), finSent(c))
  <2>1. ~c.garbled => down \in Seq(S)
    BY DEF Speaking
  <2>. HIDE DEF S
  <2>2. ~c.garbled => down' \in Seq(S)
    BY <2>1, HeadTailProperties
  <2>. QED
    BY <2>2 DEF Speaking, S
<1>. QED
  BY <1>1, <1>2 DEF DownInv

\* The acknowledgement the device sends in reply.
LEMMA ReplyGenuine ==
  ASSUME NEW v, NEW b \in SeqNum, v.window \in Windows, v.rcvNext \in SeqNum,
         1 <= offset(b, v.rcvNext), Reply(v), up \in Seq(Segment), up' \in Seq(Segment)
  PROVE  \E p \in Genuine(b, v) : up' = Append(up, p)
<1>. DEFINE p == segment_of(v, {"ACK"}, devNext, << >>)
<1>1. up' = Append(up, p)
  BY DEF Reply
<1>2. p.flags = {"ACK"} /\ p.ack = v.rcvNext /\ p.window = v.window
  BY DEF segment_of
<1>3. "ACK" \in {"ACK"} /\ "SYN" \notin {"ACK"}
  OBVIOUS
<1>. HIDE DEF p
<1>4. p \in Segment
  BY <1>1, Appended
<1>5. offset(b, v.rcvNext) <= offset(b, v.rcvNext)
  <2>1. offset(b, v.rcvNext) \in Nat
    BY OffsetIs
  <2>. QED
    BY <2>1
<1>6. p \in Genuine(b, v)
  BY <1>2, <1>3, <1>4, <1>5 DEF Genuine
<1>. QED
  BY <1>1, <1>6

\* Data and FINs are taken where the device expects them only, and there they
\* are what the server wrote.
LEMMA TakesInOrder ==
  ASSUME DownInv, NEW b \in SeqNum, NEW g \in Nat, g < SeqMod,
         Heard(dev, b, g, finSent(c)), NEW p \in Placed(b, g, offset(b, c.seq), finSent(c)),
         occupies(p) > 0, p.seq = dev.rcvNext
  PROVE  LET got == dev.got \o p.data
             next == plus(dev.rcvNext, occupies(p))
         IN  /\ \A i \in 1 .. Len(got) : got[i] = i
             /\ Len(got) \in Nat /\ Len(dev.got) <= Len(got) /\ next \in SeqNum
             /\ offset(b, dev.rcvNext) <= offset(b, next) /\ offset(b, next) <= g
             /\ \/ offset(b, next) = Len(got) + 1
                \/ offset(b, next) = Len(got) + 2 /\ finSent(c) /\ offset(b, next) = g
<1>. DEFINE r == offset(b, dev.rcvNext)
            o == occupies(p)
            k == Len(dev.got)
            l == Len(p.data)
            got == dev.got \o p.data
            next == plus(dev.rcvNext, o)
            fin == finSent(c)
<1>1. /\ p \in Segment /\ p.data \in Seq(Byte) /\ o \in Nat /\ l \in Nat /\ l <= o /\ o > 0
      /\ "FIN" \notin p.flags => o = l
      /\ p.data = << >> /\ "FIN" \in p.flags => o = 1
      /\ p.data = << >> => l = 0
  <2>1. p \in Segment
    BY DEF Placed
  <2>. QED
    BY <2>1, Occupied DEF Segment
<1>2. dev.rcvNext \in SeqNum /\ dev.got \in Seq(Byte) /\ k \in Nat /\ r \in Nat
  BY DownType, OffsetIs
<1>3. r <= g /\ (r = k + 1 \/ (r = k + 2 /\ r = g))
  BY DEF Heard
<1>4. InOrder(p, r, g, fin)
  <2>1. /\ offset(b, p.seq) <= g => InOrder(p, offset(b, p.seq), g, fin)
    BY DEF Placed
  <2>. QED
    BY <1>3, <2>1
<1>5. /\ r + o <= g /\ \A j \in 1 .. l : p.data[j] = (r + j) - 1
      /\ "FIN" \in p.flags => fin /\ p.data = << >> /\ r + 1 = g
  BY <1>4 DEF InOrder
<1>6. Len(got) = k + l /\ \A i \in 1 .. (k + l) : got[i] = IF i <= k THEN dev.got[i] ELSE p.data[i - k]
  BY <1>1, <1>2, ConcatProperties
<1>7. \A i \in 1 .. k : dev.got[i] = i
  BY DEF DownInv
<1>. HIDE DEF r, o, k, l, got, fin
<1>8. r = k + 1
  BY <1>1, <1>2, <1>3, <1>5
<1>9. ASSUME NEW i \in 1 .. Len(got)
      PROVE  got[i] = i
  <2>1. i \in 1 .. (k + l)
    BY <1>6
  <2>2. CASE i <= k
    <3>1. i \in 1 .. k
      BY <1>2, <2>1, <2>2
    <3>. QED
      BY <1>6, <1>7, <2>1, <2>2, <3>1
  <2>3. CASE ~(i <= k)
    <3>1. i - k \in 1 .. l /\ (r + (i - k)) - 1 = i
      BY <1>1, <1>2, <1>8, <2>1, <2>3
    <3>. QED
      BY <1>5, <1>6, <2>1, <2>3, <3>1
  <2>. QED
    BY <2>2, <2>3
<1>10. next \in SeqNum /\ offset(b, next) = r + o
  <2>1. r + o < SeqMod
    BY <1>1, <1>2, <1>5, SizesAssumption
  <2>. HIDE DEF next
  <2>. QED
    BY <1>1, <1>2, <2>1, OffsetIs DEF r, next
<1>. HIDE DEF next
<1>11. Len(got) \in Nat /\ k <= Len(got) /\ r <= r + o
  BY <1>1, <1>2, <1>6
<1>12. r + o = Len(got) + 1 \/ (r + o = Len(got) + 2 /\ fin /\ r + o = g)
  <2>1. CASE "FIN" \in p.flags
    BY <1>1, <1>2, <1>5, <1>6, <1>8, <2>1
  <2>2. CASE "FIN" \notin p.flags
    BY <1>1, <1>2, <1>6, <1>8, <2>2
  <2>. QED
    BY <2>1, <2>2
<1>. QED
  BY <1>5, <1>9, <1>10, <1>11, <1>12 DEF r, o, k, got, next, fin

\* A segment reaches the device.
LEMMA DownReceives ==
  ASSUME DownInv, OpeningInv', DevReceive
  PROVE  DownInv'
<1>. DEFINE p == Head(down)
<1>0. /\ Sound(c) /\ Typed(c) /\ c \in Connection /\ dev \in DeviceRecord /\ dev.rcvNext \in SeqNum
      /\ dev.window \in Windows /\ up \in Seq(Segment) /\ Len(dev.got) \in Nat
      /\ net.in \in 0 .. MaxServed /\ c.theirAck \in SeqNum
  BY DownType DEF Connection
<1>1. /\ down # << >> /\ ~c.garbled /\ down' = Tail(down) /\ UNCHANGED <<c, net>>
      /\ GetReset(p) \/ GetSynAck(p) \/ GetAck(p) \/ GetData(p) \/ Ignore(p)
  BY DEF DevReceive, connVars
<1>2. dev' \in DeviceRecord /\ dev'.rcvNext \in SeqNum /\ dev'.window \in Windows /\ up' \in Seq(Segment)
  BY DEF OpeningInv, SessionType, DeviceType, DeviceRecord
<1>3. CASE c.state = "Init"
  <2>1. early /\ Quiet(c, net.in, down)
    BY <1>3 DEF DownInv, OpeningInv, Opening, early
  <2>2. p \in Silent /\ down' \in Seq(Silent)
    <3>. HIDE DEF Silent
    <3>. QED
      BY <1>1, <2>1, HeadTailProperties DEF Quiet
  <2>3. UNCHANGED <<dev, up>>
    <3>1. ~GetSynAck(p)
      BY <2>2 DEF Silent, GetSynAck, is_syn_ack
    <3>. QED
      BY <1>1, <2>1, <3>1 DEF GetReset, GetAck, GetData, Ignore, early
  <2>4. Quiet(c', net'.in, down') /\ early' = early /\ DeviceNeverOverrun'
    BY <1>1, <2>1, <2>2, <2>3 DEF Quiet, early, DownInv, DeviceNeverOverrun
  <2>. QED
    BY <1>1, <1>3, <2>3, <2>4 DEF DownInv
<1>4. CASE c.state # "Init"
  <2>1. PICK b \in SeqNum, g \in Nat :
          Stream(c, net.in, b, g) /\ Listening(c, dev, up, b) /\ Speaking(c, dev, down, b, g)
    BY <1>4 DEF DownInv
  <2>. DEFINE S == Placed(b, g, offset(b, c.seq), finSent(c))
  <2>2. p \in S /\ down' \in Seq(S)
    <3>1. down \in Seq(S)
      BY <1>1, <2>1 DEF Speaking
    <3>. HIDE DEF S
    <3>. QED
      BY <1>1, <3>1, HeadTailProperties
  <2>3. ~early => Heard(dev, b, g, finSent(c))
    BY <2>1 DEF Speaking, early
  <2>4. \A i \in 1 .. Len(dev.got) : dev.got[i] = i
    BY DEF DownInv
  <2>5. ASSUME ~early, ~early', dev'.rcvNext = dev.rcvNext, dev'.got = dev.got
        PROVE  Listening(c, dev', up, b) /\ Heard(dev', b, g, finSent(c))
    <3>1. offset(b, dev.rcvNext) <= offset(b, dev'.rcvNext)
      <4>1. offset(b, dev.rcvNext) \in Nat
        BY <1>0, OffsetIs
      <4>. QED
        BY <2>5, <4>1
    <3>2. dev'.phase \notin {"closed", "synSent"}
      BY <2>5 DEF early
    <3>. QED
      BY <1>0, <1>2, <2>1, <2>3, <2>5, <3>1, <3>2, ListeningGrows DEF Heard
  <2>6. ASSUME ~early, ~early', dev'.rcvNext = dev.rcvNext, dev'.got = dev.got, up' = up
        PROVE  DownInv'
    <3>1. Len(dev.got) <= Len(dev'.got) /\ \A i \in 1 .. Len(dev'.got) : dev'.got[i] = i
      BY <1>0, <2>4, <2>6
    <3>. QED
      BY <1>1, <1>4, <2>1, <2>5, <2>6, <3>1, DownHears
  <2>7. CASE Ignore(p)
    <3>1. UNCHANGED <<dev, up>> /\ early' = early
      BY <2>7 DEF Ignore, early
    <3>2. CASE ~early
      BY <2>6, <3>1, <3>2
    <3>3. CASE early
      <4>1. Speaking(c, dev, down', b, g)
        BY <2>1, <2>2 DEF Speaking
      <4>2. Stream(c', net'.in, b, g) /\ Listening(c', dev', up', b) /\ Speaking(c', dev', down', b, g)
        BY <1>1, <2>1, <3>1, <4>1
      <4>3. DeviceNeverOverrun'
        BY <1>1, <3>1 DEF DownInv, DeviceNeverOverrun
      <4>. QED
        BY <1>1, <1>4, <3>1, <4>2, <4>3 DEF DownInv
    <3>. QED
      BY <3>2, <3>3
  <2>8. CASE GetReset(p) \/ GetAck(p)
    <3>1. ~early /\ ~early' /\ dev'.rcvNext = dev.rcvNext /\ dev'.got = dev.got /\ up' = up
      BY <1>0, <2>8 DEF GetReset, GetAck, with_ack, early, DeviceRecord
    <3>. QED
      BY <2>6, <3>1
  <2>9. CASE GetSynAck(p)
    <3>1. /\ early /\ ~early' /\ dev'.rcvNext = plus(p.seq, 1) /\ dev'.got = dev.got
          /\ p.flags = {"SYN", "ACK"} /\ Reply(dev')
      BY <1>0, <2>9 DEF GetSynAck, is_syn_ack, with_ack, early, DeviceRecord
    <3>2. p.seq = b
      BY <2>2, <3>1 DEF Placed
    <3>3. dev.got = << >> /\ Len(dev'.got) = 0
      BY <3>1 DEF DownInv
    <3>4. offset(b, dev'.rcvNext) = 1
      <4>1. 1 < SeqMod /\ 1 \in Nat
        BY SessionAssumption, StreamsAssumption, SizesAssumption
      <4>. QED
        BY <3>1, <3>2, <4>1, OffsetZero
    <3>5. g >= 1
      <4>1. NoSynAck(down) => p.flags # {"SYN", "ACK"}
        BY <1>1, HeadTailProperties DEF NoSynAck
      <4>2. c.state # "SynSent"
        BY <3>1, <4>1 DEF DownInv, OpeningInv, Opening
      <4>3. Counted(c.state, offset(b, c.seq), g, net.in - pending(c), finSent(c))
        BY <2>1 DEF Stream
      <4>. QED
        BY <4>2, <4>3 DEF Counted
    <3>6. Heard(dev', b, g, finSent(c))
      BY <3>3, <3>4, <3>5 DEF Heard
    <3>7. Listening(c, dev', up, b)
      <4>1. Mixed(up, Stray, Genuine(b, dev'))
        BY <3>1, MixedFirst DEF DownInv
      <4>2. ~is_connected(c.state)
        BY <2>1, <3>1 DEF Listening, early
      <4>. QED
        BY <2>1, <4>1, <4>2 DEF Listening
    <3>8. PICK q \in Genuine(b, dev') : up' = Append(up, q)
      <4>1. 1 <= offset(b, dev'.rcvNext)
        BY <3>4
      <4>. QED
        BY <1>0, <1>2, <3>1, <4>1, ReplyGenuine
    <3>9. Listening(c, dev', up', b)
      BY <3>7, <3>8, ListeningAppend
    <3>10. Len(dev.got) <= Len(dev'.got) /\ \A i \in 1 .. Len(dev'.got) : dev'.got[i] = i
      BY <1>0, <2>4, <3>1
    <3>. QED
      BY <1>1, <1>4, <2>1, <3>1, <3>6, <3>9, <3>10, DownHears
  <2>10. CASE GetData(p)
    <3>1. ~early /\ ~early' /\ occupies(p) > 0 /\ Reply(dev')
      BY <1>0, <2>10 DEF GetData, with_ack, early, DeviceRecord
    <3>2. g < SeqMod
      <4>1. offset(b, c.seq) \in Nat /\ g <= offset(b, c.seq) /\ offset(b, c.seq) + 2 <= SeqMod /\ SeqMod \in Nat
        BY <1>0, <2>1, StreamType
      <4>. QED
        BY <4>1
    <3>3. /\ Listening(c, dev', up, b) /\ Heard(dev', b, g, finSent(c))
          /\ Len(dev.got) <= Len(dev'.got) /\ \A i \in 1 .. Len(dev'.got) : dev'.got[i] = i
      <4>1. CASE p.seq = dev.rcvNext
        <5>. DEFINE got == dev.got \o p.data
                    next == plus(dev.rcvNext, occupies(p))
        <5>1. dev'.got = got /\ dev'.rcvNext = next
          BY <1>0, <2>10, <4>1 DEF GetData, with_ack, DeviceRecord
        <5>2. /\ \A i \in 1 .. Len(got) : got[i] = i
              /\ Len(got) \in Nat /\ Len(dev.got) <= Len(got) /\ next \in SeqNum
              /\ offset(b, dev.rcvNext) <= offset(b, next) /\ offset(b, next) <= g
              /\ \/ offset(b, next) = Len(got) + 1
                 \/ offset(b, next) = Len(got) + 2 /\ finSent(c) /\ offset(b, next) = g
          BY <2>2, <2>3, <3>1, <3>2, <4>1, TakesInOrder
        <5>. HIDE DEF got, next
        <5>3. Heard(dev', b, g, finSent(c))
          BY <5>1, <5>2 DEF Heard
        <5>4. Listening(c, dev', up, b)
          <6>1. dev'.phase \notin {"closed", "synSent"}
            BY <3>1 DEF early
          <6>. QED
            BY <1>0, <1>2, <2>1, <5>1, <5>2, <6>1, ListeningGrows
        <5>. QED
          BY <5>1, <5>2, <5>3, <5>4
      <4>2. CASE p.seq # dev.rcvNext
        <5>1. dev'.rcvNext = dev.rcvNext /\ dev'.got = dev.got
          BY <1>0, <2>10, <4>2 DEF GetData, with_ack, DeviceRecord
        <5>. QED
          BY <1>0, <2>4, <2>5, <3>1, <5>1
      <4>. QED
        BY <4>1, <4>2
    <3>4. 1 <= offset(b, dev'.rcvNext)
      <4>1. offset(b, dev'.rcvNext) \in Nat /\ Len(dev'.got) \in Nat
        BY <1>2, OffsetIs, LenProperties DEF DeviceRecord
      <4>. QED
        BY <3>3, <4>1 DEF Heard
    <3>5. PICK q \in Genuine(b, dev') : up' = Append(up, q)
      BY <1>0, <1>2, <3>1, <3>4, ReplyGenuine
    <3>6. Listening(c, dev', up', b)
      BY <3>3, <3>5, ListeningAppend
    <3>. QED
      BY <1>1, <1>4, <2>1, <3>1, <3>3, <3>6, DownHears
  <2>. QED
    BY <1>1, <2>7, <2>8, <2>9, <2>10
<1>. QED
  BY <1>3, <1>4

\* Every step preserves the invariant.
LEMMA DownStep ==
  ASSUME DownInv, [SessionNext]_vars
  PROVE  DownInv'
<1>0. OpeningInv' /\ onward(c, c')
  BY OpeningStep, YoungStep DEF DownInv
<1>1. CASE UNCHANGED vars
  BY <1>0, <1>1, DownSame DEF vars, connVars, envVars
<1>2. CASE Device
  BY <1>0, <1>2, DownSends, DownReceives
<1>3. CASE RelayHandle
  BY <1>0, <1>3, DownOpens, DownHandle
<1>4. CASE RouterAbsorbs
  BY <1>0, <1>4, DownAbsorbs
<1>5. CASE RelayFlush \/ RelaySend \/ RelayConnect
  BY <1>0, <1>5, DownPoll
<1>6. CASE RelayReceive
  <2>1. CASE \E n \in 1 .. (MaxServed - net.in) :
               /\ PollReceiveBytes(range(net.in + 1, net.in + n))
               /\ net' = [net EXCEPT !.in = @ + n]
               /\ UNCHANGED <<dev, up, down>>
    BY <1>0, <2>1, DownReads
  <2>2. CASE (PollReceiveEof \/ PollReceiveFails \/ PollReceiveEnd) /\ UNCHANGED envVars
    BY <1>0, <2>2, DownPoll
  <2>. QED
    BY <1>6, <2>1, <2>2 DEF RelayReceive
<1>7. CASE RelayDrain
  BY <1>0, <1>7, DownDrain
<1>8. CASE OtherConnections
  BY <1>0, <1>8, DownOthers
<1>. QED
  BY <1>1, <1>2, <1>3, <1>4, <1>5, <1>6, <1>7, <1>8 DEF SessionNext, Relay

\* The initial state.
LEMMA DownInitial ==
  ASSUME SessionInit
  PROVE  DownInv
<1>1. OpeningInv /\ c = New /\ up = << >> /\ down = << >> /\ dev.got = << >> /\ net.in = 0
  BY OpeningInitial DEF SessionInit, Init
<1>2. << >> \in Seq(Stray) /\ << >> \in Seq(Silent) /\ Len(<< >>) = 0
  BY EmptySeq
<1>3. DeviceNeverOverrun
  <2>1. PICK w \in Windows : \A v \in Windows : v <= w
    BY SessionAssumption
  <2>2. w \in Nat
    BY SessionAssumption, SizesAssumption DEF Window
  <2>3. 0 - 0 <= w
    BY <2>2
  <2>. QED
    BY <1>1, <1>2, <2>3 DEF DeviceNeverOverrun
<1>4. c.state = "Init" /\ c.window = 0 /\ c.deferred = None /\ ~c.garbled /\ c.buffer = << >>
  BY <1>1 DEF New
<1>5. Quiet(c, net.in, down)
  BY <1>1, <1>2, <1>4 DEF Quiet
<1>6. \A i \in 1 .. Len(dev.got) : dev.got[i] = i
  BY <1>1, <1>2
<1>. QED
  BY <1>1, <1>2, <1>3, <1>4, <1>5, <1>6 DEF DownInv

\* The device receives a prefix of what the server wrote, whatever is deferred,
\* dropped or written over in the relay, and however the device's window and
\* acknowledgements cross the data (process_receive, flush_pending_packet).
THEOREM DownloadIsIntact == SessionSpec => []DownloadIntact
<1>1. DownInv => DownloadIntact
  <2>. SUFFICES ASSUME DownInv
                PROVE  DownloadIntact
    OBVIOUS
  <2>1. dev.got \in Seq(Byte) /\ \A i \in 1 .. Len(dev.got) : dev.got[i] = i
    BY DownType DEF DownInv
  <2>. QED
    BY <2>1, CountIs DEF DownloadIntact
<1>. QED
  BY <1>1, DownInitial, DownStep, PTL DEF SessionSpec

\* The relay never reads more from the server than the device has room for.
THEOREM DeviceIsNotOverrun == SessionSpec => []DeviceNeverOverrun
<1>1. DownInv => DeviceNeverOverrun
  BY DEF DownInv
<1>. QED
  BY <1>1, DownInitial, DownStep, PTL DEF SessionSpec
=============================================================================
