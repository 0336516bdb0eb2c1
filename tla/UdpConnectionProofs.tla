------------------------- MODULE UdpConnectionProofs -------------------------
(***************************************************************************)
(* What UdpConnection promises of its DatagramBuffer for every capacity,   *)
(* every set of lengths and any traffic: no block reaches beyond the       *)
(* memory that new() reserves; and, as long as what waits behind a tail at *)
(* 0 is no more than the capacity, datagrams leave in order and whole.     *)
(*                                                                         *)
(* And of its Packetizer, for every packet that opens a connection and     *)
(* everything that is read: the device accepts each packet, it is the one  *)
(* that was asked for, and the router's own answers match.  From the sums  *)
(* of words to the checksums, the headers, the buffer and the connection.  *)
(***************************************************************************)
EXTENDS UdpConnection, SequenceLemmas, FiniteSetTheorems, TLAPS

\* The head stays in the circular part, so every block starts there.
BlockInv ==
  /\ head \in 0 .. Capacity
  /\ \A i \in DOMAIN blocks : i \in 0 .. Capacity /\ blocks[i] \in Datagram

\* A block has at least its header and at most the space kept beyond the circular part.
LEMMA BlockSize ==
  ASSUME NEW d \in Datagram
  PROVE  block(d) \in Nat /\ block(d) <= HeaderLength + MaxLength
<1>1. d.length \in Length
  BY DEF Datagram
<1>2. d.length \in 0 .. MaxLength
  BY <1>1, DatagramAssumption, Zenon
<1> QED
  BY <1>2, DatagramAssumption DEF block

\* wrapped() takes any index back into the circular part.
LEMMA WrappedInRange ==
  ASSUME NEW i \in Nat
  PROVE  wrapped(i) \in 0 .. Capacity
BY DatagramAssumption DEF wrapped, circular_buffer_length

\* Storing a datagram, or dropping it, keeps every block where it may start.
LEMMA ReadKeeps ==
  ASSUME BlockInv, NEW d \in Datagram, read_from(d)
  PROVE  BlockInv'
<1>1. head + block(d) \in Nat
  BY BlockSize, DatagramAssumption DEF BlockInv
<1>2. head' \in 0 .. Capacity
  BY <1>1, WrappedInRange DEF read_from
<1>3. ASSUME NEW i \in DOMAIN blocks'
      PROVE  i \in 0 .. Capacity /\ blocks'[i] \in Datagram
  <2>1. i \in {j \in DOMAIN blocks : ~overlaps(j, blocks[j], head, d)} \cup {head}
    BY <1>3 DEF read_from, stored
  <2>2. blocks'[i] = IF i = head THEN d ELSE blocks[i]
    BY <2>1 DEF read_from, stored
  <2>3. CASE i = head
    BY <2>2, <2>3 DEF BlockInv
  <2>4. CASE i # head
    BY <2>1, <2>2, <2>4 DEF BlockInv
  <2> QED
    BY <2>3, <2>4
<1> QED
  BY <1>2, <1>3 DEF BlockInv

\* Handing a datagram out removes its block and moves only the tail.
LEMMA WriteKeeps ==
  ASSUME BlockInv, write_to
  PROVE  BlockInv'
<1>1. ASSUME NEW i \in DOMAIN blocks'
      PROVE  i \in DOMAIN blocks /\ blocks'[i] = blocks[i]
  BY <1>1 DEF write_to
<1>2. head' = head
  BY DEF write_to
<1> QED
  BY <1>1, <1>2 DEF BlockInv

\* Every step of the connection is a step of the buffer, or leaves it alone.
LEMMA StepKeeps ==
  ASSUME BlockInv, [UdpNext]_udpVars
  PROVE  BlockInv'
<1>1. ASSUME UNCHANGED vars PROVE BlockInv'
  BY <1>1 DEF BlockInv, vars
<1>2. ASSUME NEW d \in Datagram, send_to_network(d) PROVE BlockInv'
  <2>1. CASE read_from(d)
    BY <2>1, ReadKeeps
  <2>2. CASE read_from_fails(d)
    BY <2>2 DEF read_from_fails, BlockInv
  <2> QED
    BY <1>2, <2>1, <2>2 DEF send_to_network
<1>3. ASSUME poll_self PROVE BlockInv'
  BY <1>1, <1>3, WriteKeeps DEF poll_self
<1>4. ASSUME TcpPackets \/ RouterAnswers PROVE BlockInv'
  BY <1>1, <1>4 DEF TcpPackets, RouterAnswers
<1>5. ASSUME UNCHANGED udpVars PROVE BlockInv'
  BY <1>5 DEF BlockInv, udpVars
<1> QED
  BY <1>2, <1>3, <1>4, <1>5 DEF UdpNext

\* BlocksInBounds for every behaviour of a UDP connection (read_from(),
\* write_to() of datagram_buffer.rs): copy_from_slice never goes out of range.
THEOREM InBounds == UdpSpec => []BlocksInBounds
<1>1. UdpInit => BlockInv
  BY DatagramAssumption DEF UdpInit, Init, BlockInv
<1>2. BlockInv => BlocksInBounds
  <2> SUFFICES ASSUME BlockInv, NEW i \in DOMAIN blocks
               PROVE  i + block(blocks[i]) <= buf_len
    BY DEF BlocksInBounds
  <2>1. i \in 0 .. Capacity /\ blocks[i] \in Datagram
    BY DEF BlockInv
  <2>2. block(blocks[i]) \in Nat /\ block(blocks[i]) <= HeaderLength + MaxLength
    BY <2>1, BlockSize
  <2> QED
    BY <2>1, <2>2, DatagramAssumption DEF buf_len
<1>3. BlockInv /\ [UdpNext]_udpVars => BlockInv'
  BY StepKeeps
<1> QED
  BY <1>1, <1>2, <1>3, PTL DEF UdpSpec

-----------------------------------------------------------------------------
(* The order of the datagrams *)

\* Where a block is that starts at v in a memory whose last block before the wrap ends at end.
placed(end, v) == IF v >= end THEN v - end ELSE v

\* Counted from the tail on, without wrapping, block k starts at V[k] and the next one will
\* at V[n + 1].  The blocks follow each other; none is across the point where they wrap
\* and the last one ends before the tail comes round.
Laid(V, end, n) ==
  /\ n = Len(queue) /\ V \in [1 .. (n + 1) -> Nat] /\ end \in Nat /\ end > Capacity
  /\ V[1] = tail /\ tail <= Capacity
  /\ \A k \in 1 .. n : V[k + 1] = V[k] + block(queue[k])
  /\ \A j, k \in 1 .. (n + 1) : j < k => V[j] < V[k]
  /\ \A k \in 1 .. n : V[k] < end =>
        V[k] <= Capacity /\ V[k + 1] <= end /\ (V[k + 1] > Capacity => V[k + 1] = end)
  /\ V[n + 1] < end + tail /\ (V[n + 1] < end => V[n + 1] <= Capacity)
  /\ head = placed(end, V[n + 1])
  /\ \A k \in 1 .. n : placed(end, V[k]) \in DOMAIN blocks /\ blocks[placed(end, V[k])] = queue[k]

OrderInv == queue \in Seq(Datagram) /\ \E V, end, n : Laid(V, end, n)

\* The buffer at its start.
LEMMA InitLaid ==
  ASSUME Init
  PROVE  OrderInv
<1>. DEFINE V == [k \in 1 .. 1 |-> 0]
<1>1. queue = << >> /\ Len(queue) = 0 /\ queue \in Seq(Datagram) /\ tail = 0 /\ head = 0
  BY DEF Init
<1>2. V \in [1 .. (0 + 1) -> Nat] /\ V[1] = 0
  OBVIOUS
<1>3. Capacity + 1 \in Nat /\ Capacity \in Nat
  BY DatagramAssumption
<1>. HIDE DEF V
<1>4. Laid(V, Capacity + 1, 0)
  BY <1>1, <1>2, <1>3 DEF Laid, placed
<1>. QED
  BY <1>1, <1>4 DEF OrderInv

\* A block is not empty: it has its header.
LEMMA BlockPositive ==
  ASSUME NEW d \in Datagram
  PROVE  block(d) \in Nat /\ block(d) >= 1
<1>1. d.length \in Length
  BY DEF Datagram
<1>2. d.length \in 0 .. MaxLength
  BY <1>1, DatagramAssumption, Zenon
<1>. QED
  BY <1>2, DatagramAssumption DEF block

\* What the layout says, one fact at a time.
LEMMA LaidFacts ==
  ASSUME OrderInv, NEW V, NEW end, NEW n, Laid(V, end, n)
  PROVE  /\ n \in Nat /\ n = Len(queue) /\ queue \in Seq(Datagram) /\ end \in Nat /\ end > Capacity
         /\ Capacity \in Nat /\ tail \in Nat /\ tail <= Capacity /\ V[1] = tail
         /\ \A k \in 1 .. (n + 1) : V[k] \in Nat /\ V[1] <= V[k] /\ V[k] <= V[n + 1]
         /\ \A k \in 1 .. n : /\ k + 1 \in 1 .. (n + 1) /\ k \in 1 .. (n + 1)
                              /\ V[k + 1] = V[k] + block(queue[k]) /\ queue[k] \in Datagram
         /\ head = placed(end, V[n + 1])
         /\ n + 1 \in 1 .. (n + 1) /\ V[n + 1] \in Nat /\ head \in Nat
<1>1. /\ n = Len(queue) /\ n \in Nat /\ queue \in Seq(Datagram) /\ end \in Nat /\ end > Capacity
      /\ Capacity \in Nat /\ V \in [1 .. (n + 1) -> Nat] /\ V[1] = tail /\ tail <= Capacity
      /\ head = placed(end, V[n + 1])
  BY DatagramAssumption DEF Laid, OrderInv
<1>2. n + 1 \in 1 .. (n + 1) /\ 1 \in 1 .. (n + 1)
  BY <1>1
<1>3. \A k \in 1 .. (n + 1) : V[k] \in Nat
  BY <1>1
<1>4. \A j, k \in 1 .. (n + 1) : j < k => V[j] < V[k]
  BY DEF Laid
<1>5. ASSUME NEW k \in 1 .. (n + 1)
      PROVE  V[1] <= V[k] /\ V[k] <= V[n + 1]
  <2>1. k = 1 \/ 1 < k
    BY <1>1
  <2>2. k = n + 1 \/ k < n + 1
    BY <1>1
  <2>. QED
    BY <1>2, <1>3, <1>4, <2>1, <2>2
<1>6. \A k \in 1 .. n : k + 1 \in 1 .. (n + 1) /\ k \in 1 .. (n + 1) /\ queue[k] \in Datagram
  BY <1>1
<1>7. \A k \in 1 .. n : V[k + 1] = V[k] + block(queue[k])
  BY DEF Laid
<1>8. V[n + 1] \in Nat /\ tail \in Nat
  BY <1>1, <1>2, <1>3
<1>9. head \in Nat
  BY <1>1, <1>8 DEF placed
<1>. QED
  BY <1>1, <1>2, <1>3, <1>5, <1>6, <1>7, <1>8, <1>9

\* The layout of a buffer that holds one datagram more.
LEMMA ReadLaid ==
  ASSUME OrderInv, NEW d \in Datagram, read_from(d), ~overlooked(d)
  PROVE  OrderInv'
<1>1. PICK V, end, n : Laid(V, end, n)
  BY DEF OrderInv
<1>. DEFINE b == block(d)
            W == [k \in 1 .. ((n + 1) + 1) |-> IF k = (n + 1) + 1 THEN V[n + 1] + b ELSE V[k]]
<1>2. b \in Nat /\ b >= 1
  BY BlockPositive
<1>3. /\ queue' = Append(queue, d) /\ tail' = tail
      /\ head' = wrapped(head + b) /\ blocks' = stored(d) /\ has_enough_space_for(d)
  BY DEF read_from
<1>a. tail = 0 => head + b < Capacity + 1
  BY BlockPositive, LaidFacts, <1>1, DatagramAssumption DEF overlooked, circular_buffer_length
<1>. HIDE DEF b
<1>4. /\ n \in Nat /\ n = Len(queue) /\ queue \in Seq(Datagram) /\ end \in Nat /\ end > Capacity
      /\ Capacity \in Nat /\ tail \in Nat /\ tail <= Capacity /\ V[1] = tail
      /\ head = placed(end, V[n + 1])
      /\ n + 1 \in 1 .. (n + 1) /\ V[n + 1] \in Nat /\ head \in Nat
  BY <1>1, LaidFacts
<1>5. /\ queue' \in Seq(Datagram) /\ Len(queue') = n + 1 /\ queue'[n + 1] = d
      /\ \A k \in 1 .. n : queue'[k] = queue[k]
  BY <1>3, <1>4
<1>6. \A k \in 1 .. (n + 1) : V[k] \in Nat /\ V[1] <= V[k] /\ V[k] <= V[n + 1]
  BY <1>1, LaidFacts
<1>7. \A k \in 1 .. n : /\ k + 1 \in 1 .. (n + 1) /\ k \in 1 .. (n + 1)
                        /\ V[k + 1] = V[k] + block(queue[k]) /\ queue[k] \in Datagram
  BY <1>1, LaidFacts
<1>8. /\ W \in [1 .. ((n + 1) + 1) -> Nat] /\ W[(n + 1) + 1] = V[n + 1] + b
      /\ \A k \in 1 .. (n + 1) : W[k] = V[k]
  <2>1. (n + 1) + 1 \in 1 .. ((n + 1) + 1)
    BY <1>4
  <2>2. \A k \in 1 .. (n + 1) : k \in 1 .. ((n + 1) + 1) /\ k # (n + 1) + 1
    BY <1>4
  <2>3. V[n + 1] + b \in Nat
    BY <1>2, <1>4
  <2>4. \A k \in 1 .. ((n + 1) + 1) : k = (n + 1) + 1 \/ k \in 1 .. (n + 1)
    BY <1>4
  <2>. QED
    BY <1>6, <2>1, <2>2, <2>3, <2>4
<1>. HIDE DEF W
<1>9. W[1] = tail /\ W[n + 1] = V[n + 1]
  BY <1>4, <1>8, SMTT(60)
<1>10. \A k \in 1 .. (n + 1) : W[k + 1] = W[k] + block(queue'[k])
  <2>. SUFFICES ASSUME NEW k \in 1 .. (n + 1)
                PROVE  W[k + 1] = W[k] + block(queue'[k])
    OBVIOUS
  <2>1. CASE k = n + 1
    BY <1>5, <1>8, <1>9, <2>1 DEF b
  <2>2. CASE k # n + 1
    <3>1. k \in 1 .. n
      BY <1>4, <2>2
    <3>. QED
      BY <1>5, <1>7, <1>8, <3>1
  <2>. QED
    BY <2>1, <2>2
<1>11. \A j, k \in 1 .. ((n + 1) + 1) : j < k => W[j] < W[k]
  <2>. SUFFICES ASSUME NEW j \in 1 .. ((n + 1) + 1), NEW k \in 1 .. ((n + 1) + 1), j < k
                PROVE  W[j] < W[k]
    OBVIOUS
  <2>1. j \in 1 .. (n + 1)
    BY <1>4
  <2>2. CASE k = (n + 1) + 1
    <3>1. W[j] = V[j] /\ V[j] <= V[n + 1] /\ V[j] \in Nat
      BY <1>6, <1>8, <2>1
    <3>. QED
      BY <1>2, <1>4, <1>8, <2>2, <3>1, SMTT(60)
  <2>3. CASE k # (n + 1) + 1
    <3>1. k \in 1 .. (n + 1)
      BY <1>4, <2>3
    <3>2. V[j] < V[k]
      BY <1>1, <2>1, <3>1 DEF Laid
    <3>. QED
      BY <1>8, <2>1, <3>1, <3>2
  <2>. QED
    BY <2>2, <2>3
\* What is in memory stays, and the new block is at the head.
<1>13. ASSUME NEW i \in DOMAIN blocks, NEW e \in Datagram, blocks[i] = e, i \in Nat,
              i + block(e) <= head \/ head + b <= i
       PROVE  i \in DOMAIN blocks' /\ blocks'[i] = e
  <2>1. block(e) \in Nat /\ block(e) >= 1
    BY BlockPositive
  <2>2. ~overlaps(i, e, head, d) /\ i # head
    BY <1>2, <1>4, <1>13, <2>1 DEF overlaps, b
  <2>. QED
    BY <1>3, <1>13, <2>2 DEF stored
<1>14. head \in DOMAIN blocks' /\ blocks'[head] = d
  BY <1>3 DEF stored
<1>15. CASE V[n + 1] < end
  <2>1. head = V[n + 1] /\ head <= Capacity
    BY <1>1, <1>4, <1>15 DEF Laid, placed
  <2>0. PICK last : last = IF head + b > Capacity THEN head + b ELSE Capacity + 1
    OBVIOUS
  <2>2. last \in Nat /\ last > Capacity /\ head < last
    <3>1. head + b \in Nat /\ Capacity + 1 \in Nat /\ head < head + b /\ head < Capacity + 1
          /\ Capacity + 1 > Capacity
      BY <1>2, <1>4, <2>1
    <3>. QED
      BY <2>0, <3>1
  <2>3. head + b > Capacity => tail > 0
    BY <1>2, <1>4, <1>a
  <2>4. \A k \in 1 .. (n + 1) : W[k] <= Capacity /\ W[k] \in Nat /\ W[k] <= head
    BY <1>4, <1>6, <1>8, <2>1
  <2>5. W[(n + 1) + 1] = head + b
    BY <1>8, <2>1
  <2>6. \A k \in 1 .. (n + 1) : W[k] < last =>
          W[k] <= Capacity /\ W[k + 1] <= last /\ (W[k + 1] > Capacity => W[k + 1] = last)
    <3>. SUFFICES ASSUME NEW k \in 1 .. (n + 1)
                  PROVE  /\ W[k] <= Capacity /\ W[k + 1] <= last
                         /\ W[k + 1] > Capacity => W[k + 1] = last
      OBVIOUS
    <3>1. CASE k = n + 1
      <4>1. W[k + 1] = head + b /\ W[k] <= Capacity
        BY <2>4, <2>5, <3>1
      <4>2. head + b <= last /\ (head + b > Capacity => head + b = last)
        BY <1>2, <1>4, <2>0
      <4>. QED
        BY <4>1, <4>2
    <3>2. CASE k # n + 1
      <4>1. k + 1 \in 1 .. (n + 1)
        BY <1>4, <3>2
      <4>2. W[k + 1] <= Capacity /\ W[k + 1] \in Nat
        BY <2>4, <4>1
      <4>. QED
        BY <1>4, <2>2, <2>4, <4>2, SMTT(60)
    <3>. QED
      BY <3>1, <3>2
  <2>7. W[(n + 1) + 1] < last + tail /\ (W[(n + 1) + 1] < last => W[(n + 1) + 1] <= Capacity)
    BY <1>2, <1>4, <2>0, <2>1, <2>3, <2>5, SMTT(60)
  <2>8. head' = placed(last, W[(n + 1) + 1])
    <3>1. CASE head + b > Capacity
      <4>1. last = head + b /\ head + b >= Capacity + 1 /\ (head + b) - (head + b) = 0
        BY <1>2, <1>4, <2>0, <3>1
      <4>2. head' = 0
        BY <1>3, <4>1 DEF wrapped, circular_buffer_length
      <4>. QED
        BY <1>2, <1>4, <2>5, <4>1, <4>2 DEF placed
    <3>2. CASE ~(head + b > Capacity)
      <4>1. last = Capacity + 1 /\ ~(head + b >= Capacity + 1)
        BY <1>2, <1>4, <2>0, <3>2
      <4>. QED
        BY <1>3, <2>5, <4>1 DEF placed, wrapped, circular_buffer_length
    <3>. QED
      BY <3>1, <3>2
  <2>9. \A k \in 1 .. (n + 1) : /\ placed(last, W[k]) \in DOMAIN blocks'
                                /\ blocks'[placed(last, W[k])] = queue'[k]
    <3>. SUFFICES ASSUME NEW k \in 1 .. (n + 1)
                  PROVE  /\ placed(last, W[k]) \in DOMAIN blocks'
                         /\ blocks'[placed(last, W[k])] = queue'[k]
      OBVIOUS
    <3>1. placed(last, W[k]) = W[k]
      BY <1>4, <2>2, <2>4 DEF placed
    <3>2. CASE k = n + 1
      BY <1>5, <1>9, <1>14, <2>1, <3>1, <3>2
    <3>3. CASE k # n + 1
      <4>1. k \in 1 .. n
        BY <1>4, <3>3
      <4>2. V[k] \in Nat /\ V[k] <= Capacity /\ W[k] = V[k] /\ V[k] < end
        BY <1>4, <1>6, <1>8, <2>1
      <4>3. placed(end, V[k]) = V[k]
        BY <1>4, <4>2 DEF placed
      <4>4. V[k] \in DOMAIN blocks /\ blocks[V[k]] = queue[k]
        BY <1>1, <4>1, <4>3 DEF Laid
      <4>5. V[k] + block(queue[k]) <= head /\ queue[k] \in Datagram
        BY <1>6, <1>7, <2>1, <4>1
      <4>. QED
        BY <1>5, <1>13, <3>1, <4>1, <4>2, <4>4, <4>5
    <3>. QED
      BY <3>2, <3>3
  <2>10. Laid(W, last, n + 1)'
    <3>1. /\ n + 1 = Len(queue') /\ W \in [1 .. ((n + 1) + 1) -> Nat] /\ last \in Nat /\ last > Capacity
          /\ W[1] = tail' /\ tail' <= Capacity 
          /\ W[(n + 1) + 1] < last + tail' /\ (W[(n + 1) + 1] < last => W[(n + 1) + 1] <= Capacity)
      BY <1>3, <1>4, <1>5, <1>8, <1>9, <2>2, <2>7
    <3>. QED
      BY <1>10, <1>11, <2>6, <2>8, <2>9, <3>1, Zenon DEF Laid
  <2>. QED
    BY <1>5, <2>10 DEF OrderInv
<1>16. CASE ~(V[n + 1] < end)
  <2>1. head = V[n + 1] - end /\ V[n + 1] < end + tail /\ head < tail
    BY <1>1, <1>4, <1>16 DEF Laid, placed
  <2>2. b <= (tail - head) - 1
    BY <1>3, <1>4, <2>1 DEF has_enough_space_for, b
  <2>. DEFINE v == V[n + 1]
              w == W[(n + 1) + 1]
  <2>a. v \in Nat /\ w = v + b /\ head = v - end /\ ~(v < end) /\ v < end + tail
    BY <1>4, <1>8, <1>16, <2>1
  <2>. HIDE DEF v, w
  <2>b. head + b < tail /\ w < end + tail /\ ~(w < end) /\ w \in Nat
    BY <1>2, <1>4, <2>2, <2>a
  <2>c. head + b = w - end /\ ~(head + b > Capacity) /\ head + b \in Nat
    BY <1>2, <1>4, <2>a, <2>b
  <2>3. head + b < tail /\ W[(n + 1) + 1] < end + tail /\ ~(W[(n + 1) + 1] < end)
    BY <2>b DEF w
  <2>4. head' = placed(end, W[(n + 1) + 1])
    <3>1. head' = head + b
      BY <1>3, <1>4, <2>c DEF wrapped, circular_buffer_length
    <3>2. placed(end, w) = w - end
      BY <1>4, <2>b DEF placed
    <3>. QED
      BY <2>c, <3>1, <3>2 DEF w
  <2>5. \A k \in 1 .. (n + 1) : W[k] < end =>
          W[k] <= Capacity /\ W[k + 1] <= end /\ (W[k + 1] > Capacity => W[k + 1] = end)
    <3>. SUFFICES ASSUME NEW k \in 1 .. (n + 1), W[k] < end
                  PROVE  /\ W[k] <= Capacity /\ W[k + 1] <= end
                         /\ W[k + 1] > Capacity => W[k + 1] = end
      OBVIOUS
    <3>1. k \in 1 .. n
      BY <1>4, <1>9, <1>16
    <3>2. W[k] = V[k] /\ W[k + 1] = V[k + 1]
      BY <1>7, <1>8, <3>1
    <3>. QED
      BY <1>1, <3>1, <3>2 DEF Laid
  <2>6. \A k \in 1 .. (n + 1) : /\ placed(end, W[k]) \in DOMAIN blocks'
                                /\ blocks'[placed(end, W[k])] = queue'[k]
    <3>. SUFFICES ASSUME NEW k \in 1 .. (n + 1)
                  PROVE  /\ placed(end, W[k]) \in DOMAIN blocks'
                         /\ blocks'[placed(end, W[k])] = queue'[k]
      OBVIOUS
    <3>1. CASE k = n + 1
      BY <1>4, <1>5, <1>9, <1>14, <3>1
    <3>2. CASE k # n + 1
      <4>. DEFINE i == placed(end, V[k])
      <4>1. k \in 1 .. n
        BY <1>4, <3>2
      <4>2. i \in DOMAIN blocks /\ blocks[i] = queue[k] /\ queue[k] \in Datagram /\ W[k] = V[k]
        BY <1>1, <1>7, <1>8, <4>1 DEF Laid
      <4>3. V[k] \in Nat /\ tail <= V[k] /\ V[k] + block(queue[k]) <= V[n + 1] /\ block(queue[k]) \in Nat
        BY <1>4, <1>6, <1>7, <4>1, BlockPositive
      <4>4. i \in Nat /\ (i + block(queue[k]) <= head \/ head + b <= i)
        <5>. DEFINE u == V[k]
                    x == block(queue[k])
        <5>1. u \in Nat /\ x \in Nat /\ tail <= u /\ u + x <= v
          BY <4>3 DEF v
        <5>. HIDE DEF u, x
        <5>2. CASE u >= end
          <6>1. u - end \in Nat /\ (u - end) + x <= head
            BY <1>4, <2>a, <5>1, <5>2
          <6>. QED
            BY <5>2, <6>1 DEF placed, u, x
        <5>3. CASE ~(u >= end)
          <6>1. u \in Nat /\ head + b <= u
            BY <1>2, <1>4, <2>b, <5>1
          <6>. QED
            BY <5>3, <6>1 DEF placed, u
        <5>. QED
          BY <5>2, <5>3
      <4>. HIDE DEF i
      <4>5. i \in DOMAIN blocks' /\ blocks'[i] = queue[k]
        BY <1>13, <4>2, <4>4
      <4>. QED
        BY <1>5, <4>1, <4>2, <4>5 DEF i
    <3>. QED
      BY <3>1, <3>2
  <2>7. Laid(W, end, n + 1)'
    <3>1. /\ n + 1 = Len(queue') /\ W \in [1 .. ((n + 1) + 1) -> Nat] /\ end \in Nat /\ end > Capacity
          /\ W[1] = tail' /\ tail' <= Capacity 
          /\ W[(n + 1) + 1] < end + tail' /\ (W[(n + 1) + 1] < end => W[(n + 1) + 1] <= Capacity)
      BY <1>3, <1>4, <1>5, <1>8, <1>9, <2>3
    <3>. QED
      BY <1>10, <1>11, <2>4, <2>5, <2>6, <3>1, Zenon DEF Laid
  <2>. QED
    BY <1>5, <2>7 DEF OrderInv
<1>. QED
  BY <1>15, <1>16

\* The layout of a buffer whose oldest datagram was taken out.
LEMMA WriteLaid ==
  ASSUME OrderInv, write_to
  PROVE  OrderInv'
<1>1. PICK V, end, n : Laid(V, end, n)
  BY DEF OrderInv
<1>2. /\ n \in Nat /\ n = Len(queue) /\ queue \in Seq(Datagram) /\ end \in Nat /\ end > Capacity
      /\ Capacity \in Nat /\ tail \in Nat /\ tail <= Capacity /\ V[1] = tail
      /\ head = placed(end, V[n + 1])
      /\ n + 1 \in 1 .. (n + 1) /\ V[n + 1] \in Nat /\ head \in Nat
  BY <1>1, LaidFacts
<1>3. \A k \in 1 .. (n + 1) : V[k] \in Nat /\ V[1] <= V[k] /\ V[k] <= V[n + 1]
  BY <1>1, LaidFacts
<1>4. \A k \in 1 .. n : /\ k + 1 \in 1 .. (n + 1) /\ k \in 1 .. (n + 1)
                        /\ V[k + 1] = V[k] + block(queue[k]) /\ queue[k] \in Datagram
  BY <1>1, LaidFacts
<1>5. n # 0
  <2>1. ASSUME n = 0 PROVE head = tail
    <3>1. V[n + 1] = tail /\ ~(tail >= end)
      BY <1>2, <2>1
    <3>. QED
      BY <1>2, <3>1 DEF placed
  <2>. QED
    BY <2>1 DEF write_to, is_empty
<1>. DEFINE m == n - 1
            d == queue[1]
            b == block(d)
<1>6. /\ m \in Nat /\ m + 1 = n /\ 1 \in 1 .. n /\ 2 \in 1 .. (n + 1) /\ d \in Datagram
      /\ b \in Nat /\ b >= 1 /\ V[2] = tail + b /\ V[2] \in Nat
  <2>1. m \in Nat /\ m + 1 = n /\ 1 \in 1 .. n /\ 2 \in 1 .. (n + 1) /\ 1 + 1 = 2
    BY <1>2, <1>5
  <2>2. d \in Datagram /\ V[1 + 1] = V[1] + b
    BY <1>4, <2>1
  <2>. QED
    BY <1>2, <1>3, <2>1, <2>2, BlockPositive
<1>7. tail \in DOMAIN blocks /\ blocks[tail] = d
  <2>1. placed(end, V[1]) = tail
    BY <1>2 DEF placed
  <2>. QED
    BY <1>1, <1>6, <2>1 DEF Laid
<1>8. /\ queue' = Tail(queue) /\ tail' = wrapped(V[2]) /\ head' = head
      /\ blocks' = [i \in DOMAIN blocks \ {tail} |-> blocks[i]]
  BY <1>6, <1>7 DEF write_to, taken
<1>9. /\ queue' \in Seq(Datagram) /\ Len(queue') = m
      /\ \A k \in 1 .. m : queue'[k] = queue[k + 1]
  BY <1>2, <1>5, <1>8
<1>. HIDE DEF m, d, b
<1>10. \A k \in 1 .. (m + 1) : k + 1 \in 1 .. (n + 1) /\ k + 1 > 1 /\ k \in 1 .. n
  BY <1>2, <1>6
<1>11. \A k \in 1 .. m : k + 1 \in 1 .. n /\ k + 1 \in 1 .. (m + 1) /\ k \in 1 .. (m + 1)
  BY <1>2, <1>6
<1>12. \A k \in 1 .. n : V[k] < end =>
         V[k] <= Capacity /\ V[k + 1] <= end /\ (V[k + 1] > Capacity => V[k + 1] = end)
  BY <1>1 DEF Laid
<1>13. V[n + 1] < end + tail /\ (V[n + 1] < end => V[n + 1] <= Capacity)
  BY <1>1 DEF Laid
<1>14. \A j, k \in 1 .. (n + 1) : j < k => V[j] < V[k]
  BY <1>1 DEF Laid
\* The blocks that stay are elsewhere.
<1>15. ASSUME NEW k \in 1 .. m
       PROVE  /\ placed(end, V[k + 1]) \in DOMAIN blocks'
              /\ blocks'[placed(end, V[k + 1])] = queue'[k]
  <2>. DEFINE u == V[k + 1]
              v == V[n + 1]
  <2>1. u \in Nat /\ tail < u /\ u <= v /\ v \in Nat /\ v < end + tail
    BY <1>2, <1>3, <1>6, <1>10, <1>11, <1>13, <1>14, SMTT(60)
  <2>2. placed(end, u) \in DOMAIN blocks /\ blocks[placed(end, u)] = queue[k + 1]
    BY <1>1, <1>11 DEF Laid
  <2>. HIDE DEF u, v
  <2>3. placed(end, u) # tail
    BY <1>2, <2>1 DEF placed
  <2>. QED
    BY <1>8, <1>9, <2>2, <2>3 DEF u
<1>16. CASE V[2] <= Capacity
  <2>. DEFINE W == [k \in 1 .. (m + 1) |-> V[k + 1]]
  <2>1. W \in [1 .. (m + 1) -> Nat] /\ \A k \in 1 .. (m + 1) : W[k] = V[k + 1]
    BY <1>3, <1>10
  <2>. HIDE DEF W
  <2>2. tail' = V[2] /\ tail < V[2]
    BY <1>2, <1>6, <1>8, <1>16 DEF wrapped, circular_buffer_length
  <2>3. W[1] = V[2] /\ W[m + 1] = V[n + 1]
    <3>1. 1 \in 1 .. (m + 1) /\ m + 1 \in 1 .. (m + 1) /\ 1 + 1 = 2
      BY <1>6
    <3>. QED
      BY <1>6, <2>1, <3>1
  <2>4. \A k \in 1 .. m : W[k + 1] = W[k] + block(queue'[k])
    BY <1>4, <1>9, <1>11, <2>1
  <2>5. \A j, k \in 1 .. (m + 1) : j < k => W[j] < W[k]
    <3>. SUFFICES ASSUME NEW j \in 1 .. (m + 1), NEW k \in 1 .. (m + 1), j < k
                  PROVE  W[j] < W[k]
      OBVIOUS
    <3>1. j + 1 < k + 1 /\ j + 1 \in 1 .. (n + 1) /\ k + 1 \in 1 .. (n + 1)
      BY <1>6, <1>10
    <3>. QED
      BY <1>14, <2>1, <3>1
  <2>6. \A k \in 1 .. m : W[k] < end =>
          W[k] <= Capacity /\ W[k + 1] <= end /\ (W[k + 1] > Capacity => W[k + 1] = end)
    BY <1>11, <1>12, <2>1
  <2>7. \A k \in 1 .. m : /\ placed(end, W[k]) \in DOMAIN blocks'
                          /\ blocks'[placed(end, W[k])] = queue'[k]
    BY <1>11, <1>15, <2>1
  <2>8. /\ m = Len(queue') /\ tail' <= Capacity /\ W[1] = tail' /\ head' = placed(end, W[m + 1])
        /\ W[m + 1] < end => W[m + 1] <= Capacity
    BY <1>2, <1>8, <1>9, <1>13, <1>16, <2>2, <2>3
  <2>9. W[m + 1] < end + tail'
    <3>. DEFINE v == V[n + 1]
                u == V[2]
    <3>1. v \in Nat /\ u \in Nat /\ u = tail + b /\ v < end + tail
      BY <1>2, <1>6, <1>13
    <3>. HIDE DEF v, u
    <3>2. v < end + u
      <4>1. \A p, q, x, y \in Nat : p < q + x => p < q + (x + y)
        OBVIOUS
      <4>2. b \in Nat /\ end \in Nat /\ tail \in Nat
        BY <1>2, <1>6
      <4>. QED
        BY <3>1, <4>1, <4>2
    <3>. QED
      BY <1>8, <2>2, <2>3, <3>2 DEF v, u
  <2>10. Laid(W, end, m)'
    BY <1>2, <2>1, <2>4, <2>5, <2>6, <2>7, <2>8, <2>9, Zenon DEF Laid
  <2>. QED
    BY <1>9, <2>10 DEF OrderInv
<1>17. CASE ~(V[2] <= Capacity)
  <2>1. V[2] = end /\ tail' = 0
    <3>1. V[1 + 1] > Capacity /\ V[1] < end
      BY <1>2, <1>6, <1>17
    <3>2. V[1 + 1] = end
      BY <1>6, <1>12, <3>1
    <3>3. V[2] >= Capacity + 1
      BY <1>2, <1>6, <1>17
    <3>. QED
      BY <1>8, <3>2, <3>3 DEF wrapped, circular_buffer_length
  <2>. DEFINE W == [k \in 1 .. (m + 1) |-> V[k + 1] - end]
              last == Capacity + 1
  <2>2. \A k \in 1 .. (m + 1) : V[k + 1] \in Nat /\ end <= V[k + 1] /\ V[k + 1] <= V[n + 1]
    <3>. SUFFICES ASSUME NEW k \in 1 .. (m + 1)
                  PROVE  V[k + 1] \in Nat /\ end <= V[k + 1] /\ V[k + 1] <= V[n + 1]
      OBVIOUS
    <3>1. k + 1 = 2 \/ 2 < k + 1
      BY <1>6
    <3>. QED
      BY <1>2, <1>3, <1>6, <1>10, <1>14, <2>1, <3>1, SMTT(60)
  <2>3. W \in [1 .. (m + 1) -> Nat] /\ \A k \in 1 .. (m + 1) : W[k] = V[k + 1] - end
    BY <1>2, <2>2
  <2>. HIDE DEF W
  <2>4. \A k \in 1 .. (m + 1) : W[k] \in Nat /\ W[k] <= Capacity
    <3>. SUFFICES ASSUME NEW k \in 1 .. (m + 1)
                  PROVE  W[k] \in Nat /\ W[k] <= Capacity
      OBVIOUS
    <3>. DEFINE u == V[k + 1]
                v == V[n + 1]
    <3>1. u \in Nat /\ v \in Nat /\ end <= u /\ u <= v /\ v < end + tail /\ W[k] = u - end
      BY <1>2, <1>13, <2>2, <2>3
    <3>. HIDE DEF u, v
    <3>. QED
      BY <1>2, <3>1
  <2>5. W[1] = 0 /\ W[m + 1] = V[n + 1] - end
    <3>1. 1 \in 1 .. (m + 1) /\ m + 1 \in 1 .. (m + 1) /\ 1 + 1 = 2 /\ end - end = 0
      BY <1>2, <1>6
    <3>. QED
      BY <1>6, <2>1, <2>3, <3>1
  <2>6. \A k \in 1 .. m : W[k + 1] = W[k] + block(queue'[k])
    <3>. SUFFICES ASSUME NEW k \in 1 .. m
                  PROVE  W[k + 1] = W[k] + block(queue'[k])
      OBVIOUS
    <3>. DEFINE u == V[k + 1]
                w == V[(k + 1) + 1]
                x == block(queue[k + 1])
    <3>1. w = u + x /\ queue'[k] = queue[k + 1] /\ queue[k + 1] \in Datagram
      BY <1>4, <1>9, <1>11
    <3>2. W[k] = u - end /\ W[k + 1] = w - end /\ u \in Nat
      BY <1>11, <2>2, <2>3
    <3>3. x \in Nat
      BY <3>1, BlockPositive
    <3>. HIDE DEF u, w, x
    <3>4. w - end = (u - end) + x
      BY <1>2, <3>1, <3>2, <3>3
    <3>. QED
      BY <3>1, <3>2, <3>4 DEF x
  <2>7. \A j, k \in 1 .. (m + 1) : j < k => W[j] < W[k]
    <3>. SUFFICES ASSUME NEW j \in 1 .. (m + 1), NEW k \in 1 .. (m + 1), j < k
                  PROVE  W[j] < W[k]
      OBVIOUS
    <3>1. j + 1 < k + 1 /\ j + 1 \in 1 .. (n + 1) /\ k + 1 \in 1 .. (n + 1)
      BY <1>6, <1>10
    <3>. DEFINE u == V[j + 1]
                w == V[k + 1]
    <3>2. u < w /\ u \in Nat /\ w \in Nat /\ W[j] = u - end /\ W[k] = w - end
      BY <1>14, <2>2, <2>3, <3>1
    <3>. HIDE DEF u, w
    <3>. QED
      BY <1>2, <3>2
  <2>8. last \in Nat /\ last > Capacity /\ \A x \in Nat : x <= Capacity => x < last /\ placed(last, x) = x
    BY <1>2 DEF placed
  <2>. HIDE DEF last
  <2>9. \A k \in 1 .. m : W[k] < last =>
          W[k] <= Capacity /\ W[k + 1] <= last /\ (W[k + 1] > Capacity => W[k + 1] = last)
    <3>. SUFFICES ASSUME NEW k \in 1 .. m
                  PROVE  /\ W[k] <= Capacity /\ W[k + 1] <= last
                         /\ W[k + 1] > Capacity => W[k + 1] = last
      OBVIOUS
    <3>1. W[k] <= Capacity /\ W[k + 1] \in Nat /\ W[k + 1] <= Capacity
      BY <1>11, <2>4
    <3>. QED
      BY <1>2, <2>8, <3>1
  <2>10. \A k \in 1 .. m : /\ placed(last, W[k]) \in DOMAIN blocks'
                           /\ blocks'[placed(last, W[k])] = queue'[k]
    <3>. SUFFICES ASSUME NEW k \in 1 .. m
                  PROVE  placed(last, W[k]) = placed(end, V[k + 1])
      BY <1>15
    <3>1. W[k] = V[k + 1] - end /\ V[k + 1] >= end /\ W[k] \in Nat /\ W[k] <= Capacity
      BY <1>2, <1>11, <2>2, <2>3, <2>4
    <3>. QED
      BY <2>8, <3>1 DEF placed
  <2>11. /\ m = Len(queue') /\ tail' <= Capacity /\ W[1] = tail'
         /\ W[m + 1] < last => W[m + 1] <= Capacity
    <3>1. m + 1 \in 1 .. (m + 1)
      BY <1>6
    <3>2. W[m + 1] <= Capacity
      BY <2>4, <3>1
    <3>3. 0 <= Capacity
      BY <1>2
    <3>. QED
      BY <1>9, <2>1, <2>5, <3>2, <3>3
  <2>12. head' = placed(last, W[m + 1]) /\ W[m + 1] < last + tail'
    <3>. DEFINE v == V[n + 1]
                w == W[m + 1]
    <3>1. v \in Nat /\ w = v - end /\ w \in Nat /\ w <= Capacity /\ end = tail + b
          /\ head = placed(end, v) /\ end <= v
      BY <1>2, <1>6, <2>1, <2>2, <2>4, <2>5, SMTT(60)
    <3>. HIDE DEF v, w
    <3>2. head = w /\ placed(last, w) = w /\ w < last
      BY <2>8, <3>1 DEF placed
    <3>3. w < last + 0
      BY <2>8, <3>1, <3>2
    <3>. QED
      BY <1>8, <2>1, <3>2, <3>3 DEF w
  <2>13. Laid(W, last, m)'
    BY <2>3, <2>6, <2>7, <2>8, <2>9, <2>10, <2>11, <2>12, Zenon DEF Laid
  <2>. QED
    BY <1>9, <2>13 DEF OrderInv
<1>. QED
  BY <1>16, <1>17

\* The layout of a buffer that has forgotten what it held is that of the one at its start.
LEMMA ForgetLaid ==
  ASSUME OrderInv, NEW d \in Datagram, read_from(d), overlooked(d)
  PROVE  OrderInv'
<1>. DEFINE V == [k \in 1 .. 1 |-> 0]
<1>1. tail' = 0 /\ queue' = << >> /\ Len(queue') = 0 /\ queue' \in Seq(Datagram)
  BY DEF read_from, overlooked
<1>2. head' = 0
  BY DEF read_from, overlooked, wrapped
<1>3. V \in [1 .. (0 + 1) -> Nat] /\ V[1] = 0
  OBVIOUS
<1>4. Capacity + 1 \in Nat /\ Capacity \in Nat
  BY DatagramAssumption
<1>. HIDE DEF V
<1>5. Laid(V, Capacity + 1, 0)'
  BY <1>1, <1>2, <1>3, <1>4 DEF Laid, placed
<1>. QED
  BY <1>1, <1>5 DEF OrderInv

\* Every step of the connection keeps the layout.
LEMMA StepLaid ==
  ASSUME OrderInv, [UdpNext]_udpVars
  PROVE  OrderInv'
<1>1. ASSUME UNCHANGED vars PROVE OrderInv'
  <2>1. UNCHANGED <<blocks, head, tail, queue>>
    BY <1>1 DEF vars
  <2>2. PICK V, end, n : Laid(V, end, n)
    BY DEF OrderInv
  <2>3. Laid(V, end, n)'
    BY <2>1, <2>2 DEF Laid
  <2>. QED
    BY <2>1, <2>3 DEF OrderInv
<1>2. ASSUME UNCHANGED <<blocks, head, tail, queue>> PROVE OrderInv'
  <2>1. PICK V, end, n : Laid(V, end, n)
    BY DEF OrderInv
  <2>2. Laid(V, end, n)'
    BY <1>2, <2>1 DEF Laid
  <2>. QED
    BY <1>2, <2>2 DEF OrderInv
<1>3. ASSUME NEW d \in Datagram, send_to_network(d) PROVE OrderInv'
  BY <1>2, <1>3, ReadLaid, ForgetLaid DEF send_to_network, read_from_fails
<1>4. ASSUME poll_self PROVE OrderInv'
  BY <1>1, <1>4, WriteLaid DEF poll_self
<1>5. ASSUME TcpPackets \/ RouterAnswers PROVE OrderInv'
  BY <1>1, <1>5 DEF TcpPackets, RouterAnswers
<1>6. ASSUME UNCHANGED udpVars PROVE OrderInv'
  BY <1>2, <1>6 DEF udpVars
<1>. QED
  BY <1>3, <1>4, <1>5, <1>6 DEF UdpNext

\* The layout holds throughout.
LEMMA AlwaysLaid == UdpSpec => []OrderInv
<1>1. UdpInit => OrderInv
  BY InitLaid DEF UdpInit
<1>2. OrderInv /\ [UdpNext]_udpVars => OrderInv'
  BY StepLaid
<1>. QED
  BY <1>1, <1>2, PTL DEF UdpSpec

\* EmptyMeansEmpty for every behaviour of a UDP connection (is_empty() of
\* datagram_buffer.rs): a full circle is not taken for an empty one, but for the one that
\* ends at 0, from which the buffer goes on as if it were new.
THEOREM EmptyIsEmpty == UdpSpec => []EmptyMeansEmpty
<1>1. OrderInv => EmptyMeansEmpty
  <2>. SUFFICES ASSUME OrderInv PROVE EmptyMeansEmpty
    OBVIOUS
  <2>1. PICK V, end, n : Laid(V, end, n)
    BY DEF OrderInv
  <2>. DEFINE v == V[n + 1]
  <2>2. /\ n \in Nat /\ n = Len(queue) /\ queue \in Seq(Datagram) /\ end \in Nat /\ end > Capacity
        /\ Capacity \in Nat /\ tail \in Nat /\ tail <= Capacity /\ V[1] = tail
        /\ head = placed(end, v) /\ v \in Nat /\ n + 1 \in 1 .. (n + 1) /\ 1 \in 1 .. (n + 1)
    BY <2>1, LaidFacts
  <2>3. v < end + tail
    BY <2>1 DEF Laid
  <2>4. n = 0 => v = tail
    BY <2>2
  <2>5. n # 0 => tail < v
    <3>1. n # 0 => 1 < n + 1
      BY <2>2
    <3>. QED
      BY <2>1, <2>2, <3>1 DEF Laid
  <2>. HIDE DEF v
  <2>6. head = tail <=> n = 0
    BY <2>2, <2>3, <2>4, <2>5 DEF placed
  <2>7. n = 0 <=> queue = << >>
    BY <2>2
  <2>. QED
    BY <2>6, <2>7 DEF EmptyMeansEmpty, is_empty
<1>. QED
  BY <1>1, AlwaysLaid, PTL

\* OldestFirst for every behaviour of a UDP connection (read_from(), write_to() of
\* datagram_buffer.rs): datagrams leave in order and whole, across the end of the buffer.
THEOREM OldestIsFirst == UdpSpec => []OldestFirst
<1>1. OrderInv => OldestFirst
  <2>. SUFFICES ASSUME OrderInv, queue # << >>
                PROVE  tail \in DOMAIN blocks /\ blocks[tail] = Head(queue)
    BY DEF OldestFirst
  <2>1. PICK V, end, n : Laid(V, end, n)
    BY DEF OrderInv
  <2>2. /\ n \in Nat /\ n = Len(queue) /\ queue \in Seq(Datagram) /\ V[1] = tail
        /\ end \in Nat /\ end > Capacity /\ Capacity \in Nat /\ tail \in Nat /\ tail <= Capacity
    BY <2>1, LaidFacts
  <2>3. 1 \in 1 .. n /\ Head(queue) = queue[1]
    BY <2>2
  <2>4. placed(end, V[1]) = tail
    BY <2>2 DEF placed
  <2>. QED
    BY <2>1, <2>3, <2>4 DEF Laid
<1>. QED
  BY <1>1, AlwaysLaid, PTL

-----------------------------------------------------------------------------
(* Sums over a set, whatever the order in which its elements are taken.     *)

pick(s) == CHOOSE x \in s : TRUE

\* f is the recursive function by which MapThenSumSet adds up w over subsets of S.
Adds(f, w, S) ==
  f = [s \in SUBSET S |-> IF s = {} THEN 0 ELSE w[pick(s)] + f[s \ {pick(s)}]]

\* f adds up w over every subset of S: any element may be taken first.
Additive(f, w, S) ==
  /\ f \in [SUBSET S -> Nat] /\ f[{}] = 0
  /\ \A s \in SUBSET S : \A x \in s : f[s] = w[x] + f[s \ {x}]

\* What CHOOSE takes out of a finite set leaves a smaller one.
LEMMA Picked ==
  ASSUME NEW S, IsFiniteSet(S), NEW s \in SUBSET S, s # {}
  PROVE  /\ pick(s) \in s /\ s \ {pick(s)} \in SUBSET S
         /\ Cardinality(s) \in Nat /\ Cardinality(s \ {pick(s)}) \in Nat
         /\ Cardinality(s \ {pick(s)}) < Cardinality(s)
<1>1. pick(s) \in s /\ s \ {pick(s)} \in SUBSET S
  BY DEF pick
<1>2. IsFiniteSet(s)
  BY FS_Subset
<1>3. Cardinality(s) \in Nat /\ Cardinality(s \ {pick(s)}) = Cardinality(s) - 1 /\ IsFiniteSet(s \ {pick(s)})
  BY <1>1, <1>2, FS_CardinalityType, FS_RemoveElement
<1>4. Cardinality(s \ {pick(s)}) \in Nat
  BY <1>3, FS_CardinalityType
<1>. QED
  BY <1>1, <1>3, <1>4

\* The recursion of MapThenSumSet has a solution, by induction on the cardinality.
LEMMA AddsExists ==
  ASSUME NEW S, IsFiniteSet(S), NEW w \in [S -> Nat]
  PROVE  \E f : f \in [SUBSET S -> Nat] /\ Adds(f, w, S)
<1>. DEFINE D == SUBSET S
            rank == [s \in D |-> Cardinality(s)]
            step == [f \in [D -> Nat] |->
                       [s \in D |-> IF s = {} THEN 0 ELSE w[pick(s)] + f[s \ {pick(s)}]]]
<1>1. rank \in [D -> Nat]
  <2>1. ASSUME NEW s \in D PROVE Cardinality(s) \in Nat
    BY FS_Subset, FS_CardinalityType
  <2>. QED
    BY <2>1
<1>2. \A s \in D : s # {} => /\ pick(s) \in s /\ pick(s) \in S /\ w[pick(s)] \in Nat /\ s \ {pick(s)} \in D
                              /\ rank[s \ {pick(s)}] < rank[s]
  <2>. SUFFICES ASSUME NEW s \in D, s # {}
                PROVE  /\ pick(s) \in s /\ pick(s) \in S /\ w[pick(s)] \in Nat /\ s \ {pick(s)} \in D
                       /\ rank[s \ {pick(s)}] < rank[s]
    OBVIOUS
  <2>1. pick(s) \in s /\ s \ {pick(s)} \in D /\ Cardinality(s \ {pick(s)}) < Cardinality(s)
    BY Picked
  <2>. QED
    BY <2>1
<1>3. step \in [[D -> Nat] -> [D -> Nat]]
  <2>1. ASSUME NEW f \in [D -> Nat], NEW s \in D
        PROVE  (IF s = {} THEN 0 ELSE w[pick(s)] + f[s \ {pick(s)}]) \in Nat
    <3>1. s # {} => w[pick(s)] \in Nat /\ f[s \ {pick(s)}] \in Nat
      BY <1>2
    <3>. QED
      BY <3>1
  <2>. QED
    BY <2>1
<1>4. ASSUME NEW f \in [D -> Nat], NEW g \in [D -> Nat], NEW s \in D,
             \A e \in D : rank[e] < rank[s] => f[e] = g[e]
      PROVE  step[f][s] = step[g][s]
  <2>1. s # {} => f[s \ {pick(s)}] = g[s \ {pick(s)}]
    BY <1>2, <1>4
  <2>. QED
    BY <2>1
<1>5. LooksBelow(step, D, Nat, rank)
  <2>. HIDE DEF step, rank, D
  <2>. QED
    BY <1>1, <1>3, <1>4 DEF LooksBelow
<1>6. \E f : Solution(f, step, D, Nat)
  <2>. HIDE DEF step, rank, D
  <2>. QED
    BY <1>5, RecursionSolvable
<1>7. PICK f : f \in [D -> Nat] /\ f = step[f]
  BY <1>6 DEF Solution
<1>8. Adds(f, w, S)
  BY <1>7 DEF Adds
<1>. QED
  BY <1>7, <1>8

\* Its sums are naturals.
LEMMA AddsTyped ==
  ASSUME NEW S, IsFiniteSet(S), NEW w \in [S -> Nat], NEW f, Adds(f, w, S)
  PROVE  f \in [SUBSET S -> Nat]
<1>1. f = [s \in SUBSET S |-> IF s = {} THEN 0 ELSE w[pick(s)] + f[s \ {pick(s)}]]
  BY DEF Adds
<1>2. \A s \in SUBSET S : f[s] = IF s = {} THEN 0 ELSE w[pick(s)] + f[s \ {pick(s)}]
  BY <1>1
<1>. DEFINE A == {n \in Nat : \A s \in SUBSET S : Cardinality(s) = n => f[s] \in Nat}
<1>3. ASSUME NEW n \in Nat, \A m \in Nat : m < n => m \in A PROVE n \in A
  <2>. SUFFICES ASSUME NEW s \in SUBSET S, Cardinality(s) = n PROVE f[s] \in Nat
    OBVIOUS
  <2>0. f[s] = IF s = {} THEN 0 ELSE w[pick(s)] + f[s \ {pick(s)}]
    BY <1>2, Zenon
  <2>1. CASE s = {}
    <3>1. f[s] = 0
      BY <2>0, <2>1, Zenon
    <3>. QED
      BY <3>1
  <2>2. CASE s # {}
    <3>1. /\ pick(s) \in s /\ s \ {pick(s)} \in SUBSET S
          /\ Cardinality(s \ {pick(s)}) \in Nat /\ Cardinality(s \ {pick(s)}) < n
      BY <2>2, Picked
    <3>2. Cardinality(s \ {pick(s)}) \in A
      BY <1>3, <3>1
    <3>3. f[s \ {pick(s)}] \in Nat
      BY <3>1, <3>2
    <3>4. w[pick(s)] \in Nat
      BY <3>1
    <3>5. f[s] = w[pick(s)] + f[s \ {pick(s)}]
      BY <2>0, <2>2, Zenon
    <3>. QED
      BY <3>3, <3>4, <3>5
  <2>. QED
    BY <2>1, <2>2
<1>4. Nat \subseteq A
  <2>. HIDE DEF A
  <2>. QED
    BY <1>3, Hereditary
<1>5. ASSUME NEW s \in SUBSET S PROVE f[s] \in Nat
  <2>1. Cardinality(s) \in Nat
    BY FS_Subset, FS_CardinalityType
  <2>2. Cardinality(s) \in A
    BY <1>4, <2>1
  <2>. QED
    BY <2>2
<1>. QED
  BY <1>1, <1>5

\* The order in which the elements are taken does not matter.
LEMMA AddsAdditive ==
  ASSUME NEW S, IsFiniteSet(S), NEW w \in [S -> Nat], NEW f, Adds(f, w, S)
  PROVE  Additive(f, w, S)
<1>0. f \in [SUBSET S -> Nat]
  BY AddsTyped
<1>1. \A s \in SUBSET S : f[s] = IF s = {} THEN 0 ELSE w[pick(s)] + f[s \ {pick(s)}]
  BY DEF Adds
<1>. DEFINE A == {n \in Nat : \A s \in SUBSET S : Cardinality(s) = n =>
                                \A x \in s : f[s] = w[x] + f[s \ {x}]}
<1>3. ASSUME NEW n \in Nat, \A m \in Nat : m < n => m \in A PROVE n \in A
  <2>. SUFFICES ASSUME NEW s \in SUBSET S, Cardinality(s) = n, NEW x \in s
                PROVE  f[s] = w[x] + f[s \ {x}]
    OBVIOUS
  <2>. DEFINE y == pick(s)
  <2>1. /\ y \in s /\ s \ {y} \in SUBSET S /\ s # {}
        /\ Cardinality(s \ {y}) \in Nat /\ Cardinality(s \ {y}) < n
    BY Picked
  <2>2. f[s] = w[y] + f[s \ {y}]
    BY <1>1, <2>1
  <2>. HIDE DEF y
  <2>3. CASE x = y
    BY <2>2, <2>3
  <2>4. CASE x # y
    <3>1. x \in s \ {y} /\ y \in s \ {x} /\ s \ {x} \in SUBSET S
      BY <2>1, <2>4
    <3>2. f[s \ {y}] = w[x] + f[(s \ {y}) \ {x}]
      <4>1. Cardinality(s \ {y}) \in A
        BY <1>3, <2>1
      <4>. QED
        BY <2>1, <3>1, <4>1
    <3>3. IsFiniteSet(s) /\ Cardinality(s) \in Nat
      BY FS_Subset, FS_CardinalityType
    <3>3a. IsFiniteSet(s \ {x}) /\ Cardinality(s \ {x}) = Cardinality(s) - 1
      BY <3>3, FS_RemoveElement
    <3>3b. Cardinality(s \ {x}) \in Nat
      BY <3>3a, FS_CardinalityType
    <3>3c. Cardinality(s \ {x}) < n
      BY <3>3, <3>3a
    <3>4. Cardinality(s \ {x}) \in A
      BY <1>3, <3>3b, <3>3c
    <3>5. f[s \ {x}] = w[y] + f[(s \ {x}) \ {y}]
      BY <3>1, <3>4
    <3>6. (s \ {x}) \ {y} = (s \ {y}) \ {x} /\ (s \ {x}) \ {y} \in SUBSET S
      OBVIOUS
    <3>7. w[x] \in Nat /\ w[y] \in Nat /\ f[(s \ {x}) \ {y}] \in Nat
      BY <1>0, <2>1, <3>6
    <3>8. f[s] = w[y] + (w[x] + f[(s \ {x}) \ {y}])
      BY <2>2, <3>2, <3>6, Zenon
    <3>. DEFINE rest == f[(s \ {x}) \ {y}]
    <3>9. w[y] + (w[x] + rest) = w[x] + (w[y] + rest)
      BY <3>7
    <3>. QED
      BY <3>5, <3>8, <3>9, Zenon
  <2>. QED
    BY <2>3, <2>4
<1>4. Nat \subseteq A
  <2>. HIDE DEF A
  <2>. QED
    BY <1>3, Hereditary
<1>5. ASSUME NEW s \in SUBSET S, NEW x \in s PROVE f[s] = w[x] + f[s \ {x}]
  <2>1. Cardinality(s) \in Nat
    BY FS_Subset, FS_CardinalityType
  <2>2. Cardinality(s) \in A
    BY <1>4, <2>1
  <2>. QED
    BY <2>2
<1>6. f[{}] = 0
  BY <1>1
<1>. QED
  BY <1>0, <1>5, <1>6 DEF Additive

\* What a byte adds to a sum of big-endian words.
weight(raw, k) == IF k % 2 = 1 THEN 256 * raw[k] ELSE raw[k]

\* P are the sums of the first weights of raw.
Sums(P, raw) ==
  /\ P \in [0 .. Len(raw) -> Nat] /\ P[0] = 0
  /\ \A k \in 1 .. Len(raw) : P[k] = P[k - 1] + weight(raw, k)

\* A byte of a packet is one.
LEMMA ByteAt ==
  ASSUME NEW raw \in Seq(Octet), NEW k \in 1 .. Len(raw)
  PROVE  raw[k] \in Nat /\ raw[k] < 256 /\ raw[k] \in Octet
<1>1. raw[k] \in Octet
  OBVIOUS
<1>. QED
  BY <1>1 DEF Octet

\* Its share of the sum of words is a natural.
LEMMA WeightTyped ==
  ASSUME NEW raw \in Seq(Octet), NEW k \in 1 .. Len(raw)
  PROVE  weight(raw, k) \in Nat
BY ByteAt DEF weight

\* A word that is read is a u16.
LEMMA WordTyped ==
  ASSUME NEW raw \in Seq(Octet), NEW i \in Nat, i + 2 <= Len(raw)
  PROVE  read_u16(raw, i) \in Half
<1>1. i + 1 \in 1 .. Len(raw) /\ i + 2 \in 1 .. Len(raw)
  OBVIOUS
<1>2. raw[i + 1] \in Nat /\ raw[i + 1] < 256 /\ raw[i + 2] \in Nat /\ raw[i + 2] < 256
  BY <1>1, ByteAt
<1>. QED
  BY <1>2 DEF read_u16, Half

\* The sum of the checksums adds the bytes in the order of the packet.
LEMMA Sum16Is ==
  ASSUME NEW raw \in Seq(Octet)
  PROVE  \E P : Sums(P, raw) /\ sum16(raw) = P[Len(raw)]
<1>. DEFINE n == Len(raw)
            S == 1 .. n
            w == [k \in S |-> weight(raw, k)]
            it == CHOOSE f : f = [s \in SUBSET DOMAIN raw |->
                    IF s = {} THEN 0
                    ELSE (IF (CHOOSE x \in s : TRUE) % 2 = 1 THEN 256 * raw[CHOOSE x \in s : TRUE]
                          ELSE raw[CHOOSE x \in s : TRUE])
                           + f[s \ {CHOOSE x \in s : TRUE}]]
<1>1. n \in Nat /\ DOMAIN raw = S
  OBVIOUS
<1>2. sum16(raw) = it[DOMAIN raw]
  BY Zenon DEF sum16, MapThenSumSet, MapThenFoldSet
<1>3. w \in [S -> Nat]
  <2>1. ASSUME NEW k \in S PROVE weight(raw, k) \in Nat
    BY <1>1, WeightTyped
  <2>. QED
    BY <2>1
<1>4. IsFiniteSet(S)
  BY <1>1, FS_Interval
<1>. DEFINE step(f) == [s \in SUBSET DOMAIN raw |->
                    IF s = {} THEN 0
                    ELSE (IF (CHOOSE x \in s : TRUE) % 2 = 1 THEN 256 * raw[CHOOSE x \in s : TRUE]
                          ELSE raw[CHOOSE x \in s : TRUE])
                           + f[s \ {CHOOSE x \in s : TRUE}]]
<1>5. ASSUME NEW f
      PROVE  step(f) = [s \in SUBSET S |-> IF s = {} THEN 0 ELSE w[pick(s)] + f[s \ {pick(s)}]]
  <2>1. ASSUME NEW s \in SUBSET S
        PROVE  (IF s = {} THEN 0
                ELSE (IF (CHOOSE x \in s : TRUE) % 2 = 1 THEN 256 * raw[CHOOSE x \in s : TRUE]
                          ELSE raw[CHOOSE x \in s : TRUE])
                           + f[s \ {CHOOSE x \in s : TRUE}])
               = (IF s = {} THEN 0 ELSE w[pick(s)] + f[s \ {pick(s)}])
    <3>1. s # {} => pick(s) \in S
      <4>1. s # {} => pick(s) \in s
        BY DEF pick
      <4>. QED
        BY <4>1
    <3>2. s # {} => w[pick(s)] = weight(raw, pick(s))
      BY <3>1
    <3>. HIDE DEF w, S
    <3>. QED
      BY <3>2, Zenon DEF weight, pick
  <2>. HIDE DEF w
  <2>. QED
    BY <1>1, <2>1, ZenonT(30)
<1>6. \A f : f = step(f) <=> Adds(f, w, S)
  BY <1>5 DEF Adds
<1>7. \E f : Adds(f, w, S)
  <2>. HIDE DEF w, S
  <2>. QED
    BY <1>3, <1>4, AddsExists
<1>8. \E f : f = step(f)
  <2>. HIDE DEF step, w, S
  <2>. QED
    BY <1>6, <1>7, Zenon
<1>9. it = step(it)
  <2>. DEFINE good(f) == f = step(f)
  <2>1. it = CHOOSE f : good(f)
    BY Zenon
  <2>2. \E f : good(f)
    BY <1>8, Zenon
  <2>. HIDE DEF good, it
  <2>3. good(it)
    BY <2>1, <2>2, Zenon
  <2>. QED
    BY <2>3, Zenon DEF good
<1>10. Adds(it, w, S)
  BY <1>6, <1>9, Zenon
<1>11. Additive(it, w, S)
  <2>. HIDE DEF w, S, it
  <2>. QED
    BY <1>3, <1>4, <1>10, AddsAdditive
<1>. HIDE DEF it
<1>. DEFINE P == [k \in 0 .. n |-> it[1 .. k]]
<1>12. P \in [0 .. n -> Nat]
  <2>1. ASSUME NEW k \in 0 .. n PROVE it[1 .. k] \in Nat
    <3>1. 1 .. k \in SUBSET S
      BY <1>1
    <3>. QED
      BY <1>11, <3>1 DEF Additive
  <2>. QED
    BY <2>1
<1>13. P[0] = 0
  <2>1. 1 .. 0 = {}
    OBVIOUS
  <2>2. P[0] = it[1 .. 0]
    BY <1>1
  <2>. QED
    BY <1>11, <2>1, <2>2, Zenon DEF Additive
<1>14. ASSUME NEW k \in 1 .. n PROVE P[k] = P[k - 1] + weight(raw, k)
  <2>1. k \in 1 .. k /\ 1 .. k \in SUBSET S /\ (1 .. k) \ {k} = 1 .. (k - 1) /\ k - 1 \in 0 .. n /\ k \in 0 .. n
    BY <1>1
  <2>2. it[1 .. k] = w[k] + it[1 .. (k - 1)]
    <3>1. it[1 .. k] = w[k] + it[(1 .. k) \ {k}]
      <4>. HIDE DEF w, S
      <4>. QED
        BY <1>11, <2>1, Zenon DEF Additive
    <3>. QED
      BY <2>1, <3>1, Zenon
  <2>3. P[k] = it[1 .. k] /\ P[k - 1] = it[1 .. (k - 1)] /\ w[k] = weight(raw, k)
    BY <2>1
  <2>4. P[k - 1] \in Nat /\ w[k] \in Nat
    BY <1>3, <1>12, <2>1
  <2>. HIDE DEF P, w
  <2>. QED
    BY <2>2, <2>3, <2>4
<1>15. P[n] = it[S] /\ n \in 0 .. n
  BY <1>1
<1>16. Sums(P, raw)
  <2>. HIDE DEF P
  <2>. QED
    BY <1>12, <1>13, <1>14 DEF Sums
<1>17. sum16(raw) = P[Len(raw)]
  <2>. HIDE DEF P
  <2>. QED
    BY <1>1, <1>2, <1>15
<1>. QED
  BY <1>16, <1>17

WordSums(Q, raw, m) ==
  /\ Q \in [0 .. m -> Nat] /\ Q[0] = 0
  /\ \A k \in 0 .. (m - 1) : Q[k + 1] = Q[k] + read_u16(raw, 2 * k)

\* The sum of the device adds the words in the order of the packet.
LEMMA WordsIs ==
  ASSUME NEW raw \in Seq(Octet), NEW m \in Nat, Len(raw) = 2 * m
  PROVE  \E Q : WordSums(Q, raw, m) /\ words(raw) = Q[m]
<1>. DEFINE S == 0 .. (m - 1)
            w == [k \in S |-> read_u16(raw, 2 * k)]
            it == CHOOSE f : f = [s \in SUBSET S |->
                    IF s = {} THEN 0
                    ELSE read_u16(raw, 2 * (CHOOSE x \in s : TRUE))
                           + f[s \ {CHOOSE x \in s : TRUE}]]
<1>1. m = Len(raw) \div 2
  OBVIOUS
<1>2. words(raw) = it[S]
  BY <1>1, Zenon DEF words, MapThenSumSet, MapThenFoldSet
<1>3. w \in [S -> Nat]
  <2>1. ASSUME NEW k \in S PROVE read_u16(raw, 2 * k) \in Nat
    <3>1. 2 * k \in Nat /\ 2 * k + 2 <= Len(raw)
      OBVIOUS
    <3>. HIDE DEF S, w, it
    <3>2. read_u16(raw, 2 * k) \in Half
      BY <3>1, WordTyped
    <3>. QED
      BY <3>2 DEF Half
  <2>. QED
    BY <2>1
<1>4. IsFiniteSet(S)
  BY FS_Interval
<1>. DEFINE step(f) == [s \in SUBSET S |->
                    IF s = {} THEN 0
                    ELSE read_u16(raw, 2 * (CHOOSE x \in s : TRUE))
                           + f[s \ {CHOOSE x \in s : TRUE}]]
<1>5. ASSUME NEW f
      PROVE  step(f) = [s \in SUBSET S |-> IF s = {} THEN 0 ELSE w[pick(s)] + f[s \ {pick(s)}]]
  <2>1. ASSUME NEW s \in SUBSET S
        PROVE  (IF s = {} THEN 0
                ELSE read_u16(raw, 2 * (CHOOSE x \in s : TRUE))
                           + f[s \ {CHOOSE x \in s : TRUE}])
               = (IF s = {} THEN 0 ELSE w[pick(s)] + f[s \ {pick(s)}])
    <3>1. s # {} => pick(s) \in S
      <4>1. s # {} => pick(s) \in s
        BY DEF pick
      <4>. QED
        BY <4>1
    <3>2. s # {} => w[pick(s)] = read_u16(raw, 2 * pick(s))
      BY <3>1
    <3>. HIDE DEF w, S
    <3>. QED
      BY <3>2, Zenon DEF pick
  <2>. HIDE DEF w
  <2>. QED
    BY <2>1, Zenon
<1>6. \A f : f = step(f) <=> Adds(f, w, S)
  BY <1>5 DEF Adds
<1>7. \E f : Adds(f, w, S)
  <2>. HIDE DEF w, S
  <2>. QED
    BY <1>3, <1>4, AddsExists
<1>8. \E f : f = step(f)
  <2>. HIDE DEF step, w, S
  <2>. QED
    BY <1>6, <1>7, Zenon
<1>9. it = step(it)
  <2>. DEFINE good(f) == f = step(f)
  <2>1. it = CHOOSE f : good(f)
    BY Zenon
  <2>2. \E f : good(f)
    BY <1>8, Zenon
  <2>. HIDE DEF good, it
  <2>3. good(it)
    BY <2>1, <2>2, Zenon
  <2>. QED
    BY <2>3, Zenon DEF good
<1>10. Adds(it, w, S)
  BY <1>6, <1>9, Zenon
<1>11. Additive(it, w, S)
  <2>. HIDE DEF w, S, it
  <2>. QED
    BY <1>3, <1>4, <1>10, AddsAdditive
<1>. HIDE DEF it
<1>. DEFINE Q == [k \in 0 .. m |-> it[0 .. (k - 1)]]
<1>12. Q \in [0 .. m -> Nat]
  <2>1. ASSUME NEW k \in 0 .. m PROVE it[0 .. (k - 1)] \in Nat
    <3>1. 0 .. (k - 1) \in SUBSET S
      OBVIOUS
    <3>. QED
      BY <1>11, <3>1 DEF Additive
  <2>. QED
    BY <2>1
<1>13. Q[0] = 0
  <2>1. 0 .. (0 - 1) = {}
    OBVIOUS
  <2>2. Q[0] = it[0 .. (0 - 1)]
    OBVIOUS
  <2>. QED
    BY <1>11, <2>1, <2>2, Zenon DEF Additive
<1>14. ASSUME NEW k \in 0 .. (m - 1) PROVE Q[k + 1] = Q[k] + read_u16(raw, 2 * k)
  <2>1. k \in 0 .. k /\ 0 .. k \in SUBSET S /\ (0 .. k) \ {k} = 0 .. (k - 1) /\ k + 1 \in 0 .. m /\ k \in 0 .. m
        /\ (k + 1) - 1 = k
    OBVIOUS
  <2>2. it[0 .. k] = w[k] + it[0 .. (k - 1)]
    <3>1. it[0 .. k] = w[k] + it[(0 .. k) \ {k}]
      <4>. HIDE DEF w, S
      <4>. QED
        BY <1>11, <2>1, Zenon DEF Additive
    <3>. QED
      BY <2>1, <3>1, Zenon
  <2>3a. Q[k + 1] = it[0 .. ((k + 1) - 1)]
    BY <2>1
  <2>3. Q[k + 1] = it[0 .. k] /\ Q[k] = it[0 .. (k - 1)] /\ w[k] = read_u16(raw, 2 * k)
    BY <2>1, <2>3a
  <2>4. Q[k] \in Nat /\ w[k] \in Nat
    BY <1>3, <1>12, <2>1
  <2>. HIDE DEF Q, w
  <2>. QED
    BY <2>2, <2>3, <2>4
<1>15. Q[m] = it[S] /\ m \in 0 .. m
  OBVIOUS
<1>16. WordSums(Q, raw, m)
  <2>. HIDE DEF Q
  <2>. QED
    BY <1>12, <1>13, <1>14 DEF WordSums
<1>17. words(raw) = Q[m]
  <2>. HIDE DEF Q
  <2>. QED
    BY <1>2, <1>15
<1>. QED
  BY <1>16, <1>17

\* The first n bytes of b are in a behind d others.
Found(a, b, d, n) ==
  /\ d \in Nat /\ d % 2 = 0 /\ n \in Nat /\ n <= Len(b) /\ d + n <= Len(a)
  /\ \A k \in 1 .. n : a[d + k] = b[k]

Grow(P, Q, d, n) == P[d + n] = P[d] + Q[n]

\* Sums of the same bytes at an even distance grow alike.
LEMMA SumsShifted ==
  ASSUME NEW a \in Seq(Octet), NEW b \in Seq(Octet), NEW P, NEW Q, Sums(P, a), Sums(Q, b),
         NEW d, NEW n, Found(a, b, d, n)
  PROVE  Grow(P, Q, d, n)
<1>f. d \in Nat /\ d % 2 = 0 /\ n \in Nat /\ n <= Len(b) /\ d + n <= Len(a)
  BY DEF Found
<1>. USE <1>f
<1>. DEFINE A == {k \in Nat : k <= n => P[d + k] = P[d] + Q[k]}
<1>0. /\ P \in [0 .. Len(a) -> Nat] /\ Q \in [0 .. Len(b) -> Nat] /\ Q[0] = 0
      /\ Len(a) \in Nat /\ Len(b) \in Nat
      /\ \A k \in 1 .. Len(a) : P[k] = P[k - 1] + weight(a, k)
      /\ \A k \in 1 .. Len(b) : Q[k] = Q[k - 1] + weight(b, k)
  BY DEF Sums
<1>1. 0 \in A
  <2>1. d \in 0 .. Len(a) /\ d + 0 = d
    BY <1>0
  <2>2. P[d] \in Nat
    BY <1>0, <2>1
  <2>. QED
    BY <1>0, <2>1, <2>2
<1>2. ASSUME NEW k \in Nat, k \in A PROVE k + 1 \in A
  <2>. SUFFICES ASSUME k + 1 <= n PROVE P[d + (k + 1)] = P[d] + Q[k + 1]
    OBVIOUS
  <2>1. P[d + k] = P[d] + Q[k]
    BY <1>2
  <2>2. /\ d + (k + 1) \in 1 .. Len(a) /\ (d + (k + 1)) - 1 = d + k
        /\ k + 1 \in 1 .. Len(b) /\ (k + 1) - 1 = k /\ k + 1 \in 1 .. n
    BY <1>0
  <2>3. P[d + (k + 1)] = P[d + k] + weight(a, d + (k + 1))
    BY <1>0, <2>2
  <2>4. Q[k + 1] = Q[k] + weight(b, k + 1)
    BY <1>0, <2>2
  <2>5. weight(a, d + (k + 1)) = weight(b, k + 1)
    <3>1. (d + (k + 1)) % 2 = (k + 1) % 2
      OBVIOUS
    <3>2. a[d + (k + 1)] = b[k + 1]
      BY <2>2 DEF Found
    <3>. QED
      BY <3>1, <3>2 DEF weight
  <2>6. weight(b, k + 1) \in Nat
    BY <2>2, WeightTyped
  <2>7. P[d] \in Nat /\ Q[k] \in Nat
    <3>0. Len(a) \in Nat /\ Len(b) \in Nat
      BY <1>0
    <3>1. d \in 0 .. Len(a) /\ k \in 0 .. Len(b)
      BY <3>0
    <3>. QED
      BY <1>0, <3>1
  <2>. QED
    BY <2>1, <2>3, <2>4, <2>5, <2>6, <2>7
<1>3. Nat \subseteq A
  <2>. HIDE DEF A
  <2>. QED
    BY <1>1, <1>2, Successors
<1>. QED
  BY <1>3 DEF Grow

\* A sum is a natural (the u32 of update_checksum() does not overflow on 2^16 bytes).
LEMMA SumTyped ==
  ASSUME NEW raw \in Seq(Octet)
  PROVE  sum16(raw) \in Nat
<1>1. PICK P : Sums(P, raw) /\ sum16(raw) = P[Len(raw)]
  BY Sum16Is
<1>. QED
  BY <1>1 DEF Sums

\* Behind an even number of bytes the words of a slice are its own.
LEMMA SumConcat ==
  ASSUME NEW a \in Seq(Octet), Len(a) % 2 = 0, NEW b \in Seq(Octet)
  PROVE  sum16(a \o b) = sum16(a) + sum16(b)
<1>. DEFINE c == a \o b
<1>0. /\ c \in Seq(Octet) /\ Len(c) = Len(a) + Len(b) /\ Len(a) \in Nat /\ Len(b) \in Nat
      /\ \A k \in 1 .. Len(a) : c[k] = a[k]
      /\ \A k \in 1 .. Len(b) : c[Len(a) + k] = b[k]
  OBVIOUS
<1>. HIDE DEF c
<1>1. PICK P : Sums(P, a) /\ sum16(a) = P[Len(a)]
  BY Sum16Is
<1>2. PICK Q : Sums(Q, b) /\ sum16(b) = Q[Len(b)]
  BY Sum16Is
<1>3. PICK R : Sums(R, c) /\ sum16(c) = R[Len(c)]
  BY <1>0, Sum16Is
<1>4. R[0 + Len(a)] = R[0] + P[Len(a)]
  <2>1. 0 \in Nat /\ 0 % 2 = 0 /\ 0 + Len(a) <= Len(c) /\ Len(a) <= Len(a)
    BY <1>0
  <2>2. Found(c, a, 0, Len(a))
    BY <1>0, <2>1 DEF Found
  <2>3. c \in Seq(Octet) /\ Len(a) \in Nat
    BY <1>0
  <2>4. Grow(R, P, 0, Len(a))
    BY <1>1, <1>3, <2>2, <2>3, SumsShifted, Zenon
  <2>. QED
    BY <2>4 DEF Grow
<1>5. R[Len(a) + Len(b)] = R[Len(a)] + Q[Len(b)]
  <2>1. Found(c, b, Len(a), Len(b)) /\ Len(b) <= Len(b) /\ Len(a) + Len(b) <= Len(c)
    BY <1>0 DEF Found
  <2>2. c \in Seq(Octet) /\ Len(a) \in Nat /\ Len(b) \in Nat
    BY <1>0
  <2>3. Grow(R, Q, Len(a), Len(b))
    BY <1>2, <1>3, <2>1, <2>2, SumsShifted, Zenon
  <2>. QED
    BY <2>3 DEF Grow
<1>6. R[0] = 0 /\ P[Len(a)] \in Nat /\ 0 + Len(a) = Len(a)
  <2>1. R[0] = 0 /\ P \in [0 .. Len(a) -> Nat]
    BY <1>1, <1>3 DEF Sums
  <2>2. Len(a) \in 0 .. Len(a) /\ 0 + Len(a) = Len(a)
    BY <1>0
  <2>. QED
    BY <2>1, <2>2
<1>7. sum16(c) = sum16(a) + sum16(b)
  BY <1>0, <1>1, <1>2, <1>3, <1>4, <1>5, <1>6
<1>. QED
  BY <1>7 DEF c

\* Nothing adds nothing.
LEMMA SumEmpty == sum16(<< >>) = 0
<1>1. << >> \in Seq(Octet) /\ Len(<< >>) = 0
  OBVIOUS
<1>2. PICK P : Sums(P, << >>) /\ sum16(<< >>) = P[Len(<< >>)]
  BY <1>1, Sum16Is
<1>. QED
  BY <1>1, <1>2 DEF Sums

\* Two bytes are a word.
LEMMA SumWord ==
  ASSUME NEW x \in Octet, NEW y \in Octet
  PROVE  sum16(<<x, y>>) = 256 * x + y
<1>. DEFINE s == <<x, y>>
<1>1. s \in Seq(Octet) /\ Len(s) = 2 /\ s[1] = x /\ s[2] = y
  OBVIOUS
<1>. HIDE DEF s
<1>2. PICK P : Sums(P, s) /\ sum16(s) = P[Len(s)]
  BY <1>1, Sum16Is
<1>3. P[1] = P[1 - 1] + weight(s, 1) /\ P[2] = P[2 - 1] + weight(s, 2) /\ P[0] = 0
  BY <1>1, <1>2 DEF Sums
<1>4. weight(s, 1) = 256 * x /\ weight(s, 2) = y
  BY <1>1 DEF weight
<1>5. x \in Nat /\ y \in Nat
  BY DEF Octet
<1>6. 1 - 1 = 0 /\ 2 - 1 = 1
  OBVIOUS
<1>7. sum16(s) = 256 * x + y
  BY <1>1, <1>2, <1>3, <1>4, <1>5, <1>6
<1>. QED
  BY <1>7 DEF s

\* The last byte of an odd slice is a high-order one: a zero behind it changes nothing.
LEMMA SumPadded ==
  ASSUME NEW raw \in Seq(Octet)
  PROVE  sum16(Append(raw, 0)) = sum16(raw)
<1>. DEFINE c == Append(raw, 0)
<1>z. 0 \in Octet
  BY DEF Octet
<1>0. /\ c \in Seq(Octet) /\ Len(c) = Len(raw) + 1 /\ Len(raw) \in Nat
      /\ \A k \in 1 .. Len(raw) : c[k] = raw[k]
      /\ c[Len(raw) + 1] = 0
  BY <1>z
<1>. HIDE DEF c
<1>1. PICK P : Sums(P, raw) /\ sum16(raw) = P[Len(raw)]
  BY Sum16Is
<1>3. PICK R : Sums(R, c) /\ sum16(c) = R[Len(c)]
  BY <1>0, Sum16Is
<1>4. R[0 + Len(raw)] = R[0] + P[Len(raw)]
  <2>1. 0 \in Nat /\ 0 % 2 = 0 /\ 0 + Len(raw) <= Len(c) /\ Len(raw) <= Len(raw)
    BY <1>0
  <2>2. Found(c, raw, 0, Len(raw))
    BY <1>0, <2>1 DEF Found
  <2>3. c \in Seq(Octet)
    BY <1>0
  <2>4. Grow(R, P, 0, Len(raw))
    BY <1>1, <1>3, <2>2, <2>3, SumsShifted, Zenon
  <2>. QED
    BY <2>4 DEF Grow
<1>5. R[Len(raw) + 1] = R[(Len(raw) + 1) - 1] + weight(c, Len(raw) + 1)
  <2>1. Len(raw) + 1 \in 1 .. Len(c)
    BY <1>0
  <2>. QED
    BY <1>3, <2>1 DEF Sums
<1>6. weight(c, Len(raw) + 1) = 0
  BY <1>0 DEF weight
<1>7. R[0] = 0 /\ P[Len(raw)] \in Nat /\ 0 + Len(raw) = Len(raw) /\ (Len(raw) + 1) - 1 = Len(raw)
  BY <1>0, <1>1, <1>3 DEF Sums
<1>8. sum16(c) = sum16(raw)
  BY <1>0, <1>1, <1>3, <1>4, <1>5, <1>6, <1>7
<1>. QED
  BY <1>8 DEF c

\* The relay and the device add up the same.
LEMMA WordsAreSum ==
  ASSUME NEW raw \in Seq(Octet), NEW m \in Nat, Len(raw) = 2 * m
  PROVE  words(raw) = sum16(raw)
<1>1. PICK P : Sums(P, raw) /\ sum16(raw) = P[Len(raw)]
  BY Sum16Is
<1>2. PICK Q : WordSums(Q, raw, m) /\ words(raw) = Q[m]
  BY WordsIs
<1>0. /\ P \in [0 .. 2 * m -> Nat] /\ P[0] = 0 /\ Q \in [0 .. m -> Nat] /\ Q[0] = 0
      /\ \A k \in 1 .. 2 * m : P[k] = P[k - 1] + weight(raw, k)
      /\ \A k \in 0 .. (m - 1) : Q[k + 1] = Q[k] + read_u16(raw, 2 * k)
  BY <1>1, <1>2 DEF Sums, WordSums
<1>. DEFINE A == {k \in Nat : k <= m => P[2 * k] = Q[k]}
<1>3. 0 \in A
  <2>1. 2 * 0 = 0
    OBVIOUS
  <2>. QED
    BY <1>0, <2>1
<1>4. ASSUME NEW k \in Nat, k \in A PROVE k + 1 \in A
  <2>. SUFFICES ASSUME k + 1 <= m PROVE P[2 * (k + 1)] = Q[k + 1]
    OBVIOUS
  <2>1. P[2 * k] = Q[k]
    BY <1>4
  <2>2. /\ 2 * k + 1 \in 1 .. 2 * m /\ 2 * k + 2 \in 1 .. 2 * m /\ k \in 0 .. (m - 1)
        /\ (2 * k + 1) - 1 = 2 * k /\ (2 * k + 2) - 1 = 2 * k + 1 /\ 2 * (k + 1) = 2 * k + 2
        /\ (2 * k + 1) % 2 = 1 /\ (2 * k + 2) % 2 = 0
    OBVIOUS
  <2>3. P[2 * k + 1] = P[2 * k] + weight(raw, 2 * k + 1)
    BY <1>0, <2>2
  <2>4. P[2 * k + 2] = P[2 * k + 1] + weight(raw, 2 * k + 2)
    BY <1>0, <2>2
  <2>5. weight(raw, 2 * k + 1) = 256 * raw[2 * k + 1] /\ weight(raw, 2 * k + 2) = raw[2 * k + 2]
    BY <2>2 DEF weight
  <2>6. Q[k + 1] = Q[k] + (256 * raw[2 * k + 1] + raw[2 * k + 2])
    BY <1>0, <2>2 DEF read_u16
  <2>7. raw[2 * k + 1] \in Nat /\ raw[2 * k + 2] \in Nat
    BY <2>2, ByteAt
  <2>8. Q[k] \in Nat
    <3>1. k \in 0 .. m
      OBVIOUS
    <3>. QED
      BY <1>0, <3>1
  <2>. QED
    BY <2>1, <2>2, <2>3, <2>4, <2>5, <2>6, <2>7, <2>8
<1>5. Nat \subseteq A
  <2>. HIDE DEF A
  <2>. QED
    BY <1>3, <1>4, Successors
<1>. QED
  BY <1>1, <1>2, <1>5

-----------------------------------------------------------------------------
(* The one's complement *)

fold(s) == (s % 65536) + (s \div 65536)

\* Folding the carry back in takes a multiple of 65535 off.
LEMMA FoldSmaller ==
  ASSUME NEW s \in Nat, ~(s < 65536)
  PROVE  fold(s) \in Nat /\ fold(s) < s /\ \E j \in Nat : s = fold(s) + 65535 * j
<1>. DEFINE q == s \div 65536
            r == s % 65536
<1>1. q \in Nat /\ r \in Nat /\ s = 65536 * q + r /\ q > 0
  OBVIOUS
<1>2. fold(s) = r + q
  BY DEF fold
<1>. HIDE DEF q, r
<1>3. s = fold(s) + 65535 * q
  BY <1>1, <1>2
<1>. QED
  BY <1>1, <1>2, <1>3

\* What the loop that folds carries returns, without recursion.
LEMMA CarriedIs ==
  ASSUME NEW s \in Nat
  PROVE  carried[s] = IF s < 65536 THEN s ELSE carried[fold(s)]
<1>. DEFINE rank == [d \in Nat |-> d]
            step == [f \in [Nat -> Nat] |-> [d \in Nat |-> IF d < 65536 THEN d ELSE f[fold(d)]]]
            it == CHOOSE f : f = [d \in Nat |-> IF d < 65536 THEN d ELSE f[(d % 65536) + (d \div 65536)]]
<1>1. carried = it
  BY DEF carried
<1>2. rank \in [Nat -> Nat]
  OBVIOUS
<1>3. step \in [[Nat -> Nat] -> [Nat -> Nat]]
  <2>1. ASSUME NEW f \in [Nat -> Nat], NEW d \in Nat PROVE (IF d < 65536 THEN d ELSE f[fold(d)]) \in Nat
    BY FoldSmaller
  <2>. QED
    BY <2>1
<1>4. ASSUME NEW f \in [Nat -> Nat], NEW g \in [Nat -> Nat], NEW d \in Nat,
             \A e \in Nat : rank[e] < rank[d] => f[e] = g[e]
      PROVE  step[f][d] = step[g][d]
  <2>1. ~(d < 65536) => f[fold(d)] = g[fold(d)]
    BY <1>4, FoldSmaller
  <2>. QED
    BY <2>1
<1>5. \E f : Solution(f, step, Nat, Nat)
  <2>. HIDE DEF step, rank
  <2>1. LooksBelow(step, Nat, Nat, rank)
    BY <1>2, <1>3, <1>4 DEF LooksBelow
  <2>. QED
    BY <2>1, RecursionSolvable
<1>6. \E f : f = [d \in Nat |-> IF d < 65536 THEN d ELSE f[(d % 65536) + (d \div 65536)]]
  BY <1>5 DEF Solution, fold
<1>7. it = [d \in Nat |-> IF d < 65536 THEN d ELSE it[(d % 65536) + (d \div 65536)]]
  <2>. DEFINE good(f) == f = [d \in Nat |-> IF d < 65536 THEN d ELSE f[(d % 65536) + (d \div 65536)]]
  <2>1. it = CHOOSE f : good(f)
    OBVIOUS
  <2>2. \E f : good(f)
    BY <1>6
  <2>. HIDE DEF good, it
  <2>3. good(it)
    BY <2>1, <2>2
  <2>. QED
    BY <2>3 DEF good
<1>. HIDE DEF it
<1>. QED
  BY <1>1, <1>7 DEF fold

\* Folding the carries in keeps a sum's value modulo 65535.
CarriesRight(s) ==
  carried[s] \in Nat /\ carried[s] < 65536 /\ \E j \in Nat : s = carried[s] + 65535 * j

\* The loop ends below 65536 with the remainder modulo 65535 unchanged.
LEMMA CarriedRight ==
  ASSUME NEW s \in Nat
  PROVE  CarriesRight(s)
<1>. DEFINE A == {n \in Nat : CarriesRight(n)}
<1>1. ASSUME NEW n \in Nat, \A m \in Nat : m < n => m \in A PROVE n \in A
  <2>0. carried[n] = IF n < 65536 THEN n ELSE carried[fold(n)]
    BY CarriedIs
  <2>1. CASE n < 65536
    <3>1. carried[n] = n /\ n = n + 65535 * 0
      BY <2>0, <2>1
    <3>. QED
      BY <2>1, <3>1 DEF CarriesRight
  <2>2. CASE ~(n < 65536)
    <3>1. fold(n) \in Nat /\ fold(n) < n
      BY <2>2, FoldSmaller
    <3>2. PICK j \in Nat : n = fold(n) + 65535 * j
      BY <2>2, FoldSmaller
    <3>3. CarriesRight(fold(n))
      BY <1>1, <3>1
    <3>4. PICK i \in Nat : fold(n) = carried[fold(n)] + 65535 * i
      BY <3>3 DEF CarriesRight
    <3>5. carried[n] = carried[fold(n)]
      BY <2>0, <2>2
    <3>6. carried[n] \in Nat /\ carried[n] < 65536
      BY <3>3, <3>5 DEF CarriesRight
    <3>7. n = carried[n] + 65535 * (i + j) /\ i + j \in Nat
      BY <3>2, <3>4, <3>5, <3>6
    <3>. QED
      BY <3>6, <3>7 DEF CarriesRight
  <2>. QED
    BY <2>1, <2>2
<1>2. Nat \subseteq A
  <2>. HIDE DEF A
  <2>. QED
    BY <1>1, Hereditary
<1>. QED
  BY <1>2

\* The complement is a u16, and the number that the sum lacks.
LEMMA Complemented ==
  ASSUME NEW s \in Nat
  PROVE  /\ complement(s) \in Half
         /\ s + complement(s) > 0 /\ (s + complement(s)) % 65535 = 0
<1>1. CarriesRight(s)
  BY CarriedRight
<1>2. PICK j \in Nat : s = carried[s] + 65535 * j
  BY <1>1 DEF CarriesRight
<1>. DEFINE c == carried[s]
<1>3. c \in Nat /\ c < 65536 /\ s = c + 65535 * j
  BY <1>1, <1>2 DEF CarriesRight
<1>. HIDE DEF c
<1>4. complement(s) = 65535 - c
  BY DEF complement, c
<1>5. s + complement(s) = 65535 * (j + 1)
  BY <1>3, <1>4
<1>6. complement(s) \in Half
  BY <1>3, <1>4 DEF Half
<1>7. (65535 * (j + 1)) % 65535 = 0 /\ 65535 * (j + 1) > 0
  OBVIOUS
<1>. QED
  BY <1>5, <1>6, <1>7

\* A receiver that adds up all the words finds a right checksum in any bytes
\* that add up to a sum and its complement.
LEMMA Verified ==
  ASSUME NEW raw \in Seq(Octet), NEW s \in Nat, sum16(raw) = s + complement(s)
  PROVE  Verifies(raw)
<1>. DEFINE even == IF Len(raw) % 2 = 1 THEN Append(raw, 0) ELSE raw
            m == Len(even) \div 2
<1>1. even \in Seq(Octet) /\ sum16(even) = sum16(raw)
  <2>1. 0 \in Octet
    BY DEF Octet
  <2>2. Append(raw, 0) \in Seq(Octet)
    BY <2>1
  <2>. QED
    BY <2>2, SumPadded
<1>2. Len(even) % 2 = 0 /\ Len(even) \in Nat
  <2>1. Len(Append(raw, 0)) = Len(raw) + 1 /\ Len(raw) \in Nat
    OBVIOUS
  <2>2. CASE Len(raw) % 2 = 1
    BY <2>1, <2>2
  <2>3. CASE Len(raw) % 2 # 1
    BY <2>1, <2>3
  <2>. QED
    BY <2>2, <2>3
<1>. HIDE DEF even
<1>3. m \in Nat /\ Len(even) = 2 * m
  BY <1>2
<1>. HIDE DEF m
<1>4. words(even) = sum16(even)
  BY <1>1, <1>3, WordsAreSum
<1>5. Verifies(raw) <=> words(even) > 0 /\ words(even) % 65535 = 0
  BY DEF Verifies, even
<1>6. s + complement(s) > 0 /\ (s + complement(s)) % 65535 = 0
  BY Complemented
<1>. QED
  BY <1>1, <1>4, <1>5, <1>6

-----------------------------------------------------------------------------
(* Bytes that are cut out of a packet, or written into it *)

IsSlice(s, raw, i, j) ==
  s \in Seq(Octet) /\ Len(s) = j - i /\ \A k \in 1 .. (j - i) : s[k] = raw[i + k]

\* The bytes of a slice.
LEMMA Sliced ==
  ASSUME NEW raw \in Seq(Octet), NEW i \in Nat, NEW j \in Nat, i <= j, j <= Len(raw)
  PROVE  IsSlice(slice(raw, i, j), raw, i, j)
<1>. DEFINE s == slice(raw, i, j)
<1>0. s = SubSeq(raw, i + 1, j)
  BY DEF slice
<1>1. Len(s) = j - i /\ s = [k \in 1 .. (j - i) |-> raw[i + k]]
  <2>1. s = [k \in 1 .. (j - i) |-> raw[((i + 1) + k) - 1]]
    BY <1>0
  <2>2. \A k \in 1 .. (j - i) : ((i + 1) + k) - 1 = i + k
    OBVIOUS
  <2>3. s = [k \in 1 .. (j - i) |-> raw[i + k]]
    BY <2>1, <2>2
  <2>4. Len(s) = j - i
    BY <1>0
  <2>. QED
    BY <2>3, <2>4
<1>. HIDE DEF s
<1>2. \A k \in 1 .. (j - i) : s[k] = raw[i + k] /\ i + k \in 1 .. Len(raw)
  BY <1>1
<1>3. s \in Seq(Octet)
  <2>1. \A k \in 1 .. (j - i) : raw[i + k] \in Octet
    BY <1>2
  <2>2. s \in [1 .. (j - i) -> Octet]
    BY <1>1, <2>1
  <2>. QED
    BY <2>2
<1>4. IsSlice(s, raw, i, j)
  BY <1>1, <1>2, <1>3 DEF IsSlice
<1>. QED
  BY <1>4 DEF s

IsWrite(w, raw, i, v) ==
  /\ w \in Seq(Octet) /\ Len(w) = Len(raw)
  /\ w[i + 1] = v \div 256 /\ w[i + 2] = v % 256 /\ read_u16(w, i) = v
  /\ \A k \in 1 .. Len(raw) : k # i + 1 /\ k # i + 2 => w[k] = raw[k]

\* The two bytes of a u16.
LEMMA Halves ==
  ASSUME NEW v \in Half
  PROVE  /\ v \in Nat /\ v < 65536 /\ v \div 256 \in Octet /\ v % 256 \in Octet
         /\ 256 * (v \div 256) + (v % 256) = v
<1>1. v \in Nat /\ v < 65536
  BY DEF Half
<1>2. /\ v \div 256 \in Nat /\ v \div 256 < 256 /\ v % 256 \in Nat /\ v % 256 < 256
      /\ 256 * (v \div 256) + (v % 256) = v
  BY <1>1
<1>. QED
  BY <1>1, <1>2 DEF Octet

\* Writing a word changes its two bytes and no other.
LEMMA Written ==
  ASSUME NEW raw \in Seq(Octet), NEW i \in Nat, i + 2 <= Len(raw), NEW v \in Half
  PROVE  IsWrite(write_u16(raw, i, v), raw, i, v)
<1>. DEFINE x == v \div 256
            y == v % 256
            w == [raw EXCEPT ![i + 1] = x, ![i + 2] = y]
<1>1. x \in Octet /\ y \in Octet /\ 256 * x + y = v
  BY Halves
<1>2. write_u16(raw, i, v) = w
  BY DEF write_u16
<1>. HIDE DEF x, y
<1>3. i + 1 \in 1 .. Len(raw) /\ i + 2 \in 1 .. Len(raw) /\ i + 1 # i + 2
  OBVIOUS
<1>4. w \in Seq(Octet) /\ Len(w) = Len(raw)
  BY <1>1
<1>5. w[i + 1] = x /\ w[i + 2] = y
  BY <1>3
<1>6. \A k \in 1 .. Len(raw) : k # i + 1 /\ k # i + 2 => w[k] = raw[k]
  BY <1>3
<1>. HIDE DEF w
<1>7. read_u16(w, i) = v
  BY <1>1, <1>5 DEF read_u16
<1>8. IsWrite(w, raw, i, v)
  BY <1>4, <1>5, <1>6, <1>7 DEF IsWrite, x, y
<1>. QED
  BY <1>2, <1>8

\* The same bytes
Same(s, t) == Len(s) = Len(t) /\ \A k \in 1 .. Len(s) : s[k] = t[k]

\* Sequences of bytes are equal when their bytes are.
LEMMA SameBytes ==
  ASSUME NEW s \in Seq(Octet), NEW t \in Seq(Octet), Same(s, t)
  PROVE  s = t
BY SeqEqual DEF Same

IsJoin(c, a, b) ==
  /\ c \in Seq(Octet) /\ Len(c) = Len(a) + Len(b) /\ Len(a) \in Nat /\ Len(b) \in Nat
  /\ \A k \in 1 .. Len(a) : c[k] = a[k]
  /\ \A k \in 1 .. Len(b) : c[Len(a) + k] = b[k]

\* The bytes of a concatenation.
LEMMA Joined ==
  ASSUME NEW a \in Seq(Octet), NEW b \in Seq(Octet)
  PROVE  IsJoin(a \o b, a, b)
BY DEF IsJoin

\* The sum after a word was written.
LEMMA SumWritten ==
  ASSUME NEW raw \in Seq(Octet), NEW i \in Nat, i % 2 = 0, i + 2 <= Len(raw), NEW v \in Half
  PROVE  sum16(write_u16(raw, i, v))
           = sum16(slice(raw, 0, i)) + v + sum16(slice(raw, i + 2, Len(raw)))
<1>. DEFINE w == write_u16(raw, i, v)
            a == slice(raw, 0, i)
            b == slice(raw, i + 2, Len(raw))
            m == <<v \div 256, v % 256>>
<1>1. IsWrite(w, raw, i, v)
  BY Written
<1>2. IsSlice(a, raw, 0, i)
  <2>1. 0 \in Nat /\ 0 <= i /\ i <= Len(raw)
    OBVIOUS
  <2>. QED
    BY <2>1, Sliced
<1>3. IsSlice(b, raw, i + 2, Len(raw))
  <2>1. i + 2 \in Nat /\ Len(raw) \in Nat /\ Len(raw) <= Len(raw)
    OBVIOUS
  <2>. QED
    BY <2>1, Sliced
<1>4. v \div 256 \in Octet /\ v % 256 \in Octet /\ 256 * (v \div 256) + (v % 256) = v /\ v \in Nat
  BY Halves
<1>5. m \in Seq(Octet) /\ Len(m) = 2 /\ m[1] = v \div 256 /\ m[2] = v % 256
  BY <1>4
<1>6. sum16(m) = v
  BY <1>4, SumWord
<1>. HIDE DEF w, a, b, m
<1>7. /\ a \in Seq(Octet) /\ Len(a) = i /\ \A k \in 1 .. i : a[k] = raw[k]
      /\ b \in Seq(Octet) /\ Len(b) = Len(raw) - (i + 2)
      /\ \A k \in 1 .. (Len(raw) - (i + 2)) : b[k] = raw[(i + 2) + k]
      /\ Len(raw) \in Nat
  <2>1. a \in Seq(Octet) /\ Len(a) = i - 0 /\ \A k \in 1 .. (i - 0) : a[k] = raw[0 + k]
    BY <1>2 DEF IsSlice
  <2>2. /\ b \in Seq(Octet) /\ Len(b) = Len(raw) - (i + 2)
        /\ \A k \in 1 .. (Len(raw) - (i + 2)) : b[k] = raw[(i + 2) + k]
    BY <1>3 DEF IsSlice
  <2>3. i - 0 = i /\ \A k \in 1 .. i : 0 + k = k
    OBVIOUS
  <2>. QED
    BY <2>1, <2>2, <2>3
<1>. DEFINE mb == m \o b
            amb == a \o mb
<1>8. /\ mb \in Seq(Octet) /\ Len(mb) = 2 + Len(b) /\ mb[1] = m[1] /\ mb[2] = m[2]
      /\ \A k \in 1 .. Len(b) : mb[2 + k] = b[k]
  <2>1. IsJoin(mb, m, b)
    BY <1>5, <1>7, Joined
  <2>. HIDE DEF mb
  <2>. QED
    BY <1>5, <2>1 DEF IsJoin
<1>. HIDE DEF mb
<1>9. /\ amb \in Seq(Octet) /\ Len(amb) = i + Len(mb)
      /\ \A k \in 1 .. i : amb[k] = a[k]
      /\ \A k \in 1 .. Len(mb) : amb[i + k] = mb[k]
  <2>1. IsJoin(amb, a, mb)
    BY <1>7, <1>8, Joined
  <2>. HIDE DEF amb
  <2>. QED
    BY <1>7, <2>1 DEF IsJoin
<1>. HIDE DEF amb
<1>10. Same(w, amb)
  <2>1. Len(w) = Len(raw) /\ Len(amb) = Len(raw)
    BY <1>1, <1>7, <1>8, <1>9 DEF IsWrite
  <2>2. ASSUME NEW k \in 1 .. Len(raw) PROVE w[k] = amb[k]
    <3>1. CASE k <= i
      <4>1. k \in 1 .. i /\ k # i + 1 /\ k # i + 2
        BY <3>1
      <4>. QED
        BY <1>1, <1>7, <1>9, <4>1 DEF IsWrite
    <3>2. CASE k = i + 1
      <4>1. 1 \in 1 .. Len(mb)
        BY <1>7, <1>8
      <4>2. amb[i + 1] = mb[1]
        BY <1>9, <4>1
      <4>3. w[i + 1] = m[1]
        BY <1>1, <1>5 DEF IsWrite
      <4>. QED
        BY <1>8, <3>2, <4>2, <4>3
    <3>3. CASE k = i + 2
      <4>1. 2 \in 1 .. Len(mb)
        BY <1>7, <1>8
      <4>2. amb[i + 2] = mb[2]
        BY <1>9, <4>1
      <4>3. w[i + 2] = m[2]
        BY <1>1, <1>5 DEF IsWrite
      <4>. QED
        BY <1>8, <3>3, <4>2, <4>3
    <3>4. CASE k > i + 2
      <4>. DEFINE j == k - (i + 2)
      <4>1. /\ j \in 1 .. (Len(raw) - (i + 2)) /\ (i + 2) + j = k /\ i + (2 + j) = k
            /\ 2 + j \in 1 .. Len(mb) /\ j \in 1 .. Len(b)
        BY <1>7, <1>8, <3>4
      <4>. HIDE DEF j
      <4>2. amb[i + (2 + j)] = mb[2 + j]
        BY <1>9, <4>1
      <4>3. mb[2 + j] = raw[(i + 2) + j]
        BY <1>7, <1>8, <4>1
      <4>4. w[k] = raw[k]
        BY <1>1, <3>4 DEF IsWrite
      <4>. QED
        BY <4>1, <4>2, <4>3, <4>4
    <3>. QED
      BY <3>1, <3>2, <3>3, <3>4
  <2>. QED
    BY <2>1, <2>2 DEF Same
<1>11. w = amb
  <2>1. w \in Seq(Octet)
    BY <1>1 DEF IsWrite
  <2>. QED
    BY <1>9, <1>10, <2>1, SameBytes
<1>12. sum16(amb) = sum16(a) + sum16(mb)
  BY <1>7, <1>8, SumConcat DEF amb
<1>13. sum16(mb) = sum16(m) + sum16(b)
  <2>1. Len(m) % 2 = 0
    BY <1>5
  <2>. QED
    BY <1>5, <1>7, <2>1, SumConcat DEF mb
<1>14. sum16(a) \in Nat /\ sum16(b) \in Nat
  BY <1>7, SumTyped
<1>15. sum16(w) = sum16(a) + v + sum16(b)
  BY <1>4, <1>6, <1>11, <1>12, <1>13, <1>14
<1>. QED
  BY <1>15 DEF w, a, b

\* write_u16() of the complement of the sum of the other words, or of all words
\* with 0 in its place.
LEMMA ChecksumVerifies ==
  ASSUME NEW raw \in Seq(Octet), NEW i \in Nat, i % 2 = 0, i + 2 <= Len(raw)
  PROVE  /\ Verifies(write_u16(raw, i, complement(sum16(slice(raw, 0, i))
                                                     + sum16(slice(raw, i + 2, Len(raw))))))
         /\ Verifies(write_u16(raw, i, complement(sum16(write_u16(raw, i, 0)))))
<1>. DEFINE x == sum16(slice(raw, 0, i))
            y == sum16(slice(raw, i + 2, Len(raw)))
<1>1. x \in Nat /\ y \in Nat
  <2>1. 0 \in Nat /\ 0 <= i /\ i <= Len(raw) /\ Len(raw) \in Nat /\ i + 2 \in Nat /\ Len(raw) <= Len(raw)
    OBVIOUS
  <2>2. IsSlice(slice(raw, 0, i), raw, 0, i) /\ IsSlice(slice(raw, i + 2, Len(raw)), raw, i + 2, Len(raw))
    BY <2>1, Sliced
  <2>3. slice(raw, 0, i) \in Seq(Octet) /\ slice(raw, i + 2, Len(raw)) \in Seq(Octet)
    BY <2>2 DEF IsSlice
  <2>. QED
    BY <2>3, SumTyped
<1>2. 0 \in Half
  BY DEF Half
<1>3. sum16(write_u16(raw, i, 0)) = x + 0 + y
  BY <1>2, SumWritten
<1>4. x + y \in Nat /\ x + 0 + y = x + y
  BY <1>1
<1>. DEFINE c == complement(x + y)
<1>5. c \in Half /\ c \in Nat
  <2>1. c \in Half
    BY <1>4, Complemented
  <2>. HIDE DEF c
  <2>. QED
    BY <2>1 DEF Half
<1>6. sum16(write_u16(raw, i, c)) = x + c + y
  BY <1>5, SumWritten
<1>7. x + c + y = (x + y) + c
  BY <1>1, <1>5
<1>8. write_u16(raw, i, c) \in Seq(Octet)
  <2>1. IsWrite(write_u16(raw, i, c), raw, i, c)
    BY <1>5, Written
  <2>. QED
    BY <2>1 DEF IsWrite
<1>9. Verifies(write_u16(raw, i, c))
  <2>. DEFINE w == write_u16(raw, i, c)
  <2>1. sum16(w) = (x + y) + complement(x + y) /\ w \in Seq(Octet)
    BY <1>6, <1>7, <1>8
  <2>. HIDE DEF w, x, y, c
  <2>2. Verifies(w)
    BY <1>4, <2>1, Verified
  <2>. QED
    BY <2>2 DEF w
<1>10. c = complement(sum16(write_u16(raw, i, 0)))
  BY <1>3, <1>4
<1>. QED
  BY <1>9, <1>10

\* The bytes between the addresses and the segment in the pseudo-header.
trailer(n) == <<0, 6, n \div 256, n % 256>>

\* The sum of the last four bytes of the pseudo-header.
LEMMA SumTrailer ==
  ASSUME NEW n \in Half
  PROVE  trailer(n) \in Seq(Octet) /\ Len(trailer(n)) = 4 /\ sum16(trailer(n)) = 6 + n
<1>1. n \div 256 \in Octet /\ n % 256 \in Octet /\ 256 * (n \div 256) + (n % 256) = n /\ n \in Nat
  BY Halves
<1>. DEFINE x == n \div 256
            y == n % 256
            a == <<0, 6>>
            b == <<x, y>>
            t == <<0, 6, x, y>>
<1>. HIDE DEF x, y
<1>2. 0 \in Octet /\ 6 \in Octet
  BY DEF Octet
<1>3. a \in Seq(Octet) /\ b \in Seq(Octet) /\ Len(a) = 2 /\ Len(a) % 2 = 0 /\ t \in Seq(Octet) /\ Len(t) = 4
  BY <1>1, <1>2 DEF x, y
<1>3a. Len(b) = 2 /\ b[1] = x /\ b[2] = y /\ a[1] = 0 /\ a[2] = 6
  OBVIOUS
<1>3b. t[1] = 0 /\ t[2] = 6 /\ t[3] = x /\ t[4] = y
  OBVIOUS
<1>5. sum16(a) = 256 * 0 + 6 /\ sum16(b) = 256 * x + y
  BY <1>1, <1>2, SumWord DEF x, y
<1>. HIDE DEF a, b, t
<1>4. a \o b = t
  <2>1. IsJoin(a \o b, a, b)
    BY <1>3, Joined
  <2>. DEFINE c == a \o b
  <2>. HIDE DEF c
  <2>2. c \in Seq(Octet) /\ Len(c) = 4 /\ c[1] = 0 /\ c[2] = 6 /\ c[2 + 1] = x /\ c[2 + 2] = y
    <3>1. IsJoin(c, a, b)
      BY <2>1 DEF c
    <3>. QED
      BY <1>3, <1>3a, <3>1 DEF IsJoin
  <2>3. Same(c, t)
    BY <1>3, <1>3b, <2>2 DEF Same
  <2>4. c = t
    BY <1>3, <2>2, <2>3, SameBytes
  <2>. QED
    BY <2>4 DEF c
<1>6. sum16(a \o b) = sum16(a) + sum16(b)
  BY <1>3, SumConcat
<1>7. sum16(t) = 6 + n
  <2>1. sum16(t) = (256 * 0 + 6) + (256 * x + y)
    BY <1>4, <1>5, <1>6
  <2>2. 256 * x + y = n /\ x \in Nat /\ y \in Nat
    BY <1>1 DEF x, y, Octet
  <2>. QED
    BY <2>1, <2>2
<1>. QED
  BY <1>3, <1>7 DEF trailer, x, y, t

\* The complement of the sum over the pseudo-header and the segment, as its checksum, verifies.
LEMMA TcpVerifies ==
  ASSUME NEW a \in Seq(Octet), Len(a) % 2 = 0, NEW t \in Seq(Octet), Len(t) = 20,
         NEW b \in Seq(Octet), NEW n \in Half, NEW s \in Nat,
         s = sum16(a) + (6 + n) + (sum16(write_u16(t, 16, 0)) + sum16(b))
  PROVE  /\ write_u16(t, 16, complement(s)) \in Seq(Octet)
         /\ Verifies((a \o trailer(n)) \o (write_u16(t, 16, complement(s)) \o b))
<1>. DEFINE c == complement(s)
            w == write_u16(t, 16, c)
            z == write_u16(t, 16, 0)
            h == a \o trailer(n)
            g == w \o b
<1>0. c \in Half /\ 0 \in Half
  <2>1. 0 \in Half
    BY DEF Half
  <2>. QED
    BY <2>1, Complemented
<1>0a. c \in Nat
  <2>. HIDE DEF c
  <2>. QED
    BY <1>0 DEF Half
<1>. HIDE DEF c
<1>1. 16 \in Nat /\ 16 % 2 = 0 /\ 16 + 2 <= Len(t)
  OBVIOUS
<1>. DEFINE x == sum16(slice(t, 0, 16))
            y == sum16(slice(t, 16 + 2, Len(t)))
<1>2. sum16(w) = x + c + y /\ sum16(z) = x + 0 + y
  BY <1>0, <1>1, SumWritten
<1>3. x \in Nat /\ y \in Nat
  <2>1. 0 \in Nat /\ 0 <= 16 /\ 16 <= Len(t) /\ Len(t) \in Nat /\ 16 + 2 \in Nat /\ Len(t) <= Len(t) /\ 16 + 2 <= Len(t)
    OBVIOUS
  <2>2. IsSlice(slice(t, 0, 16), t, 0, 16) /\ IsSlice(slice(t, 16 + 2, Len(t)), t, 16 + 2, Len(t))
    BY <1>1, <2>1, Sliced
  <2>3. slice(t, 0, 16) \in Seq(Octet) /\ slice(t, 16 + 2, Len(t)) \in Seq(Octet)
    BY <2>2 DEF IsSlice
  <2>. QED
    BY <2>3, SumTyped
<1>4. w \in Seq(Octet) /\ Len(w) = 20
  <2>1. IsWrite(w, t, 16, c)
    BY <1>0, <1>1, Written
  <2>. QED
    BY <2>1 DEF IsWrite
<1>5. trailer(n) \in Seq(Octet) /\ Len(trailer(n)) = 4 /\ sum16(trailer(n)) = 6 + n /\ n \in Nat
  BY SumTrailer, Halves
<1>. HIDE DEF w, z, x, y
<1>6. sum16(h) = sum16(a) + (6 + n)
  BY <1>5, SumConcat
<1>7. IsJoin(h, a, trailer(n)) /\ IsJoin(g, w, b)
  BY <1>4, <1>5, Joined
<1>8. sum16(g) = sum16(w) + sum16(b)
  <2>1. Len(w) % 2 = 0
    BY <1>4
  <2>. QED
    BY <1>4, <2>1, SumConcat
<1>. HIDE DEF h, g
<1>9. h \in Seq(Octet) /\ g \in Seq(Octet) /\ Len(h) % 2 = 0
  <2>1. h \in Seq(Octet) /\ g \in Seq(Octet) /\ Len(h) = Len(a) + 4 /\ Len(a) \in Nat
    BY <1>5, <1>7 DEF IsJoin
  <2>. QED
    BY <2>1
<1>10. sum16(h \o g) = sum16(h) + sum16(g)
  BY <1>9, SumConcat
<1>11. sum16(a) \in Nat /\ sum16(b) \in Nat
  BY SumTyped
<1>12. sum16(h \o g) = s + c
  <2>1. s = sum16(a) + (6 + n) + (sum16(z) + sum16(b))
    BY DEF z
  <2>. DEFINE A == sum16(a)
              B == sum16(b)
  <2>2. sum16(h \o g) = (A + (6 + n)) + ((x + c + y) + B)
    BY <1>2, <1>6, <1>8, <1>10
  <2>3. s = A + (6 + n) + ((x + 0 + y) + B)
    BY <1>2, <2>1
  <2>4. A \in Nat /\ B \in Nat
    BY <1>11
  <2>. HIDE DEF A, B
  <2>5. (A + (6 + n)) + ((x + c + y) + B) = (A + (6 + n) + ((x + 0 + y) + B)) + c
    BY <1>0a, <1>3, <1>5, <2>4
  <2>. QED
    BY <2>2, <2>3, <2>5
<1>13. h \o g \in Seq(Octet)
  BY <1>9
<1>14. Verifies(h \o g)
  BY <1>12, <1>13, Verified DEF c
<1>. QED
  BY <1>4, <1>14 DEF w, c, h, g

\* The words of two IPv4 addresses.
LEMMA SumAddresses ==
  ASSUME NEW a \in Seq(Octet), Len(a) = 8
  PROVE  sum16(a) = read_u16(a, 0) + read_u16(a, 2) + read_u16(a, 4) + read_u16(a, 6)
<1>1. Len(a) = 2 * 4 /\ 4 \in Nat
  OBVIOUS
<1>2. PICK Q : WordSums(Q, a, 4) /\ words(a) = Q[4]
  BY <1>1, WordsIs
<1>3. words(a) = sum16(a)
  BY <1>1, WordsAreSum
<1>4. /\ Q[0 + 1] = Q[0] + read_u16(a, 2 * 0) /\ Q[1 + 1] = Q[1] + read_u16(a, 2 * 1)
      /\ Q[2 + 1] = Q[2] + read_u16(a, 2 * 2) /\ Q[3 + 1] = Q[3] + read_u16(a, 2 * 3) /\ Q[0] = 0
  <2>1. 0 \in 0 .. (4 - 1) /\ 1 \in 0 .. (4 - 1) /\ 2 \in 0 .. (4 - 1) /\ 3 \in 0 .. (4 - 1)
    OBVIOUS
  <2>. QED
    BY <1>2, <2>1 DEF WordSums
<1>5. /\ read_u16(a, 0) \in Half /\ read_u16(a, 2) \in Half /\ read_u16(a, 4) \in Half /\ read_u16(a, 6) \in Half
  <2>1. /\ 0 \in Nat /\ 0 + 2 <= Len(a) /\ 2 \in Nat /\ 2 + 2 <= Len(a)
        /\ 4 \in Nat /\ 4 + 2 <= Len(a) /\ 6 \in Nat /\ 6 + 2 <= Len(a)
    OBVIOUS
  <2>. QED
    BY <2>1, WordTyped
<1>6. /\ read_u16(a, 0) \in Nat /\ read_u16(a, 2) \in Nat /\ read_u16(a, 4) \in Nat /\ read_u16(a, 6) \in Nat
  BY <1>5 DEF Half
<1>7. /\ 0 + 1 = 1 /\ 1 + 1 = 2 /\ 2 + 1 = 3 /\ 3 + 1 = 4 /\ 2 * 0 = 0 /\ 2 * 1 = 2 /\ 2 * 2 = 4 /\ 2 * 3 = 6
  OBVIOUS
<1>8. /\ Q[1] = 0 + read_u16(a, 0) /\ Q[2] = Q[1] + read_u16(a, 2)
      /\ Q[3] = Q[2] + read_u16(a, 4) /\ Q[4] = Q[3] + read_u16(a, 6)
  BY <1>4, <1>7
<1>9. Q[4] = read_u16(a, 0) + read_u16(a, 2) + read_u16(a, 4) + read_u16(a, 6)
  BY <1>6, <1>8
<1>. QED
  BY <1>2, <1>3, <1>9

\* What is cut out of a packet does not notice what is written elsewhere in it.
LEMMA SliceKeeps ==
  ASSUME NEW raw \in Seq(Octet), NEW w, NEW i \in Nat, NEW v, IsWrite(w, raw, i, v),
         NEW lo \in Nat, NEW hi \in Nat, lo <= hi, hi <= Len(raw), hi <= i \/ i + 2 <= lo
  PROVE  slice(w, lo, hi) = slice(raw, lo, hi)
<1>0. /\ w \in Seq(Octet) /\ Len(w) = Len(raw)
      /\ \A k \in 1 .. Len(raw) : k # i + 1 /\ k # i + 2 => w[k] = raw[k]
  BY DEF IsWrite
<1>1. IsSlice(slice(raw, lo, hi), raw, lo, hi)
  BY Sliced
<1>2. IsSlice(slice(w, lo, hi), w, lo, hi)
  BY <1>0, Sliced
<1>. DEFINE s == slice(raw, lo, hi)
            t == slice(w, lo, hi)
<1>. HIDE DEF s, t
<1>3. /\ s \in Seq(Octet) /\ Len(s) = hi - lo /\ \A k \in 1 .. (hi - lo) : s[k] = raw[lo + k]
      /\ t \in Seq(Octet) /\ Len(t) = hi - lo /\ \A k \in 1 .. (hi - lo) : t[k] = w[lo + k]
  BY <1>1, <1>2 DEF IsSlice, s, t
<1>4. ASSUME NEW k \in 1 .. (hi - lo) PROVE t[k] = s[k]
  <2>1. lo + k \in 1 .. Len(raw) /\ lo + k # i + 1 /\ lo + k # i + 2
    OBVIOUS
  <2>2. w[lo + k] = raw[lo + k]
    BY <1>0, <2>1
  <2>. QED
    BY <1>3, <2>2
<1>5. Same(t, s)
  BY <1>3, <1>4 DEF Same
<1>6. t = s
  BY <1>3, <1>5, SameBytes
<1>. QED
  BY <1>6 DEF s, t

Apart(i, lo, hi, raw) ==
  /\ i \in Nat /\ lo \in Nat /\ hi \in Nat /\ lo <= hi /\ hi <= Len(raw)
  /\ hi <= i \/ i + 2 <= lo

\* The same, for places that are apart.
LEMMA SliceApart ==
  ASSUME NEW raw \in Seq(Octet), NEW w, NEW i, NEW v, IsWrite(w, raw, i, v),
         NEW lo, NEW hi, Apart(i, lo, hi, raw)
  PROVE  slice(w, lo, hi) = slice(raw, lo, hi)
BY SliceKeeps DEF Apart

\* What is written into a packet is written into the slice around it.
LEMMA SliceWritten ==
  ASSUME NEW raw \in Seq(Octet), NEW i \in Nat, NEW v \in Half,
         NEW lo \in Nat, NEW hi \in Nat, lo <= i, i + 2 <= hi, hi <= Len(raw)
  PROVE  slice(write_u16(raw, i, v), lo, hi) = write_u16(slice(raw, lo, hi), i - lo, v)
<1>. DEFINE w == write_u16(raw, i, v)
            s == slice(raw, lo, hi)
            t == slice(w, lo, hi)
            u == write_u16(s, i - lo, v)
            j == i - lo
<1>0. j \in Nat /\ j + 2 <= hi - lo /\ lo <= hi /\ i + 2 <= Len(raw) /\ i = lo + j
  OBVIOUS
<1>1. IsWrite(w, raw, i, v)
  BY <1>0, Written
<1>1a. w \in Seq(Octet) /\ Len(w) = Len(raw)
  BY <1>1 DEF IsWrite
<1>2. IsSlice(s, raw, lo, hi)
  BY <1>0, Sliced
<1>3. IsSlice(t, w, lo, hi)
  <2>. HIDE DEF w
  <2>. QED
    BY <1>0, <1>1a, Sliced
<1>. HIDE DEF w, s, t, j
<1>4. IsWrite(u, s, j, v)
  <2>1. s \in Seq(Octet) /\ Len(s) = hi - lo
    BY <1>2 DEF IsSlice
  <2>2. IsWrite(write_u16(s, j, v), s, j, v)
    BY <1>0, <2>1, Written
  <2>. QED
    BY <2>2 DEF j
<1>. HIDE DEF u
<1>5. /\ t \in Seq(Octet) /\ Len(t) = hi - lo /\ \A k \in 1 .. (hi - lo) : t[k] = w[lo + k]
      /\ u \in Seq(Octet) /\ Len(u) = hi - lo
      /\ u[j + 1] = v \div 256 /\ u[j + 2] = v % 256
      /\ \A k \in 1 .. (hi - lo) : k # j + 1 /\ k # j + 2 => u[k] = raw[lo + k]
  BY <1>2, <1>3, <1>4 DEF IsSlice, IsWrite
<1>6. /\ w[i + 1] = v \div 256 /\ w[i + 2] = v % 256
      /\ \A k \in 1 .. Len(raw) : k # i + 1 /\ k # i + 2 => w[k] = raw[k]
  BY <1>1 DEF IsWrite
<1>7. ASSUME NEW k \in 1 .. (hi - lo) PROVE t[k] = u[k]
  <2>1. CASE k = j + 1
    <3>1. lo + k = i + 1
      BY <1>0, <2>1
    <3>. QED
      BY <1>5, <1>6, <2>1, <3>1
  <2>2. CASE k = j + 2
    <3>1. lo + k = i + 2
      BY <1>0, <2>2
    <3>. QED
      BY <1>5, <1>6, <2>2, <3>1
  <2>3. CASE k # j + 1 /\ k # j + 2
    <3>1. lo + k \in 1 .. Len(raw) /\ lo + k # i + 1 /\ lo + k # i + 2
      BY <1>0, <2>3
    <3>2. w[lo + k] = raw[lo + k]
      BY <1>6, <3>1
    <3>. QED
      BY <1>5, <2>3, <3>2
  <2>. QED
    BY <2>1, <2>2, <2>3
<1>8. Same(t, u)
  BY <1>5, <1>7 DEF Same
<1>9. t = u
  BY <1>5, <1>8, SameBytes
<1>. QED
  BY <1>9 DEF t, u, w, s

IsSwap(s, raw, i, n) ==
  /\ s \in Seq(Octet) /\ Len(s) = Len(raw)
  /\ \A k \in 1 .. i : s[k] = raw[k]
  /\ \A k \in 1 .. n : s[i + k] = raw[(i + n) + k] /\ s[(i + n) + k] = raw[i + k]
  /\ \A k \in 1 .. Len(raw) : k > i + 2 * n => s[k] = raw[k]

\* The bytes after n of them were exchanged with the next n.
LEMMA Swapped ==
  ASSUME NEW raw \in Seq(Octet), NEW i \in Nat, NEW n \in Nat, i + 2 * n <= Len(raw)
  PROVE  IsSwap(swapped(raw, i, n), raw, i, n)
<1>. DEFINE a == slice(raw, 0, i)
            b == slice(raw, i + n, i + 2 * n)
            c == slice(raw, i, i + n)
            d == slice(raw, i + 2 * n, Len(raw))
<1>1. IsSlice(a, raw, 0, i) /\ IsSlice(b, raw, i + n, i + 2 * n)
      /\ IsSlice(c, raw, i, i + n) /\ IsSlice(d, raw, i + 2 * n, Len(raw))
  <2>1. /\ 0 \in Nat /\ 0 <= i /\ i <= Len(raw) /\ i + n \in Nat /\ i + 2 * n \in Nat /\ i + n <= i + 2 * n
        /\ i <= i + n /\ i + n <= Len(raw) /\ Len(raw) \in Nat /\ Len(raw) <= Len(raw)
    OBVIOUS
  <2>. QED
    BY <2>1, Sliced
<1>2. /\ a \in Seq(Octet) /\ Len(a) = i /\ b \in Seq(Octet) /\ Len(b) = n
      /\ c \in Seq(Octet) /\ Len(c) = n /\ d \in Seq(Octet) /\ Len(d) = Len(raw) - (i + 2 * n)
  <2>. HIDE DEF a, b, c, d
  <2>1. /\ a \in Seq(Octet) /\ Len(a) = i - 0 /\ b \in Seq(Octet) /\ Len(b) = (i + 2 * n) - (i + n)
        /\ c \in Seq(Octet) /\ Len(c) = (i + n) - i /\ d \in Seq(Octet) /\ Len(d) = Len(raw) - (i + 2 * n)
    BY <1>1 DEF IsSlice
  <2>. QED
    BY <2>1
<1>3. /\ \A k \in 1 .. i : a[k] = raw[k]
      /\ \A k \in 1 .. n : b[k] = raw[(i + n) + k]
      /\ \A k \in 1 .. n : c[k] = raw[i + k]
      /\ \A k \in 1 .. (Len(raw) - (i + 2 * n)) : d[k] = raw[(i + 2 * n) + k]
  <2>. HIDE DEF a, b, c, d
  <2>1. /\ \A k \in 1 .. (i - 0) : a[k] = raw[0 + k]
        /\ \A k \in 1 .. ((i + 2 * n) - (i + n)) : b[k] = raw[(i + n) + k]
        /\ \A k \in 1 .. ((i + n) - i) : c[k] = raw[i + k]
        /\ \A k \in 1 .. (Len(raw) - (i + 2 * n)) : d[k] = raw[(i + 2 * n) + k]
    BY <1>1 DEF IsSlice
  <2>2. i - 0 = i /\ (i + 2 * n) - (i + n) = n /\ (i + n) - i = n /\ \A k \in 1 .. i : 0 + k = k
    OBVIOUS
  <2>. QED
    BY <2>1, <2>2
<1>. DEFINE ab == a \o b
            abc == ab \o c
            s == abc \o d
<1>4. swapped(raw, i, n) = s
  BY DEF swapped
<1>. HIDE DEF a, b, c, d
<1>5. IsJoin(ab, a, b)
  BY <1>2, Joined
<1>6. ab \in Seq(Octet) /\ Len(ab) = i + n
  BY <1>2, <1>5 DEF IsJoin
<1>. HIDE DEF ab
<1>7. IsJoin(abc, ab, c)
  BY <1>2, <1>6, Joined
<1>8. abc \in Seq(Octet) /\ Len(abc) = i + 2 * n
  <2>1. abc \in Seq(Octet) /\ Len(abc) = Len(ab) + Len(c)
    BY <1>7 DEF IsJoin
  <2>. QED
    BY <1>2, <1>6, <2>1
<1>. HIDE DEF abc
<1>9. IsJoin(s, abc, d)
  BY <1>2, <1>8, Joined
<1>. HIDE DEF s
<1>10. s \in Seq(Octet) /\ Len(s) = Len(raw)
  <2>1. s \in Seq(Octet) /\ Len(s) = Len(abc) + Len(d)
    BY <1>9 DEF IsJoin
  <2>. QED
    BY <1>2, <1>8, <2>1
<1>11. \A k \in 1 .. (i + n) : s[k] = ab[k]
  <2>. SUFFICES ASSUME NEW k \in 1 .. (i + n) PROVE s[k] = ab[k]
    OBVIOUS
  <2>1. k \in 1 .. (i + 2 * n)
    OBVIOUS
  <2>2. s[k] = abc[k]
    BY <1>8, <1>9, <2>1 DEF IsJoin
  <2>3. abc[k] = ab[k]
    BY <1>6, <1>7 DEF IsJoin
  <2>. QED
    BY <2>2, <2>3
<1>12. ASSUME NEW k \in 1 .. i PROVE s[k] = raw[k]
  <2>1. ab[k] = a[k] /\ k \in 1 .. (i + n)
    BY <1>2, <1>5 DEF IsJoin
  <2>. QED
    BY <1>3, <1>11, <2>1
<1>13. ASSUME NEW k \in 1 .. n PROVE s[i + k] = raw[(i + n) + k]
  <2>1. ab[i + k] = b[k] /\ i + k \in 1 .. (i + n)
    BY <1>2, <1>5 DEF IsJoin
  <2>. QED
    BY <1>3, <1>11, <2>1
<1>14. ASSUME NEW k \in 1 .. n PROVE s[(i + n) + k] = raw[i + k]
  <2>1. abc[(i + n) + k] = c[k]
    BY <1>2, <1>6, <1>7 DEF IsJoin
  <2>2. (i + n) + k \in 1 .. (i + 2 * n)
    OBVIOUS
  <2>3. s[(i + n) + k] = abc[(i + n) + k]
    BY <1>8, <1>9, <2>2 DEF IsJoin
  <2>. QED
    BY <1>3, <2>1, <2>3
<1>15. ASSUME NEW k \in 1 .. Len(raw), k > i + 2 * n PROVE s[k] = raw[k]
  <2>. DEFINE j == k - (i + 2 * n)
  <2>1. j \in 1 .. (Len(raw) - (i + 2 * n)) /\ (i + 2 * n) + j = k
    BY <1>15
  <2>. HIDE DEF j
  <2>2. s[(i + 2 * n) + j] = d[j]
    BY <1>2, <1>8, <1>9, <2>1 DEF IsJoin
  <2>. QED
    BY <1>3, <2>1, <2>2
<1>16. IsSwap(s, raw, i, n)
  BY <1>10, <1>12, <1>13, <1>14, <1>15 DEF IsSwap
<1>. QED
  BY <1>4, <1>16

-----------------------------------------------------------------------------
(* The packets that the relay answers itself *)

\* All of the bytes.
LEMMA WholeSlice ==
  ASSUME NEW raw \in Seq(Octet)
  PROVE  slice(raw, 0, Len(raw)) = raw
<1>1. IsSlice(slice(raw, 0, Len(raw)), raw, 0, Len(raw))
  <2>1. 0 \in Nat /\ Len(raw) \in Nat /\ 0 <= Len(raw) /\ Len(raw) <= Len(raw)
    OBVIOUS
  <2>. QED
    BY <2>1, Sliced
<1>. DEFINE s == slice(raw, 0, Len(raw))
<1>. HIDE DEF s
<1>2. s \in Seq(Octet) /\ Len(s) = Len(raw) - 0 /\ \A k \in 1 .. (Len(raw) - 0) : s[k] = raw[0 + k]
  BY <1>1 DEF IsSlice, s
<1>3. Same(s, raw)
  BY <1>2 DEF Same
<1>4. s = raw
  BY <1>2, <1>3, SameBytes
<1>. QED
  BY <1>4 DEF s

\* The parsed packet of the device is the packet.
ParsedWhole(raw) ==
  LET p == IpPacket(raw)
      d == p.data
  IN  /\ p.raw = raw /\ d = IpHeaderData(raw) /\ d.version = raw[1] \div 16
      /\ header_length(d) = ihl(raw) /\ total_length(d) = Len(raw)
      /\ d.version \in {4, 6}
      /\ d.version = 4 => d = Ipv4HeaderData(raw) /\ d.header_length = 4 * (raw[1] % 16)
      /\ d.version = 6 => d = Ipv6HeaderData(raw)

\* parse() of a packet whose lengths agree finds the headers and lengths that are in it.
LEMMA WholeParsed ==
  ASSUME NEW raw, WholePacket(raw)
  PROVE  ParsedWhole(raw)
<1>. DEFINE d == IpHeaderData(raw)
<1>0. /\ raw \in Seq(Octet) /\ Len(raw) \in Nat /\ Len(raw) < U16 /\ U16 \in Nat /\ 20 <= Len(raw)
      /\ raw[1] \div 16 \in {4, 6} /\ LengthsAgree(raw)
  BY PacketizerAssumption DEF WholePacket
<1>1. IpPacket(raw).data = d /\ IpPacket(raw).raw = slice(raw, 0, total_length(d))
  BY DEF IpPacket
<1>2. CASE raw[1] \div 16 = 4
  <2>1. d = Ipv4HeaderData(raw)
    BY <1>2 DEF IpHeaderData
  <2>2. d.version = 4 /\ d.header_length = 4 * (raw[1] % 16) /\ d.total_length = read_u16(raw, 2)
    BY <2>1 DEF Ipv4HeaderData
  <2>3. total_length(d) = Len(raw) /\ header_length(d) = ihl(raw)
    BY <1>0, <1>2, <2>2 DEF total_length, header_length, LengthsAgree, ihl
  <2>4. IpPacket(raw).raw = raw
    BY <1>0, <1>1, <2>3, WholeSlice
  <2>. QED
    BY <1>1, <1>2, <2>1, <2>2, <2>3, <2>4 DEF ParsedWhole
<1>3. CASE raw[1] \div 16 = 6
  <2>1. d = Ipv6HeaderData(raw)
    BY <1>3 DEF IpHeaderData
  <2>2. d.version = 6 /\ d.payload_length = read_u16(raw, 4)
    BY <2>1 DEF Ipv6HeaderData
  <2>3. total_length(d) = (40 + read_u16(raw, 4)) % U16 /\ header_length(d) = ihl(raw)
    BY <1>3, <2>2 DEF total_length, header_length, ihl, plus16
  <2>4. 40 + read_u16(raw, 4) = Len(raw)
    BY <1>0, <1>3 DEF LengthsAgree
  <2>5. Len(raw) % U16 = Len(raw)
    BY <1>0
  <2>6. total_length(d) = Len(raw)
    BY <2>3, <2>4, <2>5
  <2>7. IpPacket(raw).raw = raw
    BY <1>0, <1>1, <2>6, WholeSlice
  <2>. QED
    BY <1>1, <1>3, <2>1, <2>2, <2>3, <2>6, <2>7 DEF ParsedWhole
<1>. QED
  BY <1>0, <1>2, <1>3

IsChecked(w, raw, i, lo, hi) ==
  /\ w \in Seq(Octet) /\ \E c \in Half : IsWrite(w, raw, i, c)
  /\ Verifies(slice(w, lo, hi))

\* A checksum over the bytes from lo to hi, written at i.
LEMMA CheckedSlice ==
  ASSUME NEW raw \in Seq(Octet), NEW i \in Nat, NEW lo \in Nat, NEW hi \in Nat,
         lo <= i, i + 2 <= hi, hi <= Len(raw), (i - lo) % 2 = 0
  PROVE  IsChecked(write_u16(raw, i, checksum(slice(write_u16(raw, i, 0), lo, hi))), raw, i, lo, hi)
<1>. DEFINE s == slice(raw, lo, hi)
            j == i - lo
            c == checksum(slice(write_u16(raw, i, 0), lo, hi))
            w == write_u16(raw, i, c)
<1>0. j \in Nat /\ j % 2 = 0 /\ j + 2 <= hi - lo /\ lo <= hi /\ i + 2 <= Len(raw)
  OBVIOUS
<1>1. 0 \in Half
  BY DEF Half
<1>2. IsSlice(s, raw, lo, hi)
  BY <1>0, Sliced
<1>3. s \in Seq(Octet) /\ Len(s) = hi - lo
  BY <1>2 DEF IsSlice
<1>4. slice(write_u16(raw, i, 0), lo, hi) = write_u16(s, j, 0)
  BY <1>1, SliceWritten
<1>5. c = complement(sum16(write_u16(s, j, 0)))
  BY <1>4 DEF checksum
<1>. HIDE DEF s, j, c
<1>6. sum16(write_u16(s, j, 0)) \in Nat
  <2>1. IsWrite(write_u16(s, j, 0), s, j, 0)
    BY <1>0, <1>1, <1>3, Written
  <2>2. write_u16(s, j, 0) \in Seq(Octet)
    BY <2>1 DEF IsWrite
  <2>. QED
    BY <2>2, SumTyped
<1>7. c \in Half
  BY <1>5, <1>6, Complemented
<1>8. slice(w, lo, hi) = write_u16(s, j, c)
  BY <1>7, SliceWritten DEF s, j
<1>9. Verifies(write_u16(s, j, c))
  BY <1>0, <1>3, <1>5, ChecksumVerifies
<1>10. IsWrite(w, raw, i, c)
  BY <1>0, <1>7, Written
<1>11. w \in Seq(Octet)
  <2>. HIDE DEF w
  <2>. QED
    BY <1>10 DEF IsWrite
<1>12. IsChecked(w, raw, i, lo, hi)
  <2>. HIDE DEF w
  <2>. QED
    BY <1>7, <1>8, <1>9, <1>10, <1>11 DEF IsChecked
<1>. QED
  BY <1>12 DEF w, c

\* What DeviceAccepts asks of a packet.
Accepted(raw) ==
  /\ LengthsAgree(raw) /\ TransportSound(raw)
  /\ raw[1] \div 16 = 4 => Verifies(slice(raw, 0, ihl(raw)))

\* with_header_checksum() leaves a header that verifies.
LEMMA HeaderChecked ==
  ASSUME NEW raw \in Seq(Octet), NEW h \in Nat, h % 2 = 0, 20 <= h, h <= Len(raw)
  PROVE  IsChecked(with_header_checksum(raw, h), raw, 10, 0, h)
<1>1. 10 \in Nat /\ 0 \in Nat /\ 0 <= 10 /\ 10 + 2 <= h /\ (10 - 0) % 2 = 0
  OBVIOUS
<1>2. IsChecked(write_u16(raw, 10, checksum(slice(write_u16(raw, 10, 0), 0, h))), raw, 10, 0, h)
  BY <1>1, CheckedSlice
<1>. QED
  BY <1>2 DEF with_header_checksum

\* with_icmp_checksum() leaves a message that verifies.
LEMMA IcmpChecked ==
  ASSUME NEW raw \in Seq(Octet), NEW h \in Nat, 20 <= h, h + 4 <= Len(raw)
  PROVE  IsChecked(with_icmp_checksum(raw, h), raw, h + 2, h, Len(raw))
<1>1. h + 2 \in Nat /\ h <= h + 2 /\ (h + 2) + 2 <= Len(raw) /\ ((h + 2) - h) % 2 = 0 /\ Len(raw) \in Nat /\ Len(raw) <= Len(raw)
  OBVIOUS
<1>2. IsChecked(write_u16(raw, h + 2, checksum(slice(write_u16(raw, h + 2, 0), h, Len(raw)))), raw, h + 2, h, Len(raw))
  BY <1>1, CheckedSlice
<1>. QED
  BY <1>2 DEF with_icmp_checksum

\* What AnswersMatch asks of an answer, and of what it answers.
Matches(raw, to) ==
  LET quote == slice(raw, 28, Len(raw))
  IN  /\ slice(raw, 12, 20) = slice(to, 16, 20) \o slice(to, 12, 16)
      /\ CASE protocol(to) = 1 ->
                /\ raw[ihl(raw) + 1] = 0
                /\ slice(raw, ihl(raw) + 4, Len(raw)) = slice(to, ihl(to) + 4, Len(to))
           [] OTHER ->
                /\ slice(raw, 20, 22) = <<3, 3>>
                /\ slice(quote, 9, 10) = slice(to, 9, 10)
                /\ slice(quote, 12, 20) = slice(to, 12, 20)
                /\ slice(quote, ihl(quote), ihl(quote) + 4) = slice(to, ihl(to), ihl(to) + 4)

SameAt(a, i, b, j, n) == \A k \in 1 .. n : a[i + k] = b[j + k]

\* Equal bytes at two places.
LEMMA SameSlices ==
  ASSUME NEW a \in Seq(Octet), NEW b \in Seq(Octet), NEW i \in Nat, NEW j \in Nat, NEW n \in Nat,
         i + n <= Len(a), j + n <= Len(b), SameAt(a, i, b, j, n)
  PROVE  slice(a, i, i + n) = slice(b, j, j + n)
<1>. DEFINE s == slice(a, i, i + n)
            t == slice(b, j, j + n)
<1>0. i + n \in Nat /\ i <= i + n /\ j + n \in Nat /\ j <= j + n /\ (i + n) - i = n /\ (j + n) - j = n
  OBVIOUS
<1>1. IsSlice(s, a, i, i + n) /\ IsSlice(t, b, j, j + n)
  BY <1>0, Sliced
<1>. HIDE DEF s, t
<1>2. /\ s \in Seq(Octet) /\ Len(s) = n /\ \A k \in 1 .. n : s[k] = a[i + k]
      /\ t \in Seq(Octet) /\ Len(t) = n /\ \A k \in 1 .. n : t[k] = b[j + k]
  BY <1>0, <1>1 DEF IsSlice
<1>3. Same(s, t)
  BY <1>2 DEF Same, SameAt
<1>4. s = t
  BY <1>2, <1>3, SameBytes
<1>. QED
  BY <1>4 DEF s, t

Crossed(w, raw) == \A k \in 1 .. 4 : w[12 + k] = raw[16 + k] /\ w[16 + k] = raw[12 + k]

\* The eight bytes of two addresses, the other way round.
LEMMA SwappedAddresses ==
  ASSUME NEW w \in Seq(Octet), NEW raw \in Seq(Octet), 20 <= Len(w), 20 <= Len(raw),
         Crossed(w, raw)
  PROVE  slice(w, 12, 20) = slice(raw, 16, 20) \o slice(raw, 12, 16)
<1>. DEFINE a == slice(raw, 16, 20)
            b == slice(raw, 12, 16)
            s == slice(w, 12, 20)
            t == a \o b
<1>1. IsSlice(a, raw, 16, 20) /\ IsSlice(b, raw, 12, 16) /\ IsSlice(s, w, 12, 20)
  BY Sliced
<1>2. a \in Seq(Octet) /\ b \in Seq(Octet)
  BY <1>1 DEF IsSlice
<1>3. IsJoin(t, a, b)
  BY <1>2, Joined
<1>. HIDE DEF a, b, s, t
<1>4. /\ Len(a) = 4 /\ \A k \in 1 .. 4 : a[k] = raw[16 + k]
      /\ Len(b) = 4 /\ \A k \in 1 .. 4 : b[k] = raw[12 + k]
      /\ s \in Seq(Octet) /\ Len(s) = 8 /\ \A k \in 1 .. 8 : s[k] = w[12 + k]
  <2>1. 20 - 16 = 4 /\ 16 - 12 = 4 /\ 20 - 12 = 8
    OBVIOUS
  <2>. QED
    BY <1>1, <2>1 DEF IsSlice
<1>5. /\ t \in Seq(Octet) /\ Len(t) = 8 /\ \A k \in 1 .. 4 : t[k] = a[k]
      /\ \A k \in 1 .. 4 : t[4 + k] = b[k]
  BY <1>3, <1>4 DEF IsJoin
<1>6. ASSUME NEW k \in 1 .. 8 PROVE s[k] = t[k]
  <2>1. CASE k <= 4
    <3>1. k \in 1 .. 4
      BY <2>1
    <3>2. w[12 + k] = raw[16 + k]
      BY <3>1 DEF Crossed
    <3>. QED
      BY <1>4, <1>5, <3>1, <3>2
  <2>2. CASE k > 4
    <3>. DEFINE j == k - 4
    <3>1. j \in 1 .. 4 /\ 4 + j = k /\ 12 + k = 16 + j
      BY <2>2
    <3>. HIDE DEF j
    <3>2. w[16 + j] = raw[12 + j]
      BY <3>1 DEF Crossed
    <3>3. t[4 + j] = raw[12 + j]
      BY <1>4, <1>5, <3>1
    <3>4. s[k] = w[12 + k]
      BY <1>4
    <3>. QED
      BY <3>1, <3>2, <3>3, <3>4
  <2>. QED
    BY <2>1, <2>2
<1>7. Same(s, t)
  BY <1>4, <1>5, <1>6 DEF Same
<1>8. s = t
  BY <1>4, <1>5, <1>7, SameBytes
<1>. QED
  BY <1>8 DEF s, t, a, b

\* build_echo_reply(): the device accepts it, and it is the answer to the request.
LEMMA EchoAnswer ==
  ASSUME NEW raw, WholePacket(raw), build_echo_reply(raw) # << >>
  PROVE  Accepted(build_echo_reply(raw)[1]) /\ Matches(build_echo_reply(raw)[1], raw)
<1>. DEFINE h == 4 * (raw[1] % 16)
            r == swapped(raw, 12, 4)
            q == [r EXCEPT ![h + 1] = 0]
            u == with_icmp_checksum(q, h)
            w == with_header_checksum(u, h)
<1>0. /\ raw \in Seq(Octet) /\ Len(raw) \in Nat /\ LengthsAgree(raw)
  BY DEF WholePacket
<1>1. /\ 28 <= Len(raw) /\ raw[1] \div 16 = 4 /\ 20 <= h /\ h + 8 <= Len(raw) /\ raw[10] = 1
      /\ build_echo_reply(raw) = <<w>>
  <2>0. read_u16(raw, 2) = Len(raw) \/ raw[1] \div 16 # 4
    BY <1>0 DEF LengthsAgree
  <2>1. ~(Len(raw) < 28 \/ raw[1] \div 16 # 4 \/ h < 20 \/ Len(raw) < h + 8
         \/ raw[10] # 1 \/ raw[h + 1] # 8 \/ read_u16(raw, 2) > Len(raw) \/ read_u16(raw, 2) < h + 8)
    BY DEF build_echo_reply
  <2>2. slice(raw, 0, read_u16(raw, 2)) = raw
    BY <1>0, <2>0, <2>1, WholeSlice
  <2>3. build_echo_reply(raw) = <<w>>
    BY <2>1, <2>2 DEF build_echo_reply
  <2>4. raw[1] \in Nat /\ h \in Nat
    <3>1. 1 \in 1 .. Len(raw)
      BY <1>0, <2>1
    <3>2. raw[1] \in Nat
      BY <1>0, <3>1, ByteAt
    <3>. QED
      BY <3>2
  <2>. HIDE DEF h
  <2>. QED
    BY <1>0, <2>1, <2>3, <2>4
<1>2. h \in Nat /\ h % 2 = 0
  <2>1. 1 \in 1 .. Len(raw)
    BY <1>0, <1>1
  <2>2. raw[1] \in Nat
    BY <1>0, <2>1, ByteAt
  <2>. QED
    BY <2>2
<1>3. build_echo_reply(raw)[1] = w
  BY <1>1
<1>4. ihl(raw) = h /\ protocol(raw) = 1
  BY <1>1 DEF ihl, protocol
<1>. HIDE DEF h
<1>5. IsSwap(r, raw, 12, 4)
  BY <1>0, <1>1, Swapped
<1>. HIDE DEF r
<1>6. /\ q \in Seq(Octet) /\ Len(q) = Len(raw) /\ q[h + 1] = 0
      /\ \A k \in 1 .. Len(raw) : k # h + 1 => q[k] = r[k]
  <2>1. r \in Seq(Octet) /\ Len(r) = Len(raw) /\ 0 \in Octet /\ h + 1 \in 1 .. Len(raw)
    BY <1>0, <1>1, <1>2, <1>5 DEF IsSwap, Octet
  <2>. QED
    BY <2>1
<1>. HIDE DEF q
<1>7. IsChecked(u, q, h + 2, h, Len(q))
  BY <1>0, <1>1, <1>2, <1>6, IcmpChecked
<1>7a. u \in Seq(Octet)
  BY <1>7 DEF IsChecked
<1>. HIDE DEF u
<1>8. PICK c \in Half : IsWrite(u, q, h + 2, c)
  BY <1>7 DEF IsChecked
<1>9. Len(u) = Len(raw)
  BY <1>6, <1>8 DEF IsWrite
<1>10. IsChecked(w, u, 10, 0, h)
  BY <1>0, <1>1, <1>2, <1>7a, <1>9, HeaderChecked
<1>. HIDE DEF w
<1>11. w \in Seq(Octet) /\ Verifies(slice(w, 0, h))
  BY <1>10 DEF IsChecked
<1>12. PICK e \in Half : IsWrite(w, u, 10, e)
  BY <1>10 DEF IsChecked
<1>13. Len(w) = Len(raw) /\ \A k \in 1 .. Len(raw) : k # 11 /\ k # 12 => w[k] = u[k]
  BY <1>9, <1>12 DEF IsWrite
<1>14. \A k \in 1 .. Len(raw) : k # h + 3 /\ k # h + 4 => u[k] = q[k]
  <2>1. (h + 2) + 1 = h + 3 /\ (h + 2) + 2 = h + 4
    BY <1>2
  <2>. QED
    BY <1>6, <1>8, <2>1 DEF IsWrite
<1>15. w[h + 1] = 0
  BY <1>0, <1>1, <1>2, <1>6, <1>13, <1>14
<1>16. ASSUME NEW k \in 1 .. Len(raw), k # 11, k # 12, k # h + 1, k # h + 3, k # h + 4
       PROVE  w[k] = r[k]
  BY <1>6, <1>13, <1>14, <1>16
<1>17. w[1] = raw[1] /\ w[3] = raw[3] /\ w[4] = raw[4] /\ w[10] = raw[10]
  <2>1. ASSUME NEW k \in 1 .. 10 PROVE w[k] = raw[k]
    <3>1. k \in 1 .. Len(raw) /\ k \in 1 .. 12 /\ k # 11 /\ k # 12 /\ k # h + 1 /\ k # h + 3 /\ k # h + 4
      BY <1>0, <1>1, <1>2
    <3>. QED
      BY <1>5, <1>16, <3>1 DEF IsSwap
  <2>. QED
    BY <2>1
<1>18. slice(w, 12, 20) = slice(raw, 16, 20) \o slice(raw, 12, 16)
  <2>1. ASSUME NEW k \in 1 .. 4 PROVE w[12 + k] = raw[16 + k] /\ w[16 + k] = raw[12 + k]
    <3>1. /\ 12 + k \in 1 .. Len(raw) /\ 12 + k # 11 /\ 12 + k # 12 /\ 12 + k # h + 1 /\ 12 + k # h + 3 /\ 12 + k # h + 4
          /\ 16 + k \in 1 .. Len(raw) /\ 16 + k # 11 /\ 16 + k # 12 /\ 16 + k # h + 1 /\ 16 + k # h + 3 /\ 16 + k # h + 4
      BY <1>0, <1>1, <1>2
    <3>2. r[12 + k] = raw[(12 + 4) + k] /\ r[(12 + 4) + k] = raw[12 + k]
      BY <1>5 DEF IsSwap
    <3>3. (12 + 4) + k = 16 + k
      OBVIOUS
    <3>. QED
      BY <1>16, <3>1, <3>2, <3>3
  <2>2. Crossed(w, raw)
    BY <2>1 DEF Crossed
  <2>3. 20 <= Len(w) /\ 20 <= Len(raw)
    BY <1>0, <1>1, <1>13
  <2>. QED
    BY <1>0, <1>11, <2>2, <2>3, SwappedAddresses
<1>19. slice(w, h + 4, Len(w)) = slice(raw, h + 4, Len(raw))
  <2>. DEFINE n == Len(raw) - (h + 4)
              i == h + 4
  <2>1. n \in Nat /\ i \in Nat /\ i + n = Len(raw)
    BY <1>0, <1>1, <1>2
  <2>2. ASSUME NEW k \in 1 .. n PROVE w[i + k] = raw[i + k]
    <3>1. i + k \in 1 .. Len(raw) /\ i + k # 11 /\ i + k # 12 /\ i + k # h + 1 /\ i + k # h + 3 /\ i + k # h + 4
          /\ i + k > 12 + 2 * 4
      BY <1>0, <1>1, <1>2
    <3>. HIDE DEF i, n
    <3>2. r[i + k] = raw[i + k]
      BY <1>5, <3>1 DEF IsSwap
    <3>. QED
      BY <1>16, <3>1, <3>2
  <2>. HIDE DEF n, i
  <2>2a. SameAt(w, i, raw, i, n) /\ i + n <= Len(w) /\ i + n <= Len(raw)
    BY <1>0, <1>13, <2>1, <2>2 DEF SameAt
  <2>3. slice(w, i, i + n) = slice(raw, i, i + n)
    BY <1>0, <1>11, <2>1, <2>2a, SameSlices
  <2>. QED
    BY <1>13, <2>1, <2>3 DEF i
<1>20. ihl(w) = h /\ protocol(w) = 1 /\ w[1] \div 16 = 4
  BY <1>1, <1>4, <1>17 DEF ihl, protocol
<1>21. LengthsAgree(w)
  BY <1>0, <1>1, <1>13, <1>17 DEF LengthsAgree, read_u16
<1>22. Verifies(slice(w, h, Len(w)))
  <2>1. slice(w, h, Len(raw)) = slice(u, h, Len(raw))
    <3>1. 10 \in Nat /\ h <= Len(raw) /\ Len(raw) <= Len(u) /\ 10 + 2 <= h
      BY <1>0, <1>1, <1>2, <1>9
    <3>. QED
      BY <1>0, <1>2, <1>7a, <1>12, <3>1, SliceKeeps
  <2>. QED
    BY <1>6, <1>7, <1>13, <2>1 DEF IsChecked
<1>23. Accepted(w)
  BY <1>11, <1>20, <1>21, <1>22 DEF Accepted, TransportSound
<1>24. Matches(w, raw)
  BY <1>4, <1>15, <1>18, <1>19, <1>20 DEF Matches
<1>. QED
  BY <1>3, <1>23, <1>24

\* Min of two numbers.
LEMMA SmallerOf ==
  ASSUME NEW a \in Nat, NEW b \in Nat, b <= a
  PROVE  Min({a, b}) = b
<1>1. b \in {a, b} /\ \A y \in {a, b} : b <= y
  OBVIOUS
<1>2. \A x \in {a, b} : (\A y \in {a, b} : x <= y) => x = b
  OBVIOUS
<1>. QED
  BY <1>1, <1>2 DEF Min

\* The twelve bytes in front of the addresses of an unreachable message.
front(n) == <<69, 0, 0, 28 + n, 0, 0, 0, 0, 64, 1, 0, 0>>
icmpUnreachable == <<3, 3, 0, 0, 0, 0, 0, 0>>

IsUnreachable(m, raw, n) ==
  /\ m \in Seq(Octet) /\ Len(m) = 28 + n
  /\ m[1] = 69 /\ m[3] = 0 /\ m[4] = 28 + n /\ m[10] = 1 /\ m[21] = 3 /\ m[22] = 3
  /\ Crossed(m, raw) /\ SameAt(m, 28, raw, 0, n)

\* The bytes of a port-unreachable packet before its checksums.
LEMMA Unreachable ==
  ASSUME NEW raw \in Seq(Octet), NEW n \in Nat, n <= Len(raw), 20 <= n, n <= 68
  PROVE  IsUnreachable((front(n) \o slice(raw, 16, 20) \o slice(raw, 12, 16)) \o icmpUnreachable
                         \o slice(raw, 0, n), raw, n)
<1>. DEFINE f == front(n)
            a == slice(raw, 16, 20)
            b == slice(raw, 12, 16)
            i == icmpUnreachable
            q == slice(raw, 0, n)
            fa == f \o a
            fab == fa \o b
            fabi == fab \o i
            m == fabi \o q
<1>1. /\ f \in Seq(Octet) /\ Len(f) = 12 /\ f[1] = 69 /\ f[3] = 0 /\ f[4] = 28 + n /\ f[10] = 1
      /\ i \in Seq(Octet) /\ Len(i) = 8 /\ i[1] = 3 /\ i[2] = 3
  <2>1. 69 \in Octet /\ 0 \in Octet /\ 28 + n \in Octet /\ 64 \in Octet /\ 1 \in Octet /\ 3 \in Octet
    BY DEF Octet
  <2>2. f \in Seq(Octet) /\ i \in Seq(Octet)
    BY <2>1 DEF front, icmpUnreachable
  <2>. QED
    BY <2>2 DEF front, icmpUnreachable
<1>2. IsSlice(a, raw, 16, 20) /\ IsSlice(b, raw, 12, 16) /\ IsSlice(q, raw, 0, n)
  BY Sliced
<1>. HIDE DEF f, a, b, i, q
<1>3. /\ a \in Seq(Octet) /\ Len(a) = 4 /\ \A k \in 1 .. 4 : a[k] = raw[16 + k]
      /\ b \in Seq(Octet) /\ Len(b) = 4 /\ \A k \in 1 .. 4 : b[k] = raw[12 + k]
      /\ q \in Seq(Octet) /\ Len(q) = n /\ \A k \in 1 .. n : q[k] = raw[0 + k]
  <2>1. 20 - 16 = 4 /\ 16 - 12 = 4 /\ n - 0 = n
    OBVIOUS
  <2>. QED
    BY <1>2, <2>1 DEF IsSlice
<1>4. IsJoin(fa, f, a)
  BY <1>1, <1>3, Joined
<1>. HIDE DEF fa
<1>5. /\ fa \in Seq(Octet) /\ Len(fa) = 16 /\ \A k \in 1 .. 12 : fa[k] = f[k]
      /\ \A k \in 1 .. 4 : fa[12 + k] = a[k]
  BY <1>1, <1>3, <1>4 DEF IsJoin
<1>6. IsJoin(fab, fa, b)
  BY <1>3, <1>5, Joined
<1>. HIDE DEF fab
<1>7. /\ fab \in Seq(Octet) /\ Len(fab) = 20 /\ \A k \in 1 .. 16 : fab[k] = fa[k]
      /\ \A k \in 1 .. 4 : fab[16 + k] = b[k]
  BY <1>3, <1>5, <1>6 DEF IsJoin
<1>8. IsJoin(fabi, fab, i)
  BY <1>1, <1>7, Joined
<1>. HIDE DEF fabi
<1>9. /\ fabi \in Seq(Octet) /\ Len(fabi) = 28 /\ \A k \in 1 .. 20 : fabi[k] = fab[k]
      /\ \A k \in 1 .. 8 : fabi[20 + k] = i[k]
  BY <1>1, <1>7, <1>8 DEF IsJoin
<1>10. IsJoin(m, fabi, q)
  BY <1>3, <1>9, Joined
<1>. HIDE DEF m
<1>11. /\ m \in Seq(Octet) /\ Len(m) = 28 + n /\ \A k \in 1 .. 28 : m[k] = fabi[k]
       /\ \A k \in 1 .. n : m[28 + k] = q[k]
  BY <1>3, <1>9, <1>10 DEF IsJoin
<1>12. ASSUME NEW k \in 1 .. 12 PROVE m[k] = f[k]
  <2>1. k \in 1 .. 16 /\ k \in 1 .. 20 /\ k \in 1 .. 28
    OBVIOUS
  <2>2. m[k] = fabi[k] /\ fabi[k] = fab[k]
    BY <1>9, <1>11, <2>1
  <2>3. fab[k] = fa[k] /\ fa[k] = f[k]
    BY <1>5, <1>7, <2>1
  <2>. QED
    BY <2>2, <2>3
<1>13. m[1] = 69 /\ m[3] = 0 /\ m[4] = 28 + n /\ m[10] = 1
  <2>1. 1 \in 1 .. 12 /\ 3 \in 1 .. 12 /\ 4 \in 1 .. 12 /\ 10 \in 1 .. 12
    OBVIOUS
  <2>. QED
    BY <1>1, <1>12, <2>1
<1>14. m[21] = 3 /\ m[22] = 3
  <2>1. 1 \in 1 .. 8 /\ 2 \in 1 .. 8 /\ 20 + 1 = 21 /\ 20 + 2 = 22 /\ 21 \in 1 .. 28 /\ 22 \in 1 .. 28
    OBVIOUS
  <2>2. fabi[20 + 1] = i[1] /\ fabi[20 + 2] = i[2] /\ m[21] = fabi[21] /\ m[22] = fabi[22]
    BY <1>9, <1>11, <2>1
  <2>. QED
    BY <1>1, <2>1, <2>2
<1>15. ASSUME NEW k \in 1 .. 4 PROVE m[12 + k] = raw[16 + k] /\ m[16 + k] = raw[12 + k]
  <2>1. 12 + k \in 1 .. 16 /\ 12 + k \in 1 .. 20 /\ 12 + k \in 1 .. 28 /\ 16 + k \in 1 .. 20 /\ 16 + k \in 1 .. 28
    OBVIOUS
  <2>2. m[12 + k] = fab[12 + k] /\ m[16 + k] = fab[16 + k]
    BY <1>9, <1>11, <2>1
  <2>3. fab[12 + k] = a[k] /\ fab[16 + k] = b[k]
    BY <1>5, <1>7, <2>1
  <2>. QED
    BY <1>3, <2>2, <2>3
<1>16. Crossed(m, raw)
  BY <1>15 DEF Crossed
<1>17. SameAt(m, 28, raw, 0, n)
  BY <1>3, <1>11 DEF SameAt
<1>18. IsUnreachable(m, raw, n)
  BY <1>11, <1>13, <1>14, <1>16, <1>17 DEF IsUnreachable
<1>. QED
  BY <1>18 DEF m, fabi, fab, fa, f, a, b, i, q

\* build_port_unreachable(): the device accepts it, and it quotes the datagram.
LEMMA UnreachableAnswer ==
  ASSUME NEW raw, WholePacket(raw), is_quic(IpPacket(raw)),
         build_port_unreachable(IpPacket(raw)) # << >>
  PROVE  /\ Accepted(build_port_unreachable(IpPacket(raw))[1])
         /\ Matches(build_port_unreachable(IpPacket(raw))[1], raw)
<1>. DEFINE p == IpPacket(raw)
            h == 4 * (raw[1] % 16)
            n == h + 8
            m == (front(n) \o slice(raw, 16, 20) \o slice(raw, 12, 16)) \o icmpUnreachable \o slice(raw, 0, n)
            u == with_header_checksum(m, 20)
            w == with_icmp_checksum(u, 20)
<1>0. /\ raw \in Seq(Octet) /\ Len(raw) \in Nat /\ 20 <= Len(raw)
  BY PacketizerAssumption DEF WholePacket
<1>1. ParsedWhole(raw)
  BY WholeParsed
<1>2. p.data.version = 4 /\ raw[1] \div 16 = 4 /\ p.raw = raw /\ p.data = Ipv4HeaderData(raw) /\ p.data.header_length = h
  <2>1. p.data.version = 4
    BY DEF build_port_unreachable
  <2>. QED
    BY <1>1, <2>1 DEF ParsedWhole
<1>3. raw[10] = 17
  <2>1. p.data.protocol = "Udp"
    BY DEF is_quic
  <2>2. p.data.protocol = ProtocolV4(raw[10])
    BY <1>2 DEF Ipv4HeaderData
  <2>. QED
    BY <2>1, <2>2 DEF ProtocolV4
<1>4. ihl(raw) = h /\ protocol(raw) = 17 /\ ihl(raw) + 8 <= Len(raw) /\ 20 <= ihl(raw)
  <2>1. ihl(raw) = h /\ protocol(raw) = 17
    BY <1>2, <1>3 DEF ihl, protocol
  <2>. QED
    BY <1>0, <2>1 DEF WholePacket
<1>5. h \in Nat /\ h <= 60 /\ h % 2 = 0
  <2>1. 1 \in 1 .. Len(raw)
    BY <1>0
  <2>2. raw[1] \in Nat
    BY <1>0, <2>1, ByteAt
  <2>. QED
    BY <2>2
<1>. HIDE DEF h
<1>6. n \in Nat /\ n <= Len(raw) /\ 28 <= n /\ n <= 68 /\ n = h + 8
  BY <1>0, <1>4, <1>5
<1>7. quoted(p) = slice(raw, 0, n) /\ Len(slice(raw, 0, n)) = n
  <2>1. Min({Len(raw), h + 8}) = n
    BY <1>0, <1>6, SmallerOf
  <2>2. IsSlice(slice(raw, 0, n), raw, 0, n)
    BY <1>0, <1>6, Sliced
  <2>. QED
    BY <1>2, <1>6, <2>1, <2>2 DEF quoted, IsSlice
<1>8. build_port_unreachable(p) = <<w>>
  <2>1. ~(p.data.version # 4 \/ Len(p.raw) < p.data.header_length)
    BY DEF build_port_unreachable
  <2>. QED
    BY <1>2, <1>7, <2>1 DEF build_port_unreachable, front, icmpUnreachable
<1>9. build_port_unreachable(p)[1] = w
  BY <1>8
<1>10. IsUnreachable(m, raw, n)
  BY <1>0, <1>6, Unreachable
<1>. HIDE DEF p, n, m
<1>11. m \in Seq(Octet) /\ Len(m) = 28 + n
  BY <1>10 DEF IsUnreachable
<1>12. IsChecked(u, m, 10, 0, 20)
  BY <1>6, <1>11, HeaderChecked
<1>. HIDE DEF u
<1>13. u \in Seq(Octet) /\ Verifies(slice(u, 0, 20))
  BY <1>12 DEF IsChecked
<1>14. PICK c \in Half : IsWrite(u, m, 10, c)
  BY <1>12 DEF IsChecked
<1>15. Len(u) = 28 + n /\ \A k \in 1 .. (28 + n) : k # 11 /\ k # 12 => u[k] = m[k]
  BY <1>11, <1>14 DEF IsWrite
<1>16. IsChecked(w, u, 20 + 2, 20, Len(u))
  BY <1>6, <1>13, <1>15, IcmpChecked
<1>. HIDE DEF w
<1>17. w \in Seq(Octet) /\ Verifies(slice(w, 20, Len(u)))
  BY <1>16 DEF IsChecked
<1>18. PICK e \in Half : IsWrite(w, u, 20 + 2, e)
  BY <1>16 DEF IsChecked
<1>19. Len(w) = 28 + n /\ \A k \in 1 .. (28 + n) : k # 23 /\ k # 24 => w[k] = u[k]
  <2>1. (20 + 2) + 1 = 23 /\ (20 + 2) + 2 = 24
    OBVIOUS
  <2>. QED
    BY <1>15, <1>18, <2>1 DEF IsWrite
<1>20. ASSUME NEW k \in 1 .. (28 + n), k # 11, k # 12, k # 23, k # 24 PROVE w[k] = m[k]
  BY <1>15, <1>19, <1>20
<1>21. w[1] = 69 /\ w[3] = 0 /\ w[4] = 28 + n /\ w[10] = 1 /\ w[21] = 3 /\ w[22] = 3
  <2>1. 1 \in 1 .. (28 + n) /\ 3 \in 1 .. (28 + n) /\ 4 \in 1 .. (28 + n) /\ 10 \in 1 .. (28 + n)
        /\ 21 \in 1 .. (28 + n) /\ 22 \in 1 .. (28 + n)
    BY <1>6
  <2>2. w[1] = m[1] /\ w[3] = m[3] /\ w[4] = m[4] /\ w[10] = m[10] /\ w[21] = m[21] /\ w[22] = m[22]
    BY <1>20, <2>1
  <2>. QED
    BY <1>10, <2>2 DEF IsUnreachable
<1>22. ihl(w) = 20 /\ protocol(w) = 1 /\ w[1] \div 16 = 4
  BY <1>21 DEF ihl, protocol
<1>23. LengthsAgree(w)
  BY <1>6, <1>19, <1>21, <1>22 DEF LengthsAgree, read_u16
<1>24. slice(w, 0, 20) = slice(u, 0, 20)
  BY <1>6, <1>13, <1>15, <1>18, SliceKeeps
<1>25. Accepted(w)
  BY <1>13, <1>15, <1>17, <1>19, <1>22, <1>23, <1>24 DEF Accepted, TransportSound
<1>26. slice(w, 12, 20) = slice(raw, 16, 20) \o slice(raw, 12, 16)
  <2>1. Crossed(w, raw)
    <3>1. ASSUME NEW k \in 1 .. 4 PROVE w[12 + k] = raw[16 + k] /\ w[16 + k] = raw[12 + k]
      <4>1. /\ 12 + k \in 1 .. (28 + n) /\ 12 + k # 11 /\ 12 + k # 12 /\ 12 + k # 23 /\ 12 + k # 24
            /\ 16 + k \in 1 .. (28 + n) /\ 16 + k # 11 /\ 16 + k # 12 /\ 16 + k # 23 /\ 16 + k # 24
        BY <1>6
      <4>2. w[12 + k] = m[12 + k] /\ w[16 + k] = m[16 + k]
        BY <1>20, <4>1
      <4>. QED
        BY <1>10, <4>2 DEF IsUnreachable, Crossed
    <3>. QED
      BY <3>1 DEF Crossed
  <2>2. 20 <= Len(w)
    BY <1>6, <1>19
  <2>. QED
    BY <1>0, <1>17, <2>1, <2>2, SwappedAddresses
<1>27. slice(w, 20, 22) = <<3, 3>>
  <2>1. IsSlice(slice(w, 20, 22), w, 20, 22)
    BY <1>6, <1>17, <1>19, Sliced
  <2>. DEFINE s == slice(w, 20, 22)
              t == <<3, 3>>
  <2>2. t \in Seq(Octet) /\ Len(t) = 2 /\ t[1] = 3 /\ t[2] = 3
    <3>1. 3 \in Octet
      BY DEF Octet
    <3>. QED
      BY <3>1
  <2>. HIDE DEF s, t
  <2>3. s \in Seq(Octet) /\ Len(s) = 2 /\ s[1] = w[20 + 1] /\ s[2] = w[20 + 2]
    <3>1. s \in Seq(Octet) /\ Len(s) = 22 - 20 /\ \A k \in 1 .. (22 - 20) : s[k] = w[20 + k]
      BY <2>1 DEF IsSlice, s
    <3>. QED
      BY <3>1
  <2>4. Same(s, t)
    BY <1>21, <2>2, <2>3 DEF Same
  <2>5. s = t
    BY <2>2, <2>3, <2>4, SameBytes
  <2>. QED
    BY <2>5 DEF s, t
<1>. DEFINE g == slice(w, 28, Len(w))
<1>28. g = slice(raw, 0, 0 + n)
  <2>1. SameAt(w, 28, raw, 0, n)
    <3>1. ASSUME NEW k \in 1 .. n PROVE w[28 + k] = raw[0 + k]
      <4>1. 28 + k \in 1 .. (28 + n) /\ 28 + k # 11 /\ 28 + k # 12 /\ 28 + k # 23 /\ 28 + k # 24
        BY <1>6
      <4>. QED
        BY <1>10, <1>20, <4>1 DEF IsUnreachable, SameAt
    <3>. QED
      BY <3>1 DEF SameAt
  <2>2. slice(w, 28, 28 + n) = slice(raw, 0, 0 + n)
    <3>1. 28 + n <= Len(w) /\ 0 + n <= Len(raw) /\ 28 \in Nat /\ 0 \in Nat
      BY <1>6, <1>19
    <3>. QED
      BY <1>0, <1>6, <1>17, <2>1, <3>1, SameSlices
  <2>. QED
    BY <1>19, <2>2
<1>29. IsSlice(g, raw, 0, n)
  <2>1. IsSlice(slice(raw, 0, n), raw, 0, n)
    BY <1>0, <1>6, Sliced
  <2>2. 0 + n = n
    BY <1>6
  <2>. QED
    BY <1>28, <2>1, <2>2
<1>. HIDE DEF g
<1>30. g \in Seq(Octet) /\ Len(g) = n /\ \A k \in 1 .. n : g[k] = raw[k]
  <2>1. g \in Seq(Octet) /\ Len(g) = n - 0 /\ \A k \in 1 .. (n - 0) : g[k] = raw[0 + k]
    BY <1>29 DEF IsSlice
  <2>2. n - 0 = n /\ \A k \in 1 .. n : 0 + k = k
    BY <1>6
  <2>. QED
    BY <2>1, <2>2
<1>31. ihl(g) = h
  <2>1. g[1] = raw[1]
    BY <1>6, <1>30
  <2>. QED
    BY <1>2, <1>4, <2>1 DEF ihl
<1>32. ASSUME NEW i \in Nat, NEW l \in Nat, i + l <= n PROVE slice(g, i, i + l) = slice(raw, i, i + l)
  <2>1. SameAt(g, i, raw, i, l)
    <3>1. ASSUME NEW k \in 1 .. l PROVE g[i + k] = raw[i + k]
      <4>1. i + k \in 1 .. n
        BY <1>6, <1>32
      <4>. QED
        BY <1>30, <4>1
    <3>. QED
      BY <3>1 DEF SameAt
  <2>2. i + l <= Len(g) /\ i + l <= Len(raw)
    BY <1>0, <1>6, <1>30, <1>32
  <2>. QED
    BY <1>0, <1>30, <2>1, <2>2, SameSlices
<1>33. slice(g, 9, 10) = slice(raw, 9, 10) /\ slice(g, 12, 20) = slice(raw, 12, 20) /\ slice(g, h, h + 4) = slice(raw, h, h + 4)
  <2>1. 9 + 1 = 10 /\ 12 + 8 = 20 /\ 9 + 1 <= n /\ 12 + 8 <= n /\ h + 4 <= n
    BY <1>5, <1>6
  <2>2. slice(g, 9, 9 + 1) = slice(raw, 9, 9 + 1) /\ slice(g, 12, 12 + 8) = slice(raw, 12, 12 + 8)
        /\ slice(g, h, h + 4) = slice(raw, h, h + 4)
    BY <1>5, <1>32, <2>1
  <2>. QED
    BY <2>1, <2>2
<1>34. Matches(w, raw)
  BY <1>4, <1>26, <1>27, <1>31, <1>33 DEF Matches, g
<1>. QED
  BY <1>9, <1>25, <1>34 DEF p

\* What is sent without being asked for is an answer; what is deferred was asked for.
AnswerInv ==
  /\ sent # << >> /\ sent[1].asked = << >> => Accepted(sent[1].raw) /\ Matches(sent[1].raw, sent[1].to)
  /\ deferred # << >> => deferred[1].asked # << >>

\* What the router answers itself is right.
LEMMA AnswerSound ==
  ASSUME NEW raw \in Request, Answers(raw)
  PROVE  /\ sent' # << >> /\ sent'[1].asked = << >> /\ sent'[1].spoiled = FALSE
         /\ Accepted(sent'[1].raw) /\ Matches(sent'[1].raw, sent'[1].to)
         /\ UNCHANGED <<first, pk, deferred, overwritten>>
<1>. DEFINE p == IpPacket(raw)
            answer == CASE is_icmp_echo_request(p) -> build_echo_reply(p.raw)
                        [] is_quic(p) -> build_port_unreachable(p)
                        [] OTHER -> << >>
<1>1. WholePacket(raw) /\ ParsedWhole(raw)
  <2>1. WholePacket(raw)
    BY PacketizerAssumption
  <2>. QED
    BY <2>1, WholeParsed
<1>2. answer # << >> /\ Sends(answer[1], << >>, raw, FALSE) /\ UNCHANGED <<first, pk, deferred, overwritten>>
  BY DEF Answers
<1>3. p.raw = raw
  BY <1>1 DEF ParsedWhole
<1>4. Accepted(answer[1]) /\ Matches(answer[1], raw)
  <2>1. CASE is_icmp_echo_request(p)
    <3>1. ~is_quic(p)
      BY <2>1 DEF is_icmp_echo_request, is_quic
    <3>2. answer = build_echo_reply(raw)
      BY <1>3, <2>1, <3>1
    <3>. HIDE DEF answer, p
    <3>. QED
      BY <1>1, <1>2, <3>2, EchoAnswer
  <2>2. CASE is_quic(p)
    <3>1. ~is_icmp_echo_request(p)
      BY <2>2 DEF is_icmp_echo_request, is_quic
    <3>2. answer = build_port_unreachable(p)
      BY <2>2, <3>1
    <3>. HIDE DEF answer
    <3>. QED
      BY <1>1, <1>2, <2>2, <3>2, UnreachableAnswer
  <2>3. CASE ~is_icmp_echo_request(p) /\ ~is_quic(p)
    <3>1. answer = << >>
      BY <2>3
    <3>. HIDE DEF answer
    <3>. QED
      BY <1>2, <3>1
  <2>. QED
    BY <2>1, <2>2, <2>3
<1>. HIDE DEF answer
<1>5. sent' = <<[raw |-> answer[1], asked |-> << >>, to |-> raw, spoiled |-> FALSE]>>
  BY <1>2 DEF Sends
<1>6. sent' # << >> /\ sent'[1].raw = answer[1] /\ sent'[1].asked = << >> /\ sent'[1].to = raw /\ sent'[1].spoiled = FALSE
  BY <1>5
<1>. QED
  BY <1>2, <1>4, <1>6

\* No other step sends anything without being asked.
LEMMA AnswerStep ==
  ASSUME AnswerInv, UdpNext
  PROVE  AnswerInv'
<1>. USE DEF AnswerInv
<1>1. ASSUME NEW d \in Datagram, send_to_network(d) PROVE AnswerInv'
  BY <1>1 DEF send_to_network
<1>2. ASSUME NEW a, NEW data, NEW x, NEW y, NEW z, Sends(x, <<a, data>>, y, z), deferred' = deferred PROVE AnswerInv'
  <2>1. <<a, data>> # << >>
    OBVIOUS
  <2>2. sent'[1].asked = <<a, data>>
    BY <1>2 DEF Sends
  <2>. QED
    BY <1>2, <2>1, <2>2
<1>3. CASE poll_self
  <2>1. CASE \E data \in Data : ReadDatagram(data)
    <3>1. PICK data \in Data : ReadDatagram(data)
      BY <2>1
    <3>2. CASE sent' = << >>
      BY <3>1, <3>2 DEF ReadDatagram
    <3>3. CASE Sends(packet(pk'), <<[flags |-> 0], data>>, first, FALSE)
      BY <1>2, <3>1, <3>3 DEF ReadDatagram
    <3>. QED
      BY <3>1, <3>2, <3>3 DEF ReadDatagram
  <2>2. CASE sent' = << >> /\ UNCHANGED <<first, pk, deferred, overwritten>>
    BY <2>2
  <2>. QED
    BY <1>3, <2>1, <2>2 DEF poll_self
<1>4. CASE TcpPackets
  <2>1. CASE Flush
    <3>1. deferred # << >> /\ deferred' = << >> /\ Sends(inflate(pk, deferred[1].length), deferred[1].asked, first, overwritten)
      BY <2>1 DEF Flush
    <3>2. sent'[1].asked = deferred[1].asked
      BY <3>1 DEF Sends
    <3>. QED
      BY <3>1, <3>2
  <2>2. ASSUME NEW a \in Tcb, SendEmpty(a) PROVE AnswerInv'
    <3>1. Sends(packet(pk'), <<a, << >>>>, first, FALSE) /\ deferred' = deferred
      BY <2>2 DEF SendEmpty
    <3>. QED
      BY <1>2, <3>1
  <2>3. ASSUME NEW a \in Tcb, ReceiveNothing(a) PROVE AnswerInv'
    BY <2>3 DEF ReceiveNothing
  <2>4. ASSUME NEW a \in Tcb, NEW data \in Data, Receive(a, data) PROVE AnswerInv'
    <3>1. CASE Sends(packet(pk'), <<a, data>>, first, FALSE) /\ UNCHANGED deferred
      BY <1>2, <3>1
    <3>2. CASE deferred' = <<[length |-> total_length(pk'.ip.data), asked |-> <<a, data>>]>> /\ sent' = << >>
      <4>1. deferred'[1].asked = <<a, data>> /\ <<a, data>> # << >>
        BY <3>2
      <4>. QED
        BY <3>2, <4>1
    <3>. QED
      BY <2>4, <3>1, <3>2 DEF Receive
  <2>. QED
    BY <1>4, <2>1, <2>2, <2>3, <2>4 DEF TcpPackets
<1>5. CASE RouterAnswers
  <2>1. PICK raw \in Request : Answers(raw)
    BY <1>5 DEF RouterAnswers
  <2>. QED
    BY <2>1, AnswerSound
<1>. QED
  BY <1>1, <1>3, <1>4, <1>5 DEF UdpNext

\* AnswersMatch for every behaviour and every request of the device (build_echo_reply(),
\* build_port_unreachable() of icmp_handler.rs): the device can tell what an answer is about.
THEOREM AnswersFit == UdpSpec => []AnswersMatch
<1>1. UdpInit => AnswerInv
  BY DEF UdpInit, PacketInit, AnswerInv
<1>2. AnswerInv /\ [UdpNext]_udpVars => AnswerInv'
  <2>. SUFFICES ASSUME AnswerInv, [UdpNext]_udpVars PROVE AnswerInv'
    OBVIOUS
  <2>1. CASE UdpNext
    BY <2>1, AnswerStep
  <2>2. CASE UNCHANGED udpVars
    BY <2>2 DEF udpVars, AnswerInv
  <2>. QED
    BY <2>1, <2>2
<1>3. AnswerInv => AnswersMatch
  BY DEF AnswerInv, AnswersMatch, Matches
<1>. QED
  BY <1>1, <1>2, <1>3, PTL DEF UdpSpec

-----------------------------------------------------------------------------
(* The headers of a connection's Packetizer *)

\* The length of the transport header in use: that of TCP has lost its options.
thl(f) == IF protocol(f) = 6 THEN 20 ELSE 8

Protocols == {"Icmp", "Tcp", "Udp", "Other"}

DataV4 == [version : {4}, header_length : Nat, total_length : Nat, protocol : Protocols,
           source : Half \X Half, destination : Half \X Half]
DataV6 == [version : {6}, payload_length : Nat, protocol : Protocols, hop_limit : Octet,
           source : Seq(Octet), destination : Seq(Octet)]
DataTcp == [kind : {"Tcp"}, source_port : Half, destination_port : Half,
            sequence_number : Half \X Half, acknowledgement_number : Half \X Half,
            header_length : {20}, flags : Half, window : Half]
DataUdp == [kind : {"Udp"}, source_port : Half, destination_port : Half]

CrossedV6(w, raw) == \A k \in 1 .. 16 : w[8 + k] = raw[24 + k] /\ w[24 + k] = raw[8 + k]

\* An IP header, bytes and data, in the other direction than f.
IpOk(raw, d, f) ==
  /\ raw \in Seq(Octet) /\ Len(raw) = ihl(f) /\ raw[1] = f[1]
  /\ f[1] \div 16 = 4 =>
       /\ d \in DataV4 /\ d.header_length = ihl(f) /\ raw[10] = f[10] /\ Crossed(raw, f)
       /\ d.source = read_u32(raw, 12) /\ d.destination = read_u32(raw, 16)
  /\ f[1] \div 16 = 6 =>
       /\ d \in DataV6 /\ raw[7] = f[7] /\ CrossedV6(raw, f)
       /\ d.source = slice(raw, 8, 24) /\ d.destination = slice(raw, 24, 40)

\* A transport header of the protocol of f, in the other direction.
TrOk(raw, d, f) ==
  /\ raw \in Seq(Octet) /\ Len(raw) = thl(f)
  /\ raw[1] = f[ihl(f) + 3] /\ raw[2] = f[ihl(f) + 4] /\ raw[3] = f[ihl(f) + 1] /\ raw[4] = f[ihl(f) + 2]
  /\ protocol(f) = 6 => d \in DataTcp /\ raw[13] \div 16 = 5
  /\ protocol(f) = 17 => d \in DataUdp

FirstFacts(f) ==
  /\ f \in Seq(Octet) /\ Len(f) \in Nat /\ Len(f) < U16 /\ U16 \in Nat /\ U16 <= 65536
  /\ WholePacket(f) /\ ParsedWhole(f) /\ f[1] \in Nat
  /\ ihl(f) \in Nat /\ 20 <= ihl(f) /\ ihl(f) % 2 = 0 /\ ihl(f) + thl(f) <= Len(f)
  /\ f[1] \div 16 = 4 \/ (f[1] \div 16 = 6 /\ ihl(f) = 40)
  /\ f[1] \div 16 = 4 => ihl(f) = 4 * (f[1] % 16)
  /\ (protocol(f) = 6 /\ thl(f) = 20) \/ (protocol(f) = 17 /\ thl(f) = 8)

\* What is known of a packet that opens a connection.
LEMMA FirstIs ==
  ASSUME NEW f \in FirstPacket
  PROVE  FirstFacts(f)
<1>1. WholePacket(f)
  BY PacketizerAssumption
<1>2. /\ U16 \in Nat /\ U16 <= 65536 /\ protocol(f) \in {6, 17}
  BY PacketizerAssumption
<1>3. ParsedWhole(f)
  BY <1>1, WholeParsed
<1>4. /\ f \in Seq(Octet) /\ Len(f) \in Nat /\ Len(f) < U16 /\ 20 <= Len(f)
      /\ f[1] \div 16 \in {4, 6}
  BY <1>1, <1>2 DEF WholePacket
<1>5. 1 \in 1 .. Len(f)
  BY <1>4
<1>6. f[1] \in Nat
  BY <1>4, <1>5, ByteAt
<1>7. /\ f[1] \div 16 = 4 => ihl(f) = 4 * (f[1] % 16)
      /\ f[1] \div 16 = 6 => ihl(f) = 40
  BY DEF ihl
<1>8. ihl(f) \in Nat /\ ihl(f) % 2 = 0
  BY <1>4, <1>6, <1>7
<1>9. 20 <= ihl(f)
  BY <1>1, <1>4, <1>8 DEF WholePacket
<1>10. ihl(f) + thl(f) <= Len(f)
  BY <1>1, <1>2, <1>4, <1>8 DEF WholePacket, thl
<1>11. (protocol(f) = 6 /\ thl(f) = 20) \/ (protocol(f) = 17 /\ thl(f) = 8)
  BY <1>2 DEF thl
<1>. QED
  BY <1>1, <1>2, <1>3, <1>4, <1>6, <1>7, <1>8, <1>9, <1>10, <1>11 DEF FirstFacts

\* The same bytes are the same word.
LEMMA SameWord ==
  ASSUME NEW w, NEW raw, NEW i \in Nat, w[i + 1] = raw[i + 1], w[i + 2] = raw[i + 2]
  PROVE  read_u16(w, i) = read_u16(raw, i)
BY DEF read_u16

\* Writing a length or the checksum of an IPv4 header changes nothing else.
LEMMA IpWriteV4 ==
  ASSUME NEW f, FirstFacts(f), f[1] \div 16 = 4, NEW raw, NEW d, IpOk(raw, d, f),
         NEW i \in {2, 10}, NEW v, NEW w, IsWrite(w, raw, i, v)
  PROVE  IpOk(w, d, f)
<1>0. ihl(f) \in Nat /\ 20 <= ihl(f)
  BY DEF FirstFacts
<1>1. /\ raw \in Seq(Octet) /\ Len(raw) = ihl(f) /\ raw[1] = f[1]
      /\ d \in DataV4 /\ d.header_length = ihl(f) /\ raw[10] = f[10] /\ Crossed(raw, f)
      /\ d.source = read_u32(raw, 12) /\ d.destination = read_u32(raw, 16)
  BY DEF IpOk
<1>2. /\ w \in Seq(Octet) /\ Len(w) = ihl(f)
      /\ \A k \in 1 .. ihl(f) : k # i + 1 /\ k # i + 2 => w[k] = raw[k]
  BY <1>1 DEF IsWrite
<1>3. ASSUME NEW k \in 1 .. 20, k # 3, k # 4, k # 11, k # 12 PROVE w[k] = raw[k]
  <2>1. k \in 1 .. ihl(f) /\ k # i + 1 /\ k # i + 2
    BY <1>0, <1>3
  <2>. QED
    BY <1>2, <2>1
<1>4. w[1] = f[1] /\ w[10] = f[10]
  <2>1. 1 \in 1 .. 20 /\ 10 \in 1 .. 20
    OBVIOUS
  <2>. QED
    BY <1>1, <1>3, <2>1
<1>5. ASSUME NEW k \in 1 .. 4 PROVE w[12 + k] = f[16 + k] /\ w[16 + k] = f[12 + k]
  <2>1. /\ 12 + k \in 1 .. 20 /\ 12 + k # 3 /\ 12 + k # 4 /\ 12 + k # 11 /\ 12 + k # 12
        /\ 16 + k \in 1 .. 20 /\ 16 + k # 3 /\ 16 + k # 4 /\ 16 + k # 11 /\ 16 + k # 12
    OBVIOUS
  <2>2. w[12 + k] = raw[12 + k] /\ w[16 + k] = raw[16 + k]
    BY <1>3, <2>1
  <2>. QED
    BY <1>1, <2>2 DEF Crossed
<1>6. read_u32(w, 12) = read_u32(raw, 12) /\ read_u32(w, 16) = read_u32(raw, 16)
  <2>1. w[13] = raw[13] /\ w[14] = raw[14] /\ w[15] = raw[15] /\ w[16] = raw[16]
        /\ w[17] = raw[17] /\ w[18] = raw[18] /\ w[19] = raw[19] /\ w[20] = raw[20]
    BY <1>3
  <2>. QED
    BY <2>1 DEF read_u32, read_u16
<1>7. Crossed(w, f)
  BY <1>5 DEF Crossed
<1>. QED
  BY <1>1, <1>2, <1>4, <1>6, <1>7 DEF IpOk

\* Writing the payload length of an IPv6 header changes nothing else.
LEMMA IpWriteV6 ==
  ASSUME NEW f, FirstFacts(f), f[1] \div 16 = 6, NEW raw, NEW d, IpOk(raw, d, f),
         NEW v, NEW w, IsWrite(w, raw, 4, v)
  PROVE  IpOk(w, d, f)
<1>0. ihl(f) = 40
  BY DEF FirstFacts
<1>1. /\ raw \in Seq(Octet) /\ Len(raw) = 40 /\ raw[1] = f[1]
      /\ d \in DataV6 /\ raw[7] = f[7] /\ CrossedV6(raw, f)
      /\ d.source = slice(raw, 8, 24) /\ d.destination = slice(raw, 24, 40)
  BY <1>0 DEF IpOk
<1>2. /\ w \in Seq(Octet) /\ Len(w) = 40
      /\ \A k \in 1 .. 40 : k # 5 /\ k # 6 => w[k] = raw[k]
  BY <1>1 DEF IsWrite
<1>4. w[1] = f[1] /\ w[7] = f[7]
  <2>1. 1 \in 1 .. 40 /\ 1 # 5 /\ 1 # 6 /\ 7 \in 1 .. 40 /\ 7 # 5 /\ 7 # 6
    OBVIOUS
  <2>2. w[1] = raw[1] /\ w[7] = raw[7]
    BY <1>2, <2>1
  <2>. QED
    BY <1>1, <2>2
<1>5. ASSUME NEW k \in 1 .. 16 PROVE w[8 + k] = f[24 + k] /\ w[24 + k] = f[8 + k]
  <2>1. 8 + k \in 1 .. 40 /\ 8 + k # 5 /\ 8 + k # 6 /\ 24 + k \in 1 .. 40 /\ 24 + k # 5 /\ 24 + k # 6
    OBVIOUS
  <2>2. w[8 + k] = raw[8 + k] /\ w[24 + k] = raw[24 + k]
    BY <1>2, <2>1
  <2>. QED
    BY <1>1, <2>2 DEF CrossedV6
<1>6. slice(w, 8, 24) = slice(raw, 8, 24) /\ slice(w, 24, 40) = slice(raw, 24, 40)
  <2>1. Apart(4, 8, 24, raw) /\ Apart(4, 24, 40, raw)
    BY <1>1 DEF Apart
  <2>1a. raw \in Seq(Octet)
    BY <1>1
  <2>2. slice(w, 8, 24) = slice(raw, 8, 24)
    BY <2>1, <2>1a, SliceApart
  <2>3. slice(w, 24, 40) = slice(raw, 24, 40)
    BY <2>1, <2>1a, SliceApart
  <2>. QED
    BY <2>2, <2>3
<1>7. CrossedV6(w, f)
  BY <1>5 DEF CrossedV6
<1>. QED
  BY <1>0, <1>1, <1>2, <1>4, <1>6, <1>7 DEF IpOk

\* What compute_checksums() leaves of an IP header that set_total_length() has left.
ipBuilt(i) == [raw |-> IF i.data.version = 4 THEN update_header_checksum(i.raw, i.data) ELSE i.raw,
               data |-> i.data]

IpBuilt(raw, d, f, len) ==
  /\ IpOk(raw, d, f) /\ total_length(d) = len
  /\ f[1] \div 16 = 4 => d.version = 4 /\ d.total_length = len /\ read_u16(raw, 2) = len /\ Verifies(raw)
  /\ f[1] \div 16 = 6 => d.version = 6 /\ d.payload_length = len - 40 /\ read_u16(raw, 4) = len - 40

\* set_total_length() and the header checksum of build(), IPv4.
LEMMA BuildIpV4 ==
  ASSUME NEW f, FirstFacts(f), f[1] \div 16 = 4, NEW raw, NEW d, IpOk(raw, d, f),
         NEW len \in Half, NEW i, i = set_total_length([raw |-> raw, data |-> d], len)
  PROVE  IpBuilt(ipBuilt(i).raw, ipBuilt(i).data, f, len)
<1>. DEFINE e == [d EXCEPT !.total_length = len]
            u == write_u16(raw, 2, len)
            c == complement(sum16(slice(u, 0, 10)) + sum16(slice(u, 12, Len(u))))
            w == write_u16(u, 10, c)
<1>0. /\ ihl(f) \in Nat /\ 20 <= ihl(f) /\ ihl(f) % 2 = 0
  BY DEF FirstFacts
<1>1. /\ raw \in Seq(Octet) /\ Len(raw) = ihl(f) /\ d \in DataV4 /\ d.header_length = ihl(f)
      /\ d.source = read_u32(raw, 12) /\ d.destination = read_u32(raw, 16)
      /\ raw[1] = f[1] /\ raw[10] = f[10] /\ Crossed(raw, f)
  BY DEF IpOk
<1>2. len \in Nat
  BY DEF Half
<1>3. /\ e \in DataV4 /\ e.version = 4 /\ e.total_length = len /\ e.header_length = ihl(f)
      /\ e.source = d.source /\ e.destination = d.destination /\ d.version = 4
  BY <1>1, <1>2 DEF DataV4
<1>4. i = [raw |-> u, data |-> e]
  BY <1>3 DEF set_total_length, set_total_length_v4
<1>. HIDE DEF e
<1>5. IsWrite(u, raw, 2, len)
  BY <1>0, <1>1, Written
<1>6. u \in Seq(Octet) /\ Len(u) = ihl(f)
  BY <1>1, <1>5 DEF IsWrite
<1>7. IpOk(u, d, f)
  <2>1. 2 \in {2, 10}
    OBVIOUS
  <2>. QED
    BY <1>5, <2>1, IpWriteV4
<1>. HIDE DEF u
<1>8. sum16(slice(u, 0, 10)) \in Nat /\ sum16(slice(u, 12, Len(u))) \in Nat
  <2>1. IsSlice(slice(u, 0, 10), u, 0, 10) /\ IsSlice(slice(u, 12, Len(u)), u, 12, Len(u))
    BY <1>0, <1>6, Sliced
  <2>2. slice(u, 0, 10) \in Seq(Octet) /\ slice(u, 12, Len(u)) \in Seq(Octet)
    BY <2>1 DEF IsSlice
  <2>. QED
    BY <2>2, SumTyped
<1>9. c \in Half
  BY <1>8, Complemented
<1>10. ipBuilt(i) = [raw |-> w, data |-> e]
  <2>1. ipBuilt(i) = [raw |-> update_header_checksum(u, e), data |-> e]
    BY <1>3, <1>4 DEF ipBuilt
  <2>2. update_header_checksum(u, e) = w
    BY <1>3, <1>6 DEF update_header_checksum
  <2>. QED
    BY <2>1, <2>2
<1>11. Verifies(w)
  <2>1. 10 \in Nat /\ 10 % 2 = 0 /\ 10 + 2 <= Len(u) /\ 10 + 2 = 12
    BY <1>0, <1>6
  <2>2. Verifies(write_u16(u, 10, complement(sum16(slice(u, 0, 10)) + sum16(slice(u, 10 + 2, Len(u))))))
    BY <1>6, <2>1, ChecksumVerifies
  <2>. QED
    BY <2>1, <2>2
<1>. HIDE DEF c
<1>12. IsWrite(w, u, 10, c)
  BY <1>0, <1>6, <1>9, Written
<1>. HIDE DEF w
<1>13. IpOk(w, d, f)
  <2>1. 10 \in {2, 10}
    OBVIOUS
  <2>. QED
    BY <1>7, <1>12, <2>1, IpWriteV4
<1>14. IpOk(w, e, f)
  BY <1>3, <1>13 DEF IpOk
<1>15. read_u16(w, 2) = len
  <2>1. read_u16(u, 2) = len
    BY <1>5 DEF IsWrite
  <2>2. w[2 + 1] = u[2 + 1] /\ w[2 + 2] = u[2 + 2]
    BY <1>0, <1>6, <1>12 DEF IsWrite
  <2>. QED
    BY <2>1, <2>2, SameWord
<1>16. total_length(e) = len
  BY <1>3 DEF total_length
<1>17. IpBuilt(w, e, f, len)
  BY <1>3, <1>11, <1>14, <1>15, <1>16 DEF IpBuilt
<1>. QED
  BY <1>10, <1>17

\* set_total_length() of build(), IPv6.
LEMMA BuildIpV6 ==
  ASSUME NEW f, FirstFacts(f), f[1] \div 16 = 6, NEW raw, NEW d, IpOk(raw, d, f),
         NEW len \in Half, 40 <= len, len < U16, NEW i, i = set_total_length([raw |-> raw, data |-> d], len)
  PROVE  IpBuilt(ipBuilt(i).raw, ipBuilt(i).data, f, len)
<1>. DEFINE n == len - 40
            e == [d EXCEPT !.payload_length = n]
            u == write_u16(raw, 4, n)
<1>0. ihl(f) = 40 /\ U16 \in Nat
  BY DEF FirstFacts
<1>1. /\ raw \in Seq(Octet) /\ Len(raw) = 40 /\ d \in DataV6
      /\ raw[1] = f[1] /\ raw[7] = f[7] /\ CrossedV6(raw, f)
      /\ d.source = slice(raw, 8, 24) /\ d.destination = slice(raw, 24, 40)
  BY <1>0 DEF IpOk
<1>2. len \in Nat /\ n \in Half /\ n \in Nat /\ len < 65536 /\ len = n + 40
  BY DEF Half
<1>2a. minus16(len, 40) = n
  <2>1. ((len + U16) - 40) % U16 = n
    <3>1. (len + U16) - 40 = n + U16
      BY <1>0, <1>2
    <3>2. (n + U16) % U16 = n
      BY <1>0, <1>2
    <3>. QED
      BY <3>1, <3>2
  <2>. QED
    BY <2>1 DEF minus16
<1>2b. plus16(40, n) = len
  <2>1. (40 + n) % U16 = len
    BY <1>0, <1>2
  <2>. QED
    BY <2>1 DEF plus16
<1>. HIDE DEF n
<1>3. /\ e \in DataV6 /\ e.version = 6 /\ e.payload_length = n
      /\ e.source = d.source /\ e.destination = d.destination /\ d.version = 6
  <2>1. d \in DataV6 /\ n \in Nat
    BY <1>1, <1>2
  <2>. QED
    BY <2>1 DEF DataV6
<1>4. i = [raw |-> u, data |-> e]
  <2>1. header_length(d) = 40
    BY <1>3 DEF header_length
  <2>. QED
    BY <1>2a, <1>3, <2>1 DEF set_total_length, set_payload_length
<1>. HIDE DEF e
<1>5. IsWrite(u, raw, 4, n)
  <2>1. raw \in Seq(Octet) /\ 4 \in Nat /\ 4 + 2 <= Len(raw) /\ n \in Half
    BY <1>1, <1>2
  <2>. QED
    BY <2>1, Written
<1>. HIDE DEF u
<1>7. IpOk(u, d, f)
  BY <1>5, IpWriteV6
<1>10. ipBuilt(i) = [raw |-> u, data |-> e]
  BY <1>3, <1>4 DEF ipBuilt
<1>14. IpOk(u, e, f)
  BY <1>3, <1>7 DEF IpOk
<1>15. read_u16(u, 4) = n
  BY <1>5 DEF IsWrite
<1>16. total_length(e) = len
  BY <1>2b, <1>3 DEF total_length
<1>17. IpBuilt(u, e, f, len)
  BY <1>3, <1>14, <1>15, <1>16 DEF IpBuilt, n
<1>. QED
  BY <1>10, <1>17

\* Writing behind the ports leaves a transport header one of the same kind, as
\* long as the data offset stays.
LEMMA TrWrite ==
  ASSUME NEW f, FirstFacts(f), NEW raw, NEW d, TrOk(raw, d, f),
         NEW i \in Nat, 4 <= i, NEW v, NEW w, IsWrite(w, raw, i, v),
         protocol(f) = 6 => w[13] \div 16 = 5
  PROVE  TrOk(w, d, f)
<1>0. (protocol(f) = 6 /\ thl(f) = 20) \/ (protocol(f) = 17 /\ thl(f) = 8)
  BY DEF FirstFacts
<1>1. /\ raw \in Seq(Octet) /\ Len(raw) = thl(f)
      /\ raw[1] = f[ihl(f) + 3] /\ raw[2] = f[ihl(f) + 4] /\ raw[3] = f[ihl(f) + 1] /\ raw[4] = f[ihl(f) + 2]
      /\ protocol(f) = 6 => d \in DataTcp
      /\ protocol(f) = 17 => d \in DataUdp
  BY DEF TrOk
<1>2. /\ w \in Seq(Octet) /\ Len(w) = Len(raw)
      /\ \A k \in 1 .. Len(raw) : k # i + 1 /\ k # i + 2 => w[k] = raw[k]
  BY DEF IsWrite
<1>3. ASSUME NEW k \in 1 .. 4 PROVE w[k] = raw[k]
  <2>1. k \in 1 .. Len(raw) /\ k # i + 1 /\ k # i + 2
    BY <1>0, <1>1
  <2>. QED
    BY <1>2, <2>1
<1>4. w[1] = raw[1] /\ w[2] = raw[2] /\ w[3] = raw[3] /\ w[4] = raw[4]
  BY <1>3
<1>. QED
  BY <1>1, <1>2, <1>4 DEF TrOk

\* The word of a data offset x and flags w, with the flags g instead.
FlagsSet(x, w, g) ==
  LET v == (w - (w % 512)) + (g % 512)
  IN  v \in Nat /\ v < 65536 /\ v % 512 = g /\ (v \div 256) \div 16 = x \div 16

\* set_flags() replaces the nine bits of the flags and keeps the data offset.
LEMMA FlagsArith ==
  ASSUME NEW x \in Nat, x < 256, NEW y \in Nat, y < 256, NEW g \in Nat, g < 512, NEW w, w = 256 * x + y
  PROVE  FlagsSet(x, w, g)
<1>. DEFINE q == w \div 512
            r == w % 512
            v == (w - r) + (g % 512)
<1>1. w \in Nat /\ q \in Nat /\ r \in Nat /\ r < 512 /\ w = 512 * q + r /\ q < 128
  OBVIOUS
<1>2. g % 512 = g
  OBVIOUS
<1>3. v = 512 * q + g
  BY <1>1, <1>2
<1>4. q \div 8 = x \div 16
  <2>1. q = x \div 2
    OBVIOUS
  <2>. QED
    BY <2>1
<1>. HIDE DEF q, r, v
<1>5. v \in Nat /\ v < 65536 /\ v % 512 = g
  BY <1>1, <1>3
<1>6. (v \div 256) \div 16 = q \div 8
  <2>1. v \div 256 = 2 * q + (g \div 256) /\ g \div 256 \in Nat /\ g \div 256 < 2
    BY <1>1, <1>3
  <2>2. (2 * q + (g \div 256)) \div 16 = q \div 8
    BY <1>1, <2>1
  <2>. QED
    BY <2>1, <2>2
<1>. QED
  BY <1>4, <1>5, <1>6 DEF FlagsSet, v, r

IsWriteLong(w, raw, i, v) ==
  /\ w \in Seq(Octet) /\ Len(w) = Len(raw) /\ read_u32(w, i) = v
  /\ \A k \in 1 .. Len(raw) : k <= i \/ i + 4 < k => w[k] = raw[k]

\* Writing a u32 changes its four bytes and no other.
LEMMA WrittenLong ==
  ASSUME NEW raw \in Seq(Octet), NEW i \in Nat, i + 4 <= Len(raw), NEW v \in Half \X Half
  PROVE  IsWriteLong(write_u32(raw, i, v), raw, i, v)
<1>. DEFINE u == write_u16(raw, i, v[1])
            w == write_u16(u, i + 2, v[2])
<1>0. v[1] \in Half /\ v[2] \in Half /\ v = <<v[1], v[2]>>
  OBVIOUS
<1>1. IsWrite(u, raw, i, v[1])
  BY <1>0, Written
<1>2. u \in Seq(Octet) /\ Len(u) = Len(raw)
  BY <1>1 DEF IsWrite
<1>. HIDE DEF u
<1>3. IsWrite(w, u, i + 2, v[2])
  <2>1. i + 2 \in Nat /\ (i + 2) + 2 <= Len(u)
    BY <1>2
  <2>. QED
    BY <1>0, <1>2, <2>1, Written
<1>. HIDE DEF w
<1>4. /\ w \in Seq(Octet) /\ Len(w) = Len(raw) /\ read_u16(w, i + 2) = v[2]
      /\ \A k \in 1 .. Len(raw) : k # (i + 2) + 1 /\ k # (i + 2) + 2 => w[k] = u[k]
  BY <1>2, <1>3 DEF IsWrite
<1>5. read_u16(w, i) = v[1]
  <2>1. read_u16(u, i) = v[1]
    BY <1>1 DEF IsWrite
  <2>2. w[i + 1] = u[i + 1] /\ w[i + 2] = u[i + 2]
    <3>1. i + 1 \in 1 .. Len(raw) /\ i + 2 \in 1 .. Len(raw)
      OBVIOUS
    <3>. QED
      BY <1>4, <3>1
  <2>. QED
    BY <2>1, <2>2, SameWord
<1>6. ASSUME NEW k \in 1 .. Len(raw), k <= i \/ i + 4 < k PROVE w[k] = raw[k]
  <2>1. w[k] = u[k]
    BY <1>4, <1>6
  <2>2. u[k] = raw[k]
    BY <1>1, <1>6 DEF IsWrite
  <2>. QED
    BY <2>1, <2>2
<1>7. read_u32(w, i) = v
  BY <1>0, <1>4, <1>5 DEF read_u32
<1>8. IsWriteLong(w, raw, i, v)
  BY <1>4, <1>6, <1>7 DEF IsWriteLong
<1>. QED
  BY <1>8 DEF write_u32, w, u

\* The bytes of a TCP header say what the Tcb asks for.
Carries(raw, a) ==
  /\ read_u32(raw, 4) = a.seq /\ read_u32(raw, 8) = a.ack
  /\ read_u16(raw, 12) % 512 = a.flags /\ read_u16(raw, 14) = a.window

\* update_headers() of a TCP header
tcpAsked(t, a) ==
  set_window(set_flags(set_acknowledgement_number(set_sequence_number(t, a.seq), a.ack), a.flags), a.window)

\* update_headers(): the bytes say what the Tcb asks for, whatever was there before.
LEMMA AskedHeader ==
  ASSUME NEW f, FirstFacts(f), protocol(f) = 6, NEW raw, NEW d, TrOk(raw, d, f), NEW a \in Tcb
  PROVE  \E w, e : /\ tcpAsked([raw |-> raw, data |-> d], a) = [raw |-> w, data |-> e]
                   /\ TrOk(w, e, f) /\ Carries(w, a)
<1>0. /\ a.seq \in Half \X Half /\ a.ack \in Half \X Half /\ a.flags \in Half /\ a.flags < 512 /\ a.window \in Half
  BY PacketizerAssumption
<1>1. /\ raw \in Seq(Octet) /\ Len(raw) = 20 /\ d \in DataTcp /\ raw[13] \div 16 = 5
      /\ raw[1] = f[ihl(f) + 3] /\ raw[2] = f[ihl(f) + 4] /\ raw[3] = f[ihl(f) + 1] /\ raw[4] = f[ihl(f) + 2]
  BY DEF TrOk, FirstFacts
<1>. DEFINE r1 == write_u32(raw, 4, a.seq)
            r2 == write_u32(r1, 8, a.ack)
            x == read_u16(r2, 12)
            v == (x - (x % 512)) + (a.flags % 512)
            r3 == write_u16(r2, 12, v)
            w == write_u16(r3, 14, a.window)
            e1 == [d EXCEPT !.sequence_number = a.seq]
            e2 == [e1 EXCEPT !.acknowledgement_number = a.ack]
            e3 == [e2 EXCEPT !.flags = a.flags]
            e == [e3 EXCEPT !.window = a.window]
<1>2. tcpAsked([raw |-> raw, data |-> d], a) = [raw |-> w, data |-> e]
  BY DEF tcpAsked, set_window, set_flags, set_acknowledgement_number, set_sequence_number
<1>3. e \in DataTcp
  <2>1. d \in DataTcp
    BY <1>1
  <2>. QED
    BY <1>0, <2>1 DEF DataTcp
<1>. HIDE DEF e
<1>4. IsWriteLong(r1, raw, 4, a.seq)
  <2>1. 4 \in Nat /\ 4 + 4 <= Len(raw) /\ raw \in Seq(Octet)
    BY <1>1
  <2>. QED
    BY <1>0, <2>1, WrittenLong
<1>. HIDE DEF r1
<1>5. r1 \in Seq(Octet) /\ Len(r1) = 20
  BY <1>1, <1>4 DEF IsWriteLong
<1>6. IsWriteLong(r2, r1, 8, a.ack)
  <2>1. 8 \in Nat /\ 8 + 4 <= Len(r1)
    BY <1>5
  <2>. QED
    BY <1>0, <1>5, <2>1, WrittenLong
<1>. HIDE DEF r2
<1>7. r2 \in Seq(Octet) /\ Len(r2) = 20
  BY <1>5, <1>6 DEF IsWriteLong
<1>8. r2[13] = raw[13] /\ r2[14] \in Nat /\ r2[14] < 256 /\ r2[13] \in Nat /\ r2[13] < 256
  <2>1. 13 \in 1 .. Len(r2) /\ 14 \in 1 .. Len(r2) /\ 13 \in 1 .. Len(raw) /\ 13 \in 1 .. Len(r1) /\ 4 + 4 < 13 /\ 8 + 4 < 13
    BY <1>1, <1>5, <1>7
  <2>2. r2[13] = r1[13] /\ r1[13] = raw[13]
    BY <1>4, <1>6, <2>1 DEF IsWriteLong
  <2>. QED
    BY <1>7, <2>1, <2>2, ByteAt
<1>9. x = 256 * r2[13] + r2[14]
  BY DEF read_u16
<1>10. a.flags \in Nat /\ a.flags < 512
  BY <1>0 DEF Half
<1>11. v \in Nat /\ v < 65536 /\ v % 512 = a.flags /\ (v \div 256) \div 16 = r2[13] \div 16
  <2>. HIDE DEF x
  <2>1. FlagsSet(r2[13], x, a.flags)
    BY <1>8, <1>9, <1>10, FlagsArith
  <2>. QED
    BY <2>1 DEF FlagsSet
<1>12. v \in Half
  <2>. HIDE DEF v
  <2>. QED
    BY <1>11 DEF Half
<1>. HIDE DEF x, v
<1>13. IsWrite(r3, r2, 12, v)
  <2>1. 12 \in Nat /\ 12 + 2 <= Len(r2)
    BY <1>7
  <2>. QED
    BY <1>7, <1>12, <2>1, Written
<1>. HIDE DEF r3
<1>14. r3 \in Seq(Octet) /\ Len(r3) = 20
  BY <1>7, <1>13 DEF IsWrite
<1>15. IsWrite(w, r3, 14, a.window)
  <2>1. 14 \in Nat /\ 14 + 2 <= Len(r3)
    BY <1>14
  <2>. QED
    BY <1>0, <1>14, <2>1, Written
<1>. HIDE DEF w
<1>16. w \in Seq(Octet) /\ Len(w) = 20 /\ read_u16(w, 14) = a.window
  BY <1>14, <1>15 DEF IsWrite
<1>17. ASSUME NEW k \in 1 .. 14 PROVE w[k] = r3[k]
  <2>1. k \in 1 .. Len(r3) /\ k # 14 + 1 /\ k # 14 + 2
    BY <1>14
  <2>. QED
    BY <1>15, <2>1 DEF IsWrite
<1>18. ASSUME NEW k \in 1 .. 12 PROVE w[k] = r2[k]
  <2>1. k \in 1 .. Len(r2) /\ k # 12 + 1 /\ k # 12 + 2 /\ k \in 1 .. 14
    BY <1>7
  <2>2. r3[k] = r2[k]
    BY <1>13, <2>1 DEF IsWrite
  <2>. QED
    BY <1>17, <2>1, <2>2
<1>19. ASSUME NEW k \in 1 .. 8 PROVE w[k] = r1[k]
  <2>1. k \in 1 .. Len(r1) /\ k <= 8 /\ k \in 1 .. 12
    BY <1>5
  <2>2. r2[k] = r1[k]
    BY <1>6, <2>1 DEF IsWriteLong
  <2>. QED
    BY <1>18, <2>1, <2>2
<1>20. ASSUME NEW k \in 1 .. 4 PROVE w[k] = raw[k]
  <2>1. k \in 1 .. Len(raw) /\ k <= 4 /\ k \in 1 .. 8
    BY <1>1
  <2>2. r1[k] = raw[k]
    BY <1>4, <2>1 DEF IsWriteLong
  <2>. QED
    BY <1>19, <2>1, <2>2
<1>21. w[13] = v \div 256 /\ read_u16(w, 12) = v
  <2>1. w[13] = r3[13] /\ w[14] = r3[14]
    BY <1>17
  <2>2. r3[12 + 1] = v \div 256 /\ read_u16(r3, 12) = v /\ 12 + 1 = 13 /\ 12 + 2 = 14
    BY <1>13 DEF IsWrite
  <2>3. read_u16(w, 12) = read_u16(r3, 12)
    BY <2>1, <2>2 DEF read_u16
  <2>. QED
    BY <2>1, <2>2, <2>3
<1>22. w[13] \div 16 = 5
  BY <1>1, <1>8, <1>11, <1>21
<1>23. TrOk(w, e, f)
  <2>1. w[1] = raw[1] /\ w[2] = raw[2] /\ w[3] = raw[3] /\ w[4] = raw[4]
    BY <1>20
  <2>2. thl(f) = 20
    BY DEF FirstFacts
  <2>. QED
    BY <1>1, <1>3, <1>16, <1>22, <2>1, <2>2 DEF TrOk
<1>24. read_u32(w, 4) = a.seq
  <2>1. w[5] = r1[5] /\ w[6] = r1[6] /\ w[7] = r1[7] /\ w[8] = r1[8]
    BY <1>19
  <2>2. read_u32(w, 4) = read_u32(r1, 4)
    BY <2>1 DEF read_u32, read_u16
  <2>. QED
    BY <1>4, <2>2 DEF IsWriteLong
<1>25. read_u32(w, 8) = a.ack
  <2>1. w[9] = r2[9] /\ w[10] = r2[10] /\ w[11] = r2[11] /\ w[12] = r2[12]
    BY <1>18
  <2>2. read_u32(w, 8) = read_u32(r2, 8)
    BY <2>1 DEF read_u32, read_u16
  <2>. QED
    BY <1>6, <2>2 DEF IsWriteLong
<1>26. Carries(w, a)
  BY <1>11, <1>16, <1>21, <1>24, <1>25 DEF Carries
<1>. QED
  BY <1>2, <1>23, <1>26

\* A subtraction that does not wrap.
LEMMA Minus16 ==
  ASSUME NEW x \in Nat, NEW y \in Nat, y <= x, x < U16, U16 \in Nat
  PROVE  minus16(x, y) = x - y
<1>1. (x + U16) - y = (x - y) + U16 /\ x - y \in Nat
  OBVIOUS
<1>2. ((x - y) + U16) % U16 = x - y
  BY <1>1
<1>. QED
  BY <1>1, <1>2 DEF minus16

\* An addition that does not wrap.
LEMMA Plus16 ==
  ASSUME NEW x \in Nat, NEW y \in Nat, x + y < U16, U16 \in Nat
  PROVE  plus16(x, y) = x + y
<1>1. (x + y) % U16 = x + y
  OBVIOUS
<1>. QED
  BY <1>1 DEF plus16

addresses(iraw, f) == IF f[1] \div 16 = 4 THEN slice(iraw, 12, 20) ELSE slice(iraw, 8, 40)

\* The sum that the checksum of a TCP packet of n bytes of data is made of.
tcpTotal(iraw, f, traw, body, n) ==
  sum16(addresses(iraw, f)) + (6 + (20 + n)) + (sum16(write_u16(traw, 16, 0)) + sum16(body))

\* The sum over the segment takes the whole header and the whole payload.
LEMMA TcpSum ==
  ASSUME NEW f, FirstFacts(f), protocol(f) = 6, NEW traw, NEW td, TrOk(traw, td, f),
         NEW body \in Seq(Octet), NEW n \in Nat, n = Len(body), 20 + n < U16
  PROVE  tcp_sum(traw, td, body, 20 + n) = sum16(write_u16(traw, 16, 0)) + sum16(body)
<1>1. traw \in Seq(Octet) /\ Len(traw) = 20 /\ td \in DataTcp /\ U16 \in Nat
  BY DEF TrOk, FirstFacts
<1>2. td.header_length = 20
  BY <1>1 DEF DataTcp
<1>3. minus16(20 + n, 20) = n
  <2>1. 20 + n \in Nat /\ 20 <= 20 + n /\ (20 + n) - 20 = n
    OBVIOUS
  <2>2. minus16(20 + n, 20) = (20 + n) - 20
    BY <1>1, <2>1, Minus16
  <2>. QED
    BY <2>1, <2>2
<1>. DEFINE z == write_u16(traw, 16, 0)
<1>4. IsWrite(z, traw, 16, 0)
  <2>1. 0 \in Half
    BY DEF Half
  <2>2. 16 \in Nat /\ 16 + 2 <= Len(traw)
    BY <1>1
  <2>. QED
    BY <1>1, <2>1, <2>2, Written
<1>. HIDE DEF z
<1>5. z \in Seq(Octet) /\ Len(z) = 20
  BY <1>1, <1>4 DEF IsWrite
<1>6. slice(z, 0, 20) = z /\ slice(body, 0, n) = body
  <2>1. slice(z, 0, Len(z)) = z /\ slice(body, 0, Len(body)) = body
    BY <1>5, WholeSlice
  <2>. QED
    BY <1>5, <2>1
<1>7. tcp_sum(traw, td, body, 20 + n) = sum16(slice(z, 0, 20)) + sum16(slice(body, 0, n))
  BY <1>2, <1>3 DEF tcp_sum, z
<1>. QED
  BY <1>6, <1>7 DEF z

\* The complement in tcp_checksum_v4() and tcp_checksum_v6() is of the words that the
\* device will add up.
LEMMA TcpTotalV4 ==
  ASSUME NEW f, FirstFacts(f), protocol(f) = 6, f[1] \div 16 = 4, NEW traw, NEW td, TrOk(traw, td, f),
         NEW body \in Seq(Octet), NEW n \in Nat, n = Len(body),
         NEW len, len = ihl(f) + 20 + n, len < U16, NEW iraw, NEW d, IpBuilt(iraw, d, f, len)
  PROVE  tcp_checksum_v4(traw, td, d, body) = complement(tcpTotal(iraw, f, traw, body, n))
<1>0. ihl(f) \in Nat /\ 20 <= ihl(f) /\ U16 \in Nat /\ 20 + n < U16
  BY DEF FirstFacts
<1>1. /\ iraw \in Seq(Octet) /\ Len(iraw) = ihl(f) /\ d.header_length = ihl(f) /\ d.total_length = len
      /\ d.source = read_u32(iraw, 12) /\ d.destination = read_u32(iraw, 16)
  BY DEF IpBuilt, IpOk
<1>2. minus16(len, ihl(f)) = 20 + n
  <2>1. len \in Nat /\ ihl(f) <= len /\ len - ihl(f) = 20 + n
    BY <1>0
  <2>2. minus16(len, ihl(f)) = len - ihl(f)
    BY <1>0, <2>1, Minus16
  <2>. QED
    BY <2>1, <2>2
<1>. DEFINE T == tcp_sum(traw, td, body, 20 + n)
            R == sum16(write_u16(traw, 16, 0)) + sum16(body)
            a == slice(iraw, 12, 20)
            A == read_u16(iraw, 12)
            B == read_u16(iraw, 14)
            C == read_u16(iraw, 16)
            D == read_u16(iraw, 18)
<1>3. T = R
  BY <1>0, TcpSum
<1>4. R \in Nat
  <2>1. traw \in Seq(Octet) /\ Len(traw) = 20
    BY DEF TrOk, FirstFacts
  <2>2. 0 \in Half
    BY DEF Half
  <2>3. 16 \in Nat /\ 16 + 2 <= Len(traw)
    BY <2>1
  <2>4. IsWrite(write_u16(traw, 16, 0), traw, 16, 0)
    BY <2>1, <2>2, <2>3, Written
  <2>5. write_u16(traw, 16, 0) \in Seq(Octet)
    BY <2>4 DEF IsWrite
  <2>6. sum16(write_u16(traw, 16, 0)) \in Nat /\ sum16(body) \in Nat
    BY <2>5, SumTyped
  <2>. QED
    BY <2>6
<1>5. IsSlice(a, iraw, 12, 20)
  BY <1>0, <1>1, Sliced
<1>6. a \in Seq(Octet) /\ Len(a) = 8 /\ \A k \in 1 .. 8 : a[k] = iraw[12 + k]
  <2>1. 20 - 12 = 8
    OBVIOUS
  <2>. QED
    BY <1>5, <2>1 DEF IsSlice
<1>7. sum16(a) = read_u16(a, 0) + read_u16(a, 2) + read_u16(a, 4) + read_u16(a, 6)
  BY <1>6, SumAddresses
<1>8. read_u16(a, 0) = A /\ read_u16(a, 2) = B /\ read_u16(a, 4) = C /\ read_u16(a, 6) = D
  <2>. HIDE DEF a
  <2>1. /\ a[1] = iraw[13] /\ a[2] = iraw[14] /\ a[3] = iraw[15] /\ a[4] = iraw[16]
        /\ a[5] = iraw[17] /\ a[6] = iraw[18] /\ a[7] = iraw[19] /\ a[8] = iraw[20]
    BY <1>6
  <2>. QED
    BY <2>1 DEF read_u16
<1>9. A \in Nat /\ B \in Nat /\ C \in Nat /\ D \in Nat
  <2>1. 12 + 2 <= Len(iraw) /\ 14 + 2 <= Len(iraw) /\ 16 + 2 <= Len(iraw) /\ 18 + 2 <= Len(iraw)
    BY <1>0, <1>1
  <2>2. A \in Half /\ B \in Half /\ C \in Half /\ D \in Half
    BY <1>1, <2>1, WordTyped
  <2>. HIDE DEF A, B, C, D
  <2>. QED
    BY <2>2 DEF Half
<1>10. d.source[1] = A /\ d.source[2] = B /\ d.destination[1] = C /\ d.destination[2] = D
  BY <1>1 DEF read_u32
<1>11. tcp_checksum_v4(traw, td, d, body) = complement(6 + A + B + C + D + (20 + n) + T)
  BY <1>1, <1>2, <1>10 DEF tcp_checksum_v4
<1>12. tcpTotal(iraw, f, traw, body, n) = (A + B + C + D) + (6 + (20 + n)) + R
  BY <1>7, <1>8 DEF tcpTotal, addresses
<1>. HIDE DEF A, B, C, D, R, T
<1>13. 6 + A + B + C + D + (20 + n) + R = (A + B + C + D) + (6 + (20 + n)) + R
  BY <1>4, <1>9
<1>. QED
  BY <1>3, <1>11, <1>12, <1>13

\* The same for tcp_checksum_v6().
LEMMA TcpTotalV6 ==
  ASSUME NEW f, FirstFacts(f), protocol(f) = 6, f[1] \div 16 = 6, NEW traw, NEW td, TrOk(traw, td, f),
         NEW body \in Seq(Octet), NEW n \in Nat, n = Len(body),
         NEW len, len = ihl(f) + 20 + n, len < U16, NEW iraw, NEW d, IpBuilt(iraw, d, f, len)
  PROVE  tcp_checksum_v6(traw, td, d, body) = complement(tcpTotal(iraw, f, traw, body, n))
<1>0. ihl(f) = 40 /\ U16 \in Nat /\ 20 + n < U16 /\ len - 40 = 20 + n
  BY DEF FirstFacts
<1>1. /\ iraw \in Seq(Octet) /\ Len(iraw) = 40 /\ d.payload_length = 20 + n
      /\ d.source = slice(iraw, 8, 24) /\ d.destination = slice(iraw, 24, 40)
  BY <1>0 DEF IpBuilt, IpOk
<1>. DEFINE T == tcp_sum(traw, td, body, 20 + n)
            R == sum16(write_u16(traw, 16, 0)) + sum16(body)
            a == slice(iraw, 8, 24)
            b == slice(iraw, 24, 40)
            c == slice(iraw, 8, 40)
            A == sum16(a)
            B == sum16(b)
<1>3. T = R
  BY <1>0, TcpSum
<1>4. R \in Nat
  <2>1. traw \in Seq(Octet) /\ Len(traw) = 20
    BY DEF TrOk, FirstFacts
  <2>2. 0 \in Half
    BY DEF Half
  <2>3. 16 \in Nat /\ 16 + 2 <= Len(traw)
    BY <2>1
  <2>4. IsWrite(write_u16(traw, 16, 0), traw, 16, 0)
    BY <2>1, <2>2, <2>3, Written
  <2>5. write_u16(traw, 16, 0) \in Seq(Octet)
    BY <2>4 DEF IsWrite
  <2>6. sum16(write_u16(traw, 16, 0)) \in Nat /\ sum16(body) \in Nat
    BY <2>5, SumTyped
  <2>. QED
    BY <2>6
<1>5. IsSlice(a, iraw, 8, 24) /\ IsSlice(b, iraw, 24, 40) /\ IsSlice(c, iraw, 8, 40)
  <2>1. 8 \in Nat /\ 24 \in Nat /\ 40 \in Nat /\ 8 <= 24 /\ 24 <= 40 /\ 8 <= 40 /\ 24 <= Len(iraw) /\ 40 <= Len(iraw)
    BY <1>1
  <2>2. iraw \in Seq(Octet)
    BY <1>1
  <2>. QED
    BY <2>1, <2>2, Sliced
<1>. HIDE DEF a, b, c
<1>6. /\ a \in Seq(Octet) /\ Len(a) = 16 /\ \A k \in 1 .. 16 : a[k] = iraw[8 + k]
      /\ b \in Seq(Octet) /\ Len(b) = 16 /\ \A k \in 1 .. 16 : b[k] = iraw[24 + k]
      /\ c \in Seq(Octet) /\ Len(c) = 32 /\ \A k \in 1 .. 32 : c[k] = iraw[8 + k]
  <2>1. 24 - 8 = 16 /\ 40 - 24 = 16 /\ 40 - 8 = 32
    OBVIOUS
  <2>. QED
    BY <1>5, <2>1 DEF IsSlice
<1>7. c = a \o b
  <2>. DEFINE t == a \o b
  <2>1. IsJoin(t, a, b)
    BY <1>6, Joined
  <2>. HIDE DEF t
  <2>2. /\ t \in Seq(Octet) /\ Len(t) = 32 /\ \A k \in 1 .. 16 : t[k] = a[k]
        /\ \A k \in 1 .. 16 : t[16 + k] = b[k]
    BY <1>6, <2>1 DEF IsJoin
  <2>3. ASSUME NEW k \in 1 .. 32 PROVE c[k] = t[k]
    <3>0. c[k] = iraw[8 + k]
      BY <1>6
    <3>1. CASE k <= 16
      <4>1. k \in 1 .. 16
        BY <3>1
      <4>2. t[k] = a[k] /\ a[k] = iraw[8 + k]
        BY <1>6, <2>2, <4>1
      <4>. QED
        BY <3>0, <4>2
    <3>2. CASE k > 16
      <4>. DEFINE j == k - 16
      <4>1. j \in 1 .. 16 /\ 16 + j = k /\ 8 + k = 24 + j
        BY <3>2
      <4>. HIDE DEF j
      <4>2. t[16 + j] = b[j] /\ b[j] = iraw[24 + j]
        BY <1>6, <2>2, <4>1
      <4>. QED
        BY <3>0, <4>1, <4>2
    <3>3. k <= 16 \/ k > 16
      OBVIOUS
    <3>. QED
      BY <3>1, <3>2, <3>3
  <2>4. Same(c, t)
    BY <1>6, <2>2, <2>3 DEF Same
  <2>5. c = t
    BY <1>6, <2>2, <2>4, SameBytes
  <2>. QED
    BY <2>5 DEF t
<1>8. sum16(c) = A + B
  <2>1. Len(a) % 2 = 0 /\ a \in Seq(Octet) /\ b \in Seq(Octet)
    BY <1>6
  <2>. QED
    BY <1>7, <2>1, SumConcat
<1>9. A \in Nat /\ B \in Nat
  BY <1>6, SumTyped
<1>11. tcp_checksum_v6(traw, td, d, body) = complement(A + B + (20 + n) + 6 + T)
  BY <1>1 DEF tcp_checksum_v6, a, b
<1>12. tcpTotal(iraw, f, traw, body, n) = (A + B) + (6 + (20 + n)) + R
  <2>1. addresses(iraw, f) = c
    BY DEF addresses, c
  <2>. QED
    BY <1>8, <2>1 DEF tcpTotal
<1>. HIDE DEF A, B, R, T
<1>13. A + B + (20 + n) + 6 + R = (A + B) + (6 + (20 + n)) + R
  BY <1>4, <1>9
<1>. QED
  BY <1>3, <1>11, <1>12, <1>13

IsTcpBuilt(w, traw, iraw, f, body, n) ==
  /\ w \in Seq(Octet) /\ \E c \in Half : IsWrite(w, traw, 16, c)
  /\ Verifies((addresses(iraw, f) \o trailer(20 + n)) \o (w \o body))

\* update_transport_checksum() of a TCP packet leaves a segment that verifies.
LEMMA BuildTcp ==
  ASSUME NEW f, FirstFacts(f), protocol(f) = 6, NEW traw, NEW td, TrOk(traw, td, f),
         NEW body \in Seq(Octet), NEW n \in Nat, n = Len(body),
         NEW len, len = ihl(f) + 20 + n, len < U16, NEW iraw, NEW d, IpBuilt(iraw, d, f, len)
  PROVE  IsTcpBuilt(update_transport_checksum(traw, td, d, body), traw, iraw, f, body, n)
<1>. DEFINE s == tcpTotal(iraw, f, traw, body, n)
            w == write_u16(traw, 16, complement(s))
            a == addresses(iraw, f)
<1>0. /\ ihl(f) \in Nat /\ 20 <= ihl(f) /\ U16 \in Nat /\ U16 <= 65536
      /\ f[1] \div 16 = 4 \/ (f[1] \div 16 = 6 /\ ihl(f) = 40)
  BY DEF FirstFacts
<1>1. traw \in Seq(Octet) /\ Len(traw) = 20 /\ td \in DataTcp
  BY DEF TrOk, FirstFacts
<1>2. iraw \in Seq(Octet) /\ Len(iraw) = ihl(f)
  BY DEF IpBuilt, IpOk
<1>3. update_transport_checksum(traw, td, d, body) = w
  <2>1. td.kind = "Tcp"
    BY <1>1 DEF DataTcp
  <2>2. CASE f[1] \div 16 = 4
    <3>1. d.version = 4
      BY <2>2 DEF IpBuilt
    <3>2. tcp_checksum_v4(traw, td, d, body) = complement(s)
      BY <2>2, TcpTotalV4
    <3>. HIDE DEF s
    <3>. QED
      BY <2>1, <3>1, <3>2 DEF update_transport_checksum
  <2>3. CASE f[1] \div 16 = 6
    <3>1. d.version = 6
      BY <2>3 DEF IpBuilt
    <3>2. tcp_checksum_v6(traw, td, d, body) = complement(s)
      BY <2>3, TcpTotalV6
    <3>. HIDE DEF s
    <3>. QED
      BY <2>1, <3>1, <3>2 DEF update_transport_checksum
  <2>. QED
    BY <1>0, <2>2, <2>3
<1>4. a \in Seq(Octet) /\ Len(a) % 2 = 0
  <2>1. CASE f[1] \div 16 = 4
    <3>1. IsSlice(slice(iraw, 12, 20), iraw, 12, 20)
      BY <1>0, <1>2, Sliced
    <3>2. slice(iraw, 12, 20) \in Seq(Octet) /\ Len(slice(iraw, 12, 20)) = 20 - 12
      BY <3>1 DEF IsSlice
    <3>3. (20 - 12) % 2 = 0
      OBVIOUS
    <3>. QED
      BY <2>1, <3>2, <3>3 DEF addresses
  <2>2. CASE f[1] \div 16 = 6
    <3>0. 8 \in Nat /\ 40 \in Nat /\ 8 <= 40 /\ 40 <= Len(iraw)
      BY <1>0, <1>2, <2>2
    <3>1. IsSlice(slice(iraw, 8, 40), iraw, 8, 40)
      BY <1>2, <3>0, Sliced
    <3>2. slice(iraw, 8, 40) \in Seq(Octet) /\ Len(slice(iraw, 8, 40)) = 40 - 8
      BY <3>1 DEF IsSlice
    <3>3. (40 - 8) % 2 = 0
      OBVIOUS
    <3>. QED
      BY <2>2, <3>2, <3>3 DEF addresses
  <2>. QED
    BY <1>0, <2>1, <2>2
<1>. HIDE DEF a
<1>5. 20 + n \in Half
  BY <1>0 DEF Half
<1>6. 0 \in Half /\ 16 \in Nat /\ 16 + 2 <= Len(traw)
  BY <1>1 DEF Half
<1>7. sum16(write_u16(traw, 16, 0)) \in Nat /\ sum16(body) \in Nat /\ sum16(a) \in Nat
  <2>1. IsWrite(write_u16(traw, 16, 0), traw, 16, 0)
    BY <1>1, <1>6, Written
  <2>2. write_u16(traw, 16, 0) \in Seq(Octet)
    BY <2>1 DEF IsWrite
  <2>. QED
    BY <1>4, <2>2, SumTyped
<1>8. s = sum16(a) + (6 + (20 + n)) + (sum16(write_u16(traw, 16, 0)) + sum16(body))
  BY DEF tcpTotal, a
<1>9. s \in Nat
  <2>. HIDE DEF s
  <2>. QED
    BY <1>7, <1>8
<1>. HIDE DEF s
<1>10. w \in Seq(Octet) /\ Verifies((a \o trailer(20 + n)) \o (w \o body))
  BY <1>1, <1>4, <1>5, <1>8, <1>9, TcpVerifies
<1>11. complement(s) \in Half
  BY <1>9, Complemented
<1>12. IsWrite(w, traw, 16, complement(s))
  BY <1>1, <1>6, <1>11, Written
<1>. HIDE DEF w
<1>13. IsTcpBuilt(w, traw, iraw, f, body, n)
  BY <1>10, <1>11, <1>12 DEF IsTcpBuilt, a
<1>. QED
  BY <1>3, <1>13

\* A transport header, complete, in front of n bytes of data.
TrBuilt(w, td, iraw, f, body, n) ==
  /\ TrOk(w, td, f)
  /\ protocol(f) = 6 => Verifies((addresses(iraw, f) \o trailer(20 + n)) \o (w \o body))
  /\ protocol(f) = 17 => read_u16(w, 4) = 8 + n

KeepsAsked(w, raw, f) == protocol(f) = 6 => \A a : Carries(raw, a) => Carries(w, a)

\* It leaves the ports and what the Tcb asked for alone.
LEMMA TcpBuilt ==
  ASSUME NEW f, FirstFacts(f), protocol(f) = 6, NEW traw, NEW td, TrOk(traw, td, f),
         NEW body \in Seq(Octet), NEW n \in Nat, n = Len(body),
         NEW len, len = ihl(f) + 20 + n, len < U16, NEW iraw, NEW d, IpBuilt(iraw, d, f, len),
         NEW w, w = update_transport_checksum(traw, td, d, body)
  PROVE  TrBuilt(w, td, iraw, f, body, n) /\ KeepsAsked(w, traw, f)
<1>1. IsTcpBuilt(w, traw, iraw, f, body, n)
  BY BuildTcp
<1>2. PICK c \in Half : IsWrite(w, traw, 16, c)
  BY <1>1 DEF IsTcpBuilt
<1>3. traw \in Seq(Octet) /\ Len(traw) = 20 /\ traw[13] \div 16 = 5
  BY DEF TrOk, FirstFacts
<1>4. ASSUME NEW k \in 1 .. 16 PROVE w[k] = traw[k]
  <2>1. k \in 1 .. 20 /\ k # 16 + 1 /\ k # 16 + 2
    OBVIOUS
  <2>. QED
    BY <1>2, <1>3, <2>1 DEF IsWrite
<1>5. w[13] = traw[13]
  BY <1>4
<1>6. TrOk(w, td, f)
  <2>1. 16 \in Nat /\ 4 <= 16 /\ w[13] \div 16 = 5
    BY <1>3, <1>5
  <2>. QED
    BY <1>2, <2>1, TrWrite
<1>7. read_u32(w, 4) = read_u32(traw, 4) /\ read_u32(w, 8) = read_u32(traw, 8)
  <2>1. /\ w[5] = traw[5] /\ w[6] = traw[6] /\ w[7] = traw[7] /\ w[8] = traw[8]
        /\ w[9] = traw[9] /\ w[10] = traw[10] /\ w[11] = traw[11] /\ w[12] = traw[12]
    BY <1>4
  <2>. QED
    BY <2>1 DEF read_u32, read_u16
<1>8. read_u16(w, 12) = read_u16(traw, 12) /\ read_u16(w, 14) = read_u16(traw, 14)
  <2>1. w[14] = traw[14] /\ w[15] = traw[15] /\ w[16] = traw[16]
    BY <1>4
  <2>. QED
    BY <1>5, <2>1 DEF read_u16
<1>9. KeepsAsked(w, traw, f)
  BY <1>7, <1>8 DEF KeepsAsked, Carries
<1>10. protocol(f) # 17
  OBVIOUS
<1>. QED
  BY <1>1, <1>6, <1>9, <1>10 DEF TrBuilt, IsTcpBuilt

\* set_payload_length() and the checksum of 0 of a UDP packet.
LEMMA UdpBuilt ==
  ASSUME NEW f, FirstFacts(f), protocol(f) = 17, NEW traw, NEW td, TrOk(traw, td, f),
         NEW n \in Nat, 8 + n < U16, NEW body, NEW iraw, NEW d,
         NEW w, w = update_transport_checksum(write_u16(traw, 4, plus16(8, n)), td, d, body)
  PROVE  TrBuilt(w, td, iraw, f, body, n) /\ KeepsAsked(w, traw, f)
<1>0. U16 \in Nat /\ U16 <= 65536 /\ protocol(f) # 6 /\ thl(f) = 8
  BY DEF FirstFacts
<1>1. traw \in Seq(Octet) /\ Len(traw) = 8 /\ td \in DataUdp
  BY <1>0 DEF TrOk
<1>2. plus16(8, n) = 8 + n /\ 8 + n \in Half /\ 0 \in Half
  <2>1. plus16(8, n) = 8 + n
    BY <1>0, Plus16
  <2>. QED
    BY <1>0, <2>1 DEF Half
<1>. DEFINE u == write_u16(traw, 4, 8 + n)
<1>3. IsWrite(u, traw, 4, 8 + n)
  <2>1. 4 \in Nat /\ 4 + 2 <= Len(traw)
    BY <1>1
  <2>. QED
    BY <1>1, <1>2, <2>1, Written
<1>4. w = write_u16(u, 6, 0)
  <2>1. td.kind = "Udp"
    BY <1>1 DEF DataUdp
  <2>. QED
    BY <1>2, <2>1 DEF update_transport_checksum
<1>. HIDE DEF u
<1>5. u \in Seq(Octet) /\ Len(u) = 8 /\ read_u16(u, 4) = 8 + n
  BY <1>1, <1>3 DEF IsWrite
<1>6. IsWrite(w, u, 6, 0)
  <2>1. 6 \in Nat /\ 6 + 2 <= Len(u)
    BY <1>5
  <2>. QED
    BY <1>2, <1>4, <1>5, <2>1, Written
<1>7. TrOk(u, td, f)
  <2>1. 4 \in Nat /\ 4 <= 4
    OBVIOUS
  <2>. QED
    BY <1>0, <1>3, <2>1, TrWrite
<1>8. TrOk(w, td, f)
  <2>1. 6 \in Nat /\ 4 <= 6
    OBVIOUS
  <2>. QED
    BY <1>0, <1>6, <1>7, <2>1, TrWrite
<1>9. read_u16(w, 4) = 8 + n
  <2>1. 5 \in 1 .. 8 /\ 6 \in 1 .. 8 /\ 5 # 6 + 1 /\ 5 # 6 + 2 /\ 6 # 6 + 1 /\ 6 # 6 + 2
    OBVIOUS
  <2>2. w[5] = u[5] /\ w[6] = u[6]
    BY <1>5, <1>6, <2>1 DEF IsWrite
  <2>3. w[4 + 1] = u[4 + 1] /\ w[4 + 2] = u[4 + 2]
    BY <2>2
  <2>4. read_u16(w, 4) = read_u16(u, 4)
    BY <2>3 DEF read_u16
  <2>. QED
    BY <1>5, <2>4
<1>. QED
  BY <1>0, <1>8, <1>9 DEF TrBuilt, KeepsAsked

\* A Packetizer of a connection that f has opened.
Pk(p, f) ==
  /\ p = [ip |-> [raw |-> p.ip.raw, data |-> p.ip.data],
          transport |-> [raw |-> p.transport.raw, data |-> p.transport.data], body |-> p.body]
  /\ IpOk(p.ip.raw, p.ip.data, f) /\ TrOk(p.transport.raw, p.transport.data, f)
  /\ p.body \in Seq(Octet) /\ Len(p.body) = U16 - (ihl(f) + thl(f))

\* Its buffer holds a packet with the first n bytes of b.
IsBuilt(r, p, f, b, n) ==
  /\ Pk(r, f) /\ r.body = b
  /\ IpBuilt(r.ip.raw, r.ip.data, f, ihl(f) + thl(f) + n)
  /\ TrBuilt(r.transport.raw, r.transport.data, r.ip.raw, f, slice(b, 0, n), n)
  /\ KeepsAsked(r.transport.raw, p.transport.raw, f)

put(q, x, y) == [q EXCEPT !.ip.raw = x, !.transport.raw = y]

\* The two assignments of compute_checksums().
LEMMA HeadersSet ==
  ASSUME NEW a, NEW b, NEW c, NEW d, NEW e, NEW x, NEW y, NEW q,
         q = [ip |-> [raw |-> a, data |-> b], transport |-> [raw |-> c, data |-> d], body |-> e]
  PROVE  put(q, x, y)
           = [ip |-> [raw |-> x, data |-> b], transport |-> [raw |-> y, data |-> d], body |-> e]
<1>. DEFINE i == [raw |-> a, data |-> b]
            t == [raw |-> c, data |-> d]
            u == [q EXCEPT !.ip.raw = x]
<1>1. q.ip = i /\ q.transport = t /\ q.body = e
  OBVIOUS
<1>2. [i EXCEPT !.raw = x] = [raw |-> x, data |-> b] /\ [t EXCEPT !.raw = y] = [raw |-> y, data |-> d]
  OBVIOUS
<1>3. q = [ip |-> i, transport |-> t, body |-> e]
  OBVIOUS
<1>. HIDE DEF i, t
<1>4. u = [q EXCEPT !.ip = [i EXCEPT !.raw = x]]
  BY <1>1
<1>5. u = [ip |-> [raw |-> x, data |-> b], transport |-> t, body |-> e]
  BY <1>2, <1>3, <1>4
<1>. HIDE DEF u
<1>6. u.transport = t
  BY <1>5
<1>7. [u EXCEPT !.transport.raw = y] = [u EXCEPT !.transport = [t EXCEPT !.raw = y]]
  BY <1>6
<1>8. [u EXCEPT !.transport = [t EXCEPT !.raw = y]]
        = [ip |-> [raw |-> x, data |-> b], transport |-> [raw |-> y, data |-> d], body |-> e]
  BY <1>2, <1>5
<1>9. put(q, x, y) = [u EXCEPT !.transport.raw = y]
  BY DEF u, put
<1>. QED
  BY <1>7, <1>8, <1>9

\* build(): the headers are those of a packet with n bytes, the payload is untouched.
LEMMA BuildIs ==
  ASSUME NEW f, FirstFacts(f), NEW p, Pk(p, f), NEW n \in Nat, ihl(f) + thl(f) + n < U16
  PROVE  IsBuilt(build(p, n), p, f, p.body, n)
<1>. DEFINE iraw == p.ip.raw
            d == p.ip.data
            traw == p.transport.raw
            td == p.transport.data
            b == p.body
            len == ihl(f) + thl(f) + n
            i == set_total_length([raw |-> iraw, data |-> d], len)
            t == set_transport_length([raw |-> traw, data |-> td], n)
            j == ipBuilt(i)
            w == update_transport_checksum(t.raw, td, i.data, slice(b, 0, n))
<1>0. /\ ihl(f) \in Nat /\ 20 <= ihl(f) /\ U16 \in Nat /\ U16 <= 65536 /\ thl(f) \in {8, 20}
      /\ f[1] \div 16 = 4 \/ (f[1] \div 16 = 6 /\ ihl(f) = 40)
      /\ (protocol(f) = 6 /\ thl(f) = 20) \/ (protocol(f) = 17 /\ thl(f) = 8)
  BY DEF FirstFacts
<1>1. /\ p = [ip |-> [raw |-> iraw, data |-> d], transport |-> [raw |-> traw, data |-> td], body |-> b]
      /\ IpOk(iraw, d, f) /\ TrOk(traw, td, f) /\ b \in Seq(Octet) /\ Len(b) = U16 - (ihl(f) + thl(f))
  BY DEF Pk
<1>2. Len(iraw) = ihl(f) /\ Len(traw) = thl(f)
  BY <1>1 DEF IpOk, TrOk
<1>3. len \in Nat /\ len \in Half /\ len < U16 /\ len - (ihl(f) + thl(f)) = n /\ ihl(f) + thl(f) \in Nat
  BY <1>0 DEF Half
<1>4. plus16(payload_index(p), n) = len /\ minus16(len, payload_index(p)) = n
  <2>1. payload_index(p) = ihl(f) + thl(f)
    BY <1>2 DEF payload_index
  <2>2. plus16(ihl(f) + thl(f), n) = len
    BY <1>0, <1>3, Plus16
  <2>3. minus16(len, ihl(f) + thl(f)) = len - (ihl(f) + thl(f))
    <3>1. ihl(f) + thl(f) <= len
      BY <1>0
    <3>. QED
      BY <1>0, <1>3, <3>1, Minus16
  <2>. QED
    BY <1>3, <2>1, <2>2, <2>3
<1>5. t.data = td /\ t = [raw |-> t.raw, data |-> td]
  BY DEF set_transport_length
<1>6. i = [raw |-> i.raw, data |-> i.data] /\ Len(i.raw) = Len(iraw) /\ Len(t.raw) = Len(traw)
  BY DEF set_total_length, set_total_length_v4, set_payload_length, set_transport_length, write_u16
<1>7. build(p, n) = [ip |-> j, transport |-> [raw |-> w, data |-> td], body |-> b]
  <2>. DEFINE q == [p EXCEPT !.ip = set_total_length(@, len), !.transport = set_transport_length(@, n)]
  <2>. HIDE DEF iraw, d, traw, td, b, len
  <2>1. q = [ip |-> i, transport |-> t, body |-> b]
    <3>1. p.ip = [raw |-> iraw, data |-> d] /\ p.transport = [raw |-> traw, data |-> td] /\ p.body = b
      BY <1>1
    <3>2. i = set_total_length(p.ip, len) /\ t = set_transport_length(p.transport, n)
      BY <3>1
    <3>. HIDE DEF i, t
    <3>3. q = [p EXCEPT !.ip = i, !.transport = t]
      BY <3>2
    <3>. HIDE DEF q
    <3>. QED
      BY <1>1, <3>3
  <2>2. build(p, n) = compute_checksums(q, len)
    BY <1>4 DEF build
  <2>. HIDE DEF q, i, t
  <2>3. payload_index(q) = payload_index(p)
    BY <1>6, <2>1 DEF payload_index, iraw, traw
  <2>4. compute_checksums(q, len) =
          [q EXCEPT !.ip.raw = IF i.data.version = 4 THEN update_header_checksum(@, i.data) ELSE @,
                    !.transport.raw = update_transport_checksum(@, td, i.data, slice(b, 0, n))]
    BY <1>4, <1>5, <2>1, <2>3 DEF compute_checksums
  <2>5. @ = [ip |-> j, transport |-> [raw |-> w, data |-> td], body |-> b]
    <3>1. q.ip.raw = i.raw /\ q.ip.data = i.data /\ q.transport.raw = t.raw /\ q.transport.data = td /\ q.body = b
      BY <1>5, <2>1
    <3>. DEFINE x == IF i.data.version = 4 THEN update_header_checksum(i.raw, i.data) ELSE i.raw
    <3>2. j = [raw |-> x, data |-> i.data] /\ w = update_transport_checksum(t.raw, td, i.data, slice(b, 0, n))
      BY DEF ipBuilt
    <3>. HIDE DEF x, j, w
    <3>3. i = [raw |-> i.raw, data |-> i.data] /\ t = [raw |-> t.raw, data |-> td]
      BY <1>5, <1>6
    <3>4. [q EXCEPT !.ip.raw = x, !.transport.raw = w]
            = [ip |-> [raw |-> x, data |-> i.data], transport |-> [raw |-> w, data |-> td], body |-> b]
      <4>1. q = [ip |-> [raw |-> i.raw, data |-> i.data], transport |-> [raw |-> t.raw, data |-> td], body |-> b]
        <5>. HIDE DEF q
        <5>. QED
          BY <2>1, <3>3
      <4>. HIDE DEF q
      <4>2. put(q, x, w) = [ip |-> [raw |-> x, data |-> i.data], transport |-> [raw |-> w, data |-> td], body |-> b]
        BY <4>1, HeadersSet
      <4>. QED
        BY <4>2 DEF put
    <3>5. [q EXCEPT !.ip.raw = IF i.data.version = 4 THEN update_header_checksum(@, i.data) ELSE @,
                    !.transport.raw = update_transport_checksum(@, td, i.data, slice(b, 0, n))]
            = [q EXCEPT !.ip.raw = x, !.transport.raw = w]
      BY <3>1, <3>2 DEF x
    <3>. QED
      BY <3>2, <3>4, <3>5
  <2>. QED
    BY <2>2, <2>4, <2>5
<1>. HIDE DEF i, t, w, j, len
<1>8. IpBuilt(j.raw, j.data, f, len) /\ j.data = i.data
  <2>1. CASE f[1] \div 16 = 4
    BY <1>1, <1>3, <2>1, BuildIpV4 DEF i, j, ipBuilt
  <2>2. CASE f[1] \div 16 = 6 /\ ihl(f) = 40
    <3>1. 40 <= len
      BY <1>0, <2>2 DEF len
    <3>. QED
      BY <1>1, <1>3, <2>2, <3>1, BuildIpV6 DEF i, j, ipBuilt
  <2>. QED
    BY <1>0, <2>1, <2>2
<1>9. slice(b, 0, n) \in Seq(Octet) /\ Len(slice(b, 0, n)) = n
  <2>1. 0 \in Nat /\ 0 <= n /\ n <= Len(b)
    BY <1>0, <1>1
  <2>2. IsSlice(slice(b, 0, n), b, 0, n)
    BY <1>1, <2>1, Sliced
  <2>3. n - 0 = n
    OBVIOUS
  <2>. QED
    BY <2>2, <2>3 DEF IsSlice
<1>10. TrBuilt(w, td, j.raw, f, slice(b, 0, n), n) /\ KeepsAsked(w, traw, f)
  <2>. DEFINE s == slice(b, 0, n)
  <2>. HIDE DEF s
  <2>1. CASE protocol(f) = 6
    <3>1. len = ihl(f) + 20 + n
      BY <1>0, <2>1 DEF len
    <3>2. t.raw = traw
      <4>1. td \in DataTcp
        BY <1>1, <2>1 DEF TrOk
      <4>2. td.kind = "Tcp"
        BY <4>1 DEF DataTcp
      <4>. QED
        BY <4>2 DEF set_transport_length, t
    <3>3. w = update_transport_checksum(traw, td, j.data, s)
      BY <1>8, <3>2 DEF w, s
    <3>4. s \in Seq(Octet) /\ n = Len(s)
      BY <1>9 DEF s
    <3>5. TrOk(traw, td, f) /\ IpBuilt(j.raw, j.data, f, len) /\ len < U16
      BY <1>1, <1>3, <1>8
    <3>6. TrBuilt(w, td, j.raw, f, s, n) /\ KeepsAsked(w, traw, f)
      <4>. HIDE DEF traw, td
      <4>. QED
        BY <2>1, <3>1, <3>3, <3>4, <3>5, TcpBuilt
    <3>. QED
      BY <3>6 DEF s
  <2>2. CASE protocol(f) = 17
    <3>1. 8 + n < U16
      BY <1>0, <2>2
    <3>2. t.raw = write_u16(traw, 4, plus16(8, n))
      <4>1. td \in DataUdp
        BY <1>1, <2>2 DEF TrOk
      <4>2. td.kind = "Udp"
        BY <4>1 DEF DataUdp
      <4>3. "Udp" # "Tcp"
        OBVIOUS
      <4>. QED
        BY <4>2, <4>3 DEF set_transport_length, t
    <3>3. w = update_transport_checksum(write_u16(traw, 4, plus16(8, n)), td, i.data, s)
      BY <3>2 DEF w, s
    <3>4. TrBuilt(w, td, j.raw, f, s, n) /\ KeepsAsked(w, traw, f)
      <4>. HIDE DEF traw, td
      <4>. QED
        BY <1>1, <2>2, <3>1, <3>3, UdpBuilt DEF traw, td
    <3>. QED
      BY <3>4 DEF s
  <2>. QED
    BY <1>0, <2>1, <2>2
<1>. DEFINE r == [ip |-> j, transport |-> [raw |-> w, data |-> td], body |-> b]
<1>11. j = [raw |-> j.raw, data |-> j.data]
  BY DEF j, ipBuilt
<1>12. r.ip = j /\ r.transport.raw = w /\ r.transport.data = td /\ r.body = b
  OBVIOUS
<1>13. Pk(r, f)
  <2>1. IpOk(j.raw, j.data, f) /\ TrOk(w, td, f)
    BY <1>8, <1>10 DEF IpBuilt, TrBuilt
  <2>. QED
    BY <1>1, <1>11, <1>12, <2>1 DEF Pk
<1>. HIDE DEF r
<1>14. IsBuilt(r, p, f, b, n)
  BY <1>8, <1>10, <1>12, <1>13 DEF IsBuilt, len
<1>. QED
  BY <1>7, <1>14 DEF r

-----------------------------------------------------------------------------
(* The bytes that the device receives *)

\* The two parts of a concatenation.
LEMMA JoinParts ==
  ASSUME NEW a \in Seq(Octet), NEW b \in Seq(Octet)
  PROVE  slice(a \o b, 0, Len(a)) = a /\ slice(a \o b, Len(a), Len(a \o b)) = b
<1>. DEFINE c == a \o b
            s == slice(c, 0, Len(a))
            t == slice(c, Len(a), Len(c))
<1>1. IsJoin(c, a, b)
  BY Joined
<1>. HIDE DEF c
<1>2. /\ c \in Seq(Octet) /\ Len(c) = Len(a) + Len(b) /\ Len(a) \in Nat /\ Len(b) \in Nat
      /\ \A k \in 1 .. Len(a) : c[k] = a[k]
      /\ \A k \in 1 .. Len(b) : c[Len(a) + k] = b[k]
  BY <1>1 DEF IsJoin
<1>3. IsSlice(s, c, 0, Len(a))
  <2>1. 0 \in Nat /\ 0 <= Len(a) /\ Len(a) <= Len(c)
    BY <1>2
  <2>. QED
    BY <1>2, <2>1, Sliced
<1>4. IsSlice(t, c, Len(a), Len(c))
  <2>1. Len(a) <= Len(c) /\ Len(c) <= Len(c) /\ Len(c) \in Nat
    BY <1>2
  <2>. QED
    BY <1>2, <2>1, Sliced
<1>. HIDE DEF s, t
<1>5. /\ s \in Seq(Octet) /\ Len(s) = Len(a) /\ \A k \in 1 .. Len(a) : s[k] = c[k]
  <2>1. Len(a) - 0 = Len(a) /\ \A k \in 1 .. Len(a) : 0 + k = k
    BY <1>2
  <2>. QED
    BY <1>3, <2>1 DEF IsSlice
<1>6. /\ t \in Seq(Octet) /\ Len(t) = Len(b) /\ \A k \in 1 .. Len(b) : t[k] = c[Len(a) + k]
  <2>1. Len(c) - Len(a) = Len(b)
    BY <1>2
  <2>. QED
    BY <1>4, <2>1 DEF IsSlice
<1>7. Same(s, a) /\ Same(t, b)
  BY <1>2, <1>5, <1>6 DEF Same
<1>8. s = a /\ t = b
  BY <1>5, <1>6, <1>7, SameBytes
<1>. QED
  BY <1>8 DEF s, t, c

\* A prefix that ends in the second part.
LEMMA JoinPrefix ==
  ASSUME NEW a \in Seq(Octet), NEW b \in Seq(Octet), NEW n \in Nat, n <= Len(b)
  PROVE  slice(a \o b, 0, Len(a) + n) = a \o slice(b, 0, n)
<1>. DEFINE c == a \o b
            s == slice(c, 0, Len(a) + n)
            e == slice(b, 0, n)
            t == a \o e
<1>1. IsJoin(c, a, b)
  BY Joined
<1>. HIDE DEF c
<1>2. /\ c \in Seq(Octet) /\ Len(c) = Len(a) + Len(b) /\ Len(a) \in Nat /\ Len(b) \in Nat
      /\ \A k \in 1 .. Len(a) : c[k] = a[k]
      /\ \A k \in 1 .. Len(b) : c[Len(a) + k] = b[k]
  BY <1>1 DEF IsJoin
<1>3. IsSlice(s, c, 0, Len(a) + n) /\ IsSlice(e, b, 0, n)
  <2>1. 0 \in Nat /\ 0 <= Len(a) + n /\ Len(a) + n <= Len(c) /\ Len(a) + n \in Nat /\ 0 <= n
    BY <1>2
  <2>. QED
    BY <1>2, <2>1, Sliced
<1>. HIDE DEF s, e
<1>4. /\ s \in Seq(Octet) /\ Len(s) = Len(a) + n /\ \A k \in 1 .. (Len(a) + n) : s[k] = c[k]
      /\ e \in Seq(Octet) /\ Len(e) = n /\ \A k \in 1 .. n : e[k] = b[k]
  <2>1. /\ (Len(a) + n) - 0 = Len(a) + n /\ n - 0 = n
        /\ \A k \in 1 .. (Len(a) + n) : 0 + k = k
        /\ \A k \in 1 .. n : 0 + k = k
    BY <1>2
  <2>. QED
    BY <1>3, <2>1 DEF IsSlice
<1>5. IsJoin(t, a, e)
  BY <1>4, Joined
<1>. HIDE DEF t
<1>6. /\ t \in Seq(Octet) /\ Len(t) = Len(a) + n
      /\ \A k \in 1 .. Len(a) : t[k] = a[k]
      /\ \A k \in 1 .. n : t[Len(a) + k] = e[k]
  BY <1>4, <1>5 DEF IsJoin
<1>7. ASSUME NEW k \in 1 .. (Len(a) + n) PROVE s[k] = t[k]
  <2>0. s[k] = c[k]
    BY <1>4
  <2>1. CASE k <= Len(a)
    <3>1. k \in 1 .. Len(a)
      BY <1>2, <2>1
    <3>. QED
      BY <1>2, <1>6, <2>0, <3>1
  <2>2. CASE k > Len(a)
    <3>. DEFINE j == k - Len(a)
    <3>1. j \in 1 .. n /\ j \in 1 .. Len(b) /\ Len(a) + j = k
      BY <1>2, <2>2
    <3>. HIDE DEF j
    <3>2. c[Len(a) + j] = b[j] /\ t[Len(a) + j] = e[j] /\ e[j] = b[j]
      BY <1>2, <1>4, <1>6, <3>1
    <3>. QED
      BY <2>0, <3>1, <3>2
  <2>3. k <= Len(a) \/ k > Len(a)
    BY <1>2
  <2>. QED
    BY <2>1, <2>2, <2>3
<1>8. Same(s, t)
  BY <1>4, <1>6, <1>7 DEF Same
<1>9. s = t
  BY <1>4, <1>6, <1>8, SameBytes
<1>. QED
  BY <1>9 DEF s, t, c, e

\* A slice of the first part.
LEMMA SliceJoin ==
  ASSUME NEW a \in Seq(Octet), NEW b \in Seq(Octet), NEW i \in Nat, NEW j \in Nat, i <= j, j <= Len(a)
  PROVE  slice(a \o b, i, j) = slice(a, i, j)
<1>. DEFINE c == a \o b
            n == j - i
<1>0. n \in Nat /\ i + n = j
  OBVIOUS
<1>1. IsJoin(c, a, b)
  BY Joined
<1>. HIDE DEF c, n
<1>2. /\ c \in Seq(Octet) /\ Len(c) = Len(a) + Len(b) /\ Len(a) \in Nat /\ Len(b) \in Nat
      /\ \A k \in 1 .. Len(a) : c[k] = a[k]
  BY <1>1 DEF IsJoin
<1>3. i + n <= Len(c) /\ i + n <= Len(a)
  BY <1>0, <1>2
<1>4. SameAt(c, i, a, i, n)
  <2>1. \A k \in 1 .. n : i + k \in 1 .. Len(a)
    BY <1>0, <1>2
  <2>. QED
    BY <1>2, <2>1 DEF SameAt
<1>5. slice(c, i, i + n) = slice(a, i, i + n)
  BY <1>0, <1>2, <1>3, <1>4, SameSlices
<1>. QED
  BY <1>0, <1>5 DEF c

\* A packet of an IP header, a transport header and data.
IsPacket(raw, iraw, traw, s) ==
  /\ raw \in Seq(Octet) /\ Len(raw) = Len(iraw) + Len(traw) + Len(s)
  /\ raw = iraw \o (traw \o s)
  /\ slice(raw, 0, Len(iraw)) = iraw /\ slice(raw, Len(iraw), Len(raw)) = traw \o s
  /\ slice(raw, Len(iraw) + Len(traw), Len(raw)) = s
  /\ \A k \in 1 .. Len(iraw) : raw[k] = iraw[k]
  /\ \A k \in 1 .. Len(traw) : raw[Len(iraw) + k] = traw[k]

\* The first bytes of the buffer are a packet of its headers and the data.
LEMMA Assembled ==
  ASSUME NEW iraw \in Seq(Octet), NEW traw \in Seq(Octet), NEW b \in Seq(Octet), NEW n \in Nat, n <= Len(b)
  PROVE  IsPacket(slice(iraw \o traw \o b, 0, Len(iraw) + Len(traw) + n), iraw, traw, slice(b, 0, n))
<1>. DEFINE h == iraw \o traw
            s == slice(b, 0, n)
            raw == slice(iraw \o traw \o b, 0, Len(iraw) + Len(traw) + n)
            rest == traw \o s
<1>1. IsSlice(s, b, 0, n)
  <2>1. 0 \in Nat /\ 0 <= n
    OBVIOUS
  <2>. QED
    BY <2>1, Sliced
<1>. HIDE DEF s
<1>2. s \in Seq(Octet) /\ Len(s) = n
  <2>1. n - 0 = n
    OBVIOUS
  <2>. QED
    BY <1>1, <2>1 DEF IsSlice
<1>3. IsJoin(h, iraw, traw) /\ IsJoin(rest, traw, s)
  BY <1>2, Joined
<1>4. h \o s = iraw \o rest
  <2>1. Regrouped(iraw, traw, s)
    BY <1>2, Associative
  <2>. QED
    BY <2>1 DEF Regrouped
<1>5. raw = h \o s
  <2>1. h \in Seq(Octet) /\ Len(h) = Len(iraw) + Len(traw)
    <3>. HIDE DEF h
    <3>. QED
      BY <1>3 DEF IsJoin
  <2>2. slice(h \o b, 0, Len(h) + n) = h \o s
    <3>. HIDE DEF h
    <3>. QED
      BY <2>1, JoinPrefix DEF s
  <2>. QED
    BY <2>1, <2>2
<1>. HIDE DEF h, rest, raw
<1>6. /\ h \in Seq(Octet) /\ Len(h) = Len(iraw) + Len(traw)
      /\ \A k \in 1 .. Len(traw) : h[Len(iraw) + k] = traw[k]
      /\ rest \in Seq(Octet) /\ Len(rest) = Len(traw) + Len(s)
      /\ Len(iraw) \in Nat /\ Len(traw) \in Nat /\ Len(s) \in Nat
  BY <1>3 DEF IsJoin
<1>7. IsJoin(raw, iraw, rest) /\ IsJoin(raw, h, s)
  <2>1. IsJoin(iraw \o rest, iraw, rest) /\ IsJoin(h \o s, h, s)
    BY <1>2, <1>6, Joined
  <2>. QED
    BY <1>4, <1>5, <2>1
<1>8. /\ raw \in Seq(Octet) /\ Len(raw) = Len(iraw) + Len(traw) + Len(s)
      /\ \A k \in 1 .. Len(iraw) : raw[k] = iraw[k]
      /\ \A k \in 1 .. Len(h) : raw[k] = h[k]
  BY <1>6, <1>7 DEF IsJoin
<1>9. slice(raw, 0, Len(iraw)) = iraw /\ slice(raw, Len(iraw), Len(raw)) = rest
  BY <1>4, <1>5, <1>6, JoinParts
<1>10. slice(raw, Len(iraw) + Len(traw), Len(raw)) = s
  <2>1. slice(h \o s, Len(h), Len(h \o s)) = s
    BY <1>2, <1>6, JoinParts
  <2>. QED
    BY <1>5, <1>6, <2>1
<1>11. \A k \in 1 .. Len(traw) : raw[Len(iraw) + k] = traw[k]
  <2>1. \A k \in 1 .. Len(traw) : Len(iraw) + k \in 1 .. Len(h)
    BY <1>6
  <2>. QED
    BY <1>6, <1>8, <2>1
<1>12. IsPacket(raw, iraw, traw, s)
  <2>1. raw = iraw \o rest
    BY <1>4, <1>5
  <2>. QED
    BY <1>8, <1>9, <1>10, <1>11, <2>1 DEF IsPacket, rest
<1>. QED
  BY <1>12 DEF raw, s

\* A packet with headers like those of f.
LikeFirst(raw, f) == raw[1] = f[1] /\ ihl(raw) = ihl(f) /\ protocol(raw) = protocol(f)

\* The version, the length of the header and the protocol stay those of f.
LEMMA PacketLike ==
  ASSUME NEW f, FirstFacts(f), NEW iraw, NEW d, IpOk(iraw, d, f), NEW traw, NEW s, NEW raw, IsPacket(raw, iraw, traw, s)
  PROVE  LikeFirst(raw, f)
<1>0. ihl(f) \in Nat /\ 20 <= ihl(f) /\ (f[1] \div 16 = 4 \/ (f[1] \div 16 = 6 /\ ihl(f) = 40))
  BY DEF FirstFacts
<1>1. Len(iraw) = ihl(f) /\ \A k \in 1 .. ihl(f) : raw[k] = iraw[k]
  BY DEF IpOk, IsPacket
<1>2. 1 \in 1 .. ihl(f) /\ 7 \in 1 .. ihl(f) /\ 10 \in 1 .. ihl(f)
  BY <1>0
<1>3. raw[1] = iraw[1] /\ raw[7] = iraw[7] /\ raw[10] = iraw[10]
  BY <1>1, <1>2
<1>4. raw[1] = f[1]
  BY <1>3 DEF IpOk
<1>5. ihl(raw) = ihl(f)
  BY <1>4 DEF ihl
<1>6. CASE f[1] \div 16 = 4
  <2>1. raw[10] = f[10]
    BY <1>3, <1>6 DEF IpOk
  <2>2. protocol(raw) = raw[10] /\ protocol(f) = f[10]
    BY <1>4, <1>6 DEF protocol
  <2>. QED
    BY <1>4, <1>5, <2>1, <2>2 DEF LikeFirst
<1>7. CASE f[1] \div 16 = 6
  <2>1. raw[7] = f[7]
    BY <1>3, <1>7 DEF IpOk
  <2>2. protocol(raw) = raw[7] /\ protocol(f) = f[7]
    BY <1>4, <1>7 DEF protocol
  <2>. QED
    BY <1>4, <1>5, <2>1, <2>2 DEF LikeFirst
<1>. QED
  BY <1>0, <1>6, <1>7

\* The packet of a connection that f opened is one that the device accepts.
LEMMA PacketAccepted ==
  ASSUME NEW f, FirstFacts(f), NEW n \in Nat, NEW len, len = ihl(f) + thl(f) + n, len < U16,
         NEW iraw, NEW d, IpBuilt(iraw, d, f, len), NEW s \in Seq(Octet), Len(s) = n,
         NEW traw, NEW td, TrBuilt(traw, td, iraw, f, s, n), NEW raw, IsPacket(raw, iraw, traw, s)
  PROVE  Accepted(raw) /\ WholePacket(raw) /\ Len(raw) = len
<1>0. /\ ihl(f) \in Nat /\ 20 <= ihl(f) /\ U16 \in Nat /\ U16 <= 65536 /\ thl(f) \in {8, 20}
      /\ f[1] \div 16 = 4 \/ (f[1] \div 16 = 6 /\ ihl(f) = 40)
      /\ (protocol(f) = 6 /\ thl(f) = 20) \/ (protocol(f) = 17 /\ thl(f) = 8)
  BY DEF FirstFacts
<1>1. IpOk(iraw, d, f) /\ TrOk(traw, td, f)
  BY DEF IpBuilt, TrBuilt
<1>2. iraw \in Seq(Octet) /\ Len(iraw) = ihl(f) /\ traw \in Seq(Octet) /\ Len(traw) = thl(f)
  BY <1>1 DEF IpOk, TrOk
<1>3. /\ raw \in Seq(Octet) /\ Len(raw) = len
      /\ raw = iraw \o (traw \o s)
      /\ slice(raw, 0, ihl(f)) = iraw /\ slice(raw, ihl(f), Len(raw)) = traw \o s
      /\ \A k \in 1 .. ihl(f) : raw[k] = iraw[k]
      /\ \A k \in 1 .. thl(f) : raw[ihl(f) + k] = traw[k]
  BY <1>2 DEF IsPacket
<1>4. raw[1] = f[1] /\ ihl(raw) = ihl(f) /\ protocol(raw) = protocol(f)
  BY <1>1, PacketLike DEF LikeFirst
<1>5. /\ len \in Nat /\ len - ihl(f) = thl(f) + n /\ len \in 20 .. (U16 - 1) /\ ihl(f) \in 20 .. len
      /\ ihl(f) + thl(f) <= len
  BY <1>0
<1>6. read_u16(raw, 2) = read_u16(iraw, 2) /\ read_u16(raw, 4) = read_u16(iraw, 4)
  <2>1. 3 \in 1 .. ihl(f) /\ 4 \in 1 .. ihl(f) /\ 5 \in 1 .. ihl(f) /\ 6 \in 1 .. ihl(f)
    BY <1>0
  <2>2. raw[3] = iraw[3] /\ raw[4] = iraw[4] /\ raw[5] = iraw[5] /\ raw[6] = iraw[6]
    BY <1>3, <2>1
  <2>. QED
    BY <2>2 DEF read_u16
<1>7. LengthsAgree(raw)
  <2>1. CASE f[1] \div 16 = 4
    <3>1. read_u16(iraw, 2) = len
      BY <2>1 DEF IpBuilt
    <3>. QED
      BY <1>3, <1>4, <1>6, <2>1, <3>1 DEF LengthsAgree
  <2>2. CASE f[1] \div 16 = 6
    <3>1. read_u16(iraw, 4) = len - 40 /\ 40 + (len - 40) = len
      BY <1>5, <2>2 DEF IpBuilt
    <3>. QED
      BY <1>3, <1>4, <1>6, <2>2, <3>1 DEF LengthsAgree
  <2>. QED
    BY <1>0, <2>1, <2>2
<1>8. f[1] \div 16 = 4 => Verifies(slice(raw, 0, ihl(raw)))
  <2>1. f[1] \div 16 = 4 => Verifies(iraw)
    BY DEF IpBuilt
  <2>. QED
    BY <1>3, <1>4, <2>1
<1>9. protocol(f) = 6 => Verifies(PseudoHeader(raw) \o slice(raw, ihl(raw), Len(raw)))
  <2>. SUFFICES ASSUME protocol(f) = 6 PROVE Verifies(PseudoHeader(raw) \o slice(raw, ihl(raw), Len(raw)))
    OBVIOUS
  <2>1. Verifies((addresses(iraw, f) \o trailer(20 + n)) \o (traw \o s))
    BY DEF TrBuilt
  <2>2. Len(raw) - ihl(raw) = 20 + n
    BY <1>0, <1>3, <1>4, <1>5
  <2>3. (IF raw[1] \div 16 = 4 THEN slice(raw, 12, 20) ELSE slice(raw, 8, 40)) = addresses(iraw, f)
    <3>. DEFINE rest == traw \o s
    <3>0. raw = iraw \o rest /\ rest \in Seq(Octet) /\ iraw \in Seq(Octet)
      BY <1>2, <1>3
    <3>. HIDE DEF rest
    <3>1. CASE f[1] \div 16 = 4
      <4>1. 12 \in Nat /\ 20 \in Nat /\ 12 <= 20 /\ 20 <= Len(iraw)
        BY <1>0, <1>2
      <4>2. slice(raw, 12, 20) = slice(iraw, 12, 20)
        BY <3>0, <4>1, SliceJoin
      <4>. QED
        BY <1>4, <3>1, <4>2 DEF addresses
    <3>2. CASE f[1] \div 16 = 6 /\ ihl(f) = 40
      <4>1. 8 \in Nat /\ 40 \in Nat /\ 8 <= 40 /\ 40 <= Len(iraw)
        BY <1>2, <3>2
      <4>2. slice(raw, 8, 40) = slice(iraw, 8, 40)
        BY <3>0, <4>1, SliceJoin
      <4>3. f[1] \div 16 # 4
        BY <3>2
      <4>. QED
        BY <1>4, <4>2, <4>3 DEF addresses
    <3>. QED
      BY <1>0, <3>1, <3>2
  <2>4. PseudoHeader(raw) = addresses(iraw, f) \o <<0, 6, (20 + n) \div 256, (20 + n) % 256>>
    <3>1. protocol(raw) = 6
      BY <1>4
    <3>. QED
      BY <2>2, <2>3, <3>1, ZenonT(30) DEF PseudoHeader
  <2>5. PseudoHeader(raw) = addresses(iraw, f) \o trailer(20 + n)
    BY <2>4 DEF trailer
  <2>6. slice(raw, ihl(raw), Len(raw)) = traw \o s
    BY <1>3, <1>4
  <2>. QED
    BY <2>1, <2>5, <2>6
<1>10. protocol(f) = 17 => read_u16(slice(raw, ihl(raw), Len(raw)), 4) = Len(slice(raw, ihl(raw), Len(raw)))
  <2>. SUFFICES ASSUME protocol(f) = 17
                PROVE  read_u16(slice(raw, ihl(raw), Len(raw)), 4) = Len(slice(raw, ihl(raw), Len(raw)))
    OBVIOUS
  <2>. DEFINE t == traw \o s
  <2>1. slice(raw, ihl(raw), Len(raw)) = t
    BY <1>3, <1>4
  <2>2. IsJoin(t, traw, s)
    BY <1>2, Joined
  <2>. HIDE DEF t
  <2>3. thl(f) = 8 /\ read_u16(traw, 4) = 8 + n
    BY <1>0 DEF TrBuilt
  <2>4. Len(t) = 8 + n /\ \A k \in 1 .. 8 : t[k] = traw[k]
    BY <1>2, <2>2, <2>3 DEF IsJoin
  <2>5. t[5] = traw[5] /\ t[6] = traw[6]
    BY <2>4
  <2>6. read_u16(t, 4) = read_u16(traw, 4)
    BY <2>5 DEF read_u16
  <2>. QED
    BY <2>1, <2>3, <2>4, <2>6
<1>11. TransportSound(raw)
  <2>1. CASE protocol(f) = 6
    BY <1>4, <1>9, <2>1 DEF TransportSound
  <2>2. CASE protocol(f) = 17
    <3>1. protocol(raw) = 17 /\ protocol(raw) # 6
      BY <1>4, <2>2
    <3>. QED
      BY <1>10, <2>2, <3>1 DEF TransportSound
  <2>. QED
    BY <1>0, <2>1, <2>2
<1>12. Accepted(raw)
  BY <1>4, <1>7, <1>8, <1>11 DEF Accepted
<1>13. protocol(raw) = 17 => ihl(raw) + 8 <= Len(raw)
  BY <1>0, <1>3, <1>4, <1>5
<1>14. protocol(raw) = 6 => LET m == 4 * (raw[ihl(raw) + 13] \div 16)
                           IN  ihl(raw) + 20 <= Len(raw) /\ m >= 20 /\ ihl(raw) + m <= Len(raw)
  <2>. SUFFICES ASSUME protocol(f) = 6
                PROVE  LET m == 4 * (raw[ihl(raw) + 13] \div 16)
                       IN  ihl(raw) + 20 <= Len(raw) /\ m >= 20 /\ ihl(raw) + m <= Len(raw)
    BY <1>4
  <2>1. thl(f) = 20 /\ traw[13] \div 16 = 5
    BY <1>0, <1>1 DEF TrOk
  <2>2. raw[ihl(f) + 13] = traw[13]
    <3>1. 13 \in 1 .. thl(f)
      BY <2>1
    <3>. QED
      BY <1>3, <3>1
  <2>3. 4 * (raw[ihl(raw) + 13] \div 16) = 20
    BY <1>4, <2>1, <2>2
  <2>4. ihl(raw) + 20 <= Len(raw) /\ 20 >= 20
    BY <1>3, <1>4, <1>5, <2>1
  <2>. QED
    BY <2>3, <2>4
<1>15. raw[1] \div 16 \in {4, 6}
  BY <1>0, <1>4
<1>16. Len(raw) \in 20 .. (U16 - 1) /\ ihl(raw) \in 20 .. Len(raw)
  BY <1>3, <1>4, <1>5
<1>17. WholePacket(raw)
  BY <1>3, <1>7, <1>13, <1>14, <1>15, <1>16 DEF WholePacket
<1>. QED
  BY <1>3, <1>12, <1>17

\* What AsAsked asks of a packet.
AskedFor(raw, to, a, data) ==
  LET p == IpPacket(raw)
      q == IpPacket(to)
      t == p.transport[1]
  IN  /\ <<p.data.source, p.data.destination>> = <<q.data.destination, q.data.source>>
      /\ t.source_port = q.transport[1].destination_port
      /\ t.destination_port = q.transport[1].source_port
      /\ payload(p) = data
      /\ t.kind = "Tcp" =>
           <<t.sequence_number, t.acknowledgement_number, t.flags, t.window>>
             = <<a.seq, a.ack, a.flags, a.window>>

\* parse() finds the transport header behind the IP header.
LEMMA TransportParsed ==
  ASSUME NEW g, WholePacket(g), ParsedWhole(g), protocol(g) \in {6, 17}
  PROVE  IpPacket(g).transport = <<IF protocol(g) = 6 THEN TcpHeaderData(slice(g, ihl(g), Len(g)))
                                                     ELSE UdpHeaderData(slice(g, ihl(g), Len(g)))>>
<1>. DEFINE d == IpHeaderData(g)
            rest == slice(g, ihl(g), Len(g))
<1>0. /\ IpPacket(g).data = d /\ d.version = g[1] \div 16 /\ d.version \in {4, 6}
      /\ header_length(d) = ihl(g) /\ total_length(d) = Len(g)
      /\ d.version = 4 => d = Ipv4HeaderData(g)
      /\ d.version = 6 => d = Ipv6HeaderData(g)
  BY DEF ParsedWhole
<1>1. protocol(g) = 6 => d.protocol = "Tcp"
  <2>1. CASE d.version = 4
    <3>1. d.protocol = ProtocolV4(g[10]) /\ protocol(g) = g[10]
      BY <1>0, <2>1 DEF Ipv4HeaderData, protocol
    <3>. QED
      BY <3>1 DEF ProtocolV4
  <2>2. CASE d.version = 6
    <3>1. d.protocol = ProtocolV6(g[7]) /\ protocol(g) = g[7]
      BY <1>0, <2>2 DEF Ipv6HeaderData, protocol
    <3>. QED
      BY <3>1 DEF ProtocolV6
  <2>. QED
    BY <1>0, <2>1, <2>2
<1>2. protocol(g) = 17 => d.protocol = "Udp"
  <2>1. CASE d.version = 4
    <3>1. d.protocol = ProtocolV4(g[10]) /\ protocol(g) = g[10]
      BY <1>0, <2>1 DEF Ipv4HeaderData, protocol
    <3>. QED
      BY <3>1 DEF ProtocolV4
  <2>2. CASE d.version = 6
    <3>1. d.protocol = ProtocolV6(g[7]) /\ protocol(g) = g[7]
      BY <1>0, <2>2 DEF Ipv6HeaderData, protocol
    <3>. QED
      BY <3>1 DEF ProtocolV6
  <2>. QED
    BY <1>0, <2>1, <2>2
<1>. HIDE DEF d
<1>3. IpPacket(g).transport = CASE d.protocol = "Udp" -> <<UdpHeaderData(rest)>>
                                [] d.protocol = "Tcp" -> <<TcpHeaderData(rest)>>
                                [] OTHER -> << >>
  <2>1. rest = slice(g, header_length(d), total_length(d))
    BY <1>0
  <2>. HIDE DEF rest
  <2>. QED
    BY <2>1 DEF IpPacket, d
<1>. HIDE DEF rest
<1>4. CASE protocol(g) = 6
  <2>1. d.protocol = "Tcp" /\ d.protocol # "Udp"
    BY <1>1, <1>4
  <2>. QED
    BY <1>3, <1>4, <2>1 DEF rest
<1>5. CASE protocol(g) = 17
  <2>1. d.protocol = "Udp" /\ protocol(g) # 6
    BY <1>2, <1>5
  <2>. QED
    BY <1>3, <2>1 DEF rest
<1>. QED
  BY <1>4, <1>5

\* The ports of a packet.
Ports(g, src, dst) == IpPacket(g).transport[1].source_port = src /\ IpPacket(g).transport[1].destination_port = dst

\* Its ports are the first two words there.
LEMMA PortsParsed ==
  ASSUME NEW g, WholePacket(g), ParsedWhole(g), protocol(g) \in {6, 17},
         NEW h, h = ihl(g), h \in Nat, h + 4 <= Len(g)
  PROVE  Ports(g, 256 * g[h + 1] + g[h + 2], 256 * g[h + 3] + g[h + 4])
<1>. DEFINE rest == slice(g, h, Len(g))
<1>1. IpPacket(g).transport = <<IF protocol(g) = 6 THEN TcpHeaderData(rest) ELSE UdpHeaderData(rest)>>
  BY TransportParsed
<1>2. IsSlice(rest, g, h, Len(g))
  <2>1. g \in Seq(Octet)
    BY DEF WholePacket
  <2>2. Len(g) \in Nat /\ h <= Len(g) /\ Len(g) <= Len(g)
    BY <2>1
  <2>. QED
    BY <2>1, <2>2, Sliced
<1>. HIDE DEF rest
<1>3. rest[1] = g[h + 1] /\ rest[2] = g[h + 2] /\ rest[3] = g[h + 3] /\ rest[4] = g[h + 4]
  <2>0. Len(g) \in Nat
    BY DEF WholePacket
  <2>1. 1 \in 1 .. (Len(g) - h) /\ 2 \in 1 .. (Len(g) - h) /\ 3 \in 1 .. (Len(g) - h) /\ 4 \in 1 .. (Len(g) - h)
    BY <2>0
  <2>. QED
    BY <1>2, <2>1 DEF IsSlice
<1>4. read_u16(rest, 0) = 256 * g[h + 1] + g[h + 2] /\ read_u16(rest, 2) = 256 * g[h + 3] + g[h + 4]
  <2>1. /\ read_u16(rest, 0) = 256 * rest[0 + 1] + rest[0 + 2]
        /\ read_u16(rest, 2) = 256 * rest[2 + 1] + rest[2 + 2]
    BY DEF read_u16
  <2>2. 0 + 1 = 1 /\ 0 + 2 = 2 /\ 2 + 1 = 3 /\ 2 + 2 = 4
    OBVIOUS
  <2>. QED
    BY <1>3, <2>1, <2>2
<1>5. IpPacket(g).transport[1] = IF protocol(g) = 6 THEN TcpHeaderData(rest) ELSE UdpHeaderData(rest)
  BY <1>1
<1>6. /\ TcpHeaderData(rest).source_port = read_u16(rest, 0) /\ TcpHeaderData(rest).destination_port = read_u16(rest, 2)
      /\ UdpHeaderData(rest).source_port = read_u16(rest, 0) /\ UdpHeaderData(rest).destination_port = read_u16(rest, 2)
  BY DEF TcpHeaderData, UdpHeaderData
<1>7. /\ IpPacket(g).transport[1].source_port = read_u16(rest, 0)
      /\ IpPacket(g).transport[1].destination_port = read_u16(rest, 2)
  BY <1>5, <1>6
<1>. QED
  BY <1>4, <1>7 DEF Ports

\* The addresses of a packet that goes back.
LEMMA AddressesBack ==
  ASSUME NEW f, FirstFacts(f), NEW iraw, NEW d, IpOk(iraw, d, f), NEW traw, NEW s, NEW raw, IsPacket(raw, iraw, traw, s),
         WholePacket(raw), ParsedWhole(raw), Len(iraw) <= Len(raw)
  PROVE  /\ IpPacket(raw).data.source = IpPacket(f).data.destination
         /\ IpPacket(raw).data.destination = IpPacket(f).data.source
<1>. DEFINE e == IpHeaderData(raw)
            g == IpHeaderData(f)
<1>0. /\ ihl(f) \in Nat /\ 20 <= ihl(f) /\ (f[1] \div 16 = 4 \/ (f[1] \div 16 = 6 /\ ihl(f) = 40))
      /\ f \in Seq(Octet) /\ Len(f) \in Nat /\ ihl(f) + thl(f) <= Len(f) /\ thl(f) \in Nat
  BY DEF FirstFacts, thl
<1>1. raw[1] = f[1] /\ raw \in Seq(Octet) /\ Len(raw) \in Nat
  <2>1. raw[1] = f[1]
    BY PacketLike DEF LikeFirst
  <2>2. raw \in Seq(Octet)
    BY DEF IsPacket
  <2>. QED
    BY <2>1, <2>2
<1>2. IpPacket(raw).data = e /\ IpPacket(f).data = g
  BY DEF IpPacket
<1>3. Len(iraw) = ihl(f) /\ \A k \in 1 .. ihl(f) : raw[k] = iraw[k]
  BY DEF IpOk, IsPacket
<1>4. CASE f[1] \div 16 = 4
  <2>1. e = Ipv4HeaderData(raw) /\ g = Ipv4HeaderData(f)
    BY <1>1, <1>4 DEF IpHeaderData
  <2>2. /\ e.source = read_u32(raw, 12) /\ e.destination = read_u32(raw, 16)
        /\ g.source = read_u32(f, 12) /\ g.destination = read_u32(f, 16)
    BY <2>1 DEF Ipv4HeaderData
  <2>3. Crossed(iraw, f)
    BY <1>4 DEF IpOk
  <2>4. ASSUME NEW k \in 1 .. 4 PROVE raw[12 + k] = f[16 + k] /\ raw[16 + k] = f[12 + k]
    <3>1. 12 + k \in 1 .. ihl(f) /\ 16 + k \in 1 .. ihl(f)
      BY <1>0
    <3>2. raw[12 + k] = iraw[12 + k] /\ raw[16 + k] = iraw[16 + k]
      BY <1>3, <3>1
    <3>. QED
      BY <2>3, <3>2 DEF Crossed
  <2>5. /\ raw[13] = f[17] /\ raw[14] = f[18] /\ raw[15] = f[19] /\ raw[16] = f[20]
        /\ raw[17] = f[13] /\ raw[18] = f[14] /\ raw[19] = f[15] /\ raw[20] = f[16]
    <3>1. /\ 12 + 1 = 13 /\ 12 + 2 = 14 /\ 12 + 3 = 15 /\ 12 + 4 = 16 /\ 16 + 1 = 17 /\ 16 + 2 = 18 /\ 16 + 3 = 19 /\ 16 + 4 = 20
          /\ 1 \in 1 .. 4 /\ 2 \in 1 .. 4 /\ 3 \in 1 .. 4 /\ 4 \in 1 .. 4
      OBVIOUS
    <3>. QED
      BY <2>4, <3>1
  <2>6. read_u32(raw, 12) = read_u32(f, 16) /\ read_u32(raw, 16) = read_u32(f, 12)
    BY <2>5 DEF read_u32, read_u16
  <2>. QED
    BY <1>2, <2>2, <2>6
<1>5. CASE f[1] \div 16 = 6 /\ ihl(f) = 40
  <2>1. e = Ipv6HeaderData(raw) /\ g = Ipv6HeaderData(f)
    <3>1. raw[1] \div 16 # 4 /\ f[1] \div 16 # 4
      BY <1>1, <1>5
    <3>. QED
      BY <3>1 DEF IpHeaderData
  <2>2. /\ e.source = slice(raw, 8, 24) /\ e.destination = slice(raw, 24, 40)
        /\ g.source = slice(f, 8, 24) /\ g.destination = slice(f, 24, 40)
    BY <2>1 DEF Ipv6HeaderData
  <2>3. CrossedV6(iraw, f)
    BY <1>5 DEF IpOk
  <2>4. ASSUME NEW k \in 1 .. 16 PROVE raw[8 + k] = f[24 + k] /\ raw[24 + k] = f[8 + k]
    <3>1. 8 + k \in 1 .. ihl(f) /\ 24 + k \in 1 .. ihl(f)
      BY <1>5
    <3>2. raw[8 + k] = iraw[8 + k] /\ raw[24 + k] = iraw[24 + k]
      BY <1>3, <3>1
    <3>. QED
      BY <2>3, <3>2 DEF CrossedV6
  <2>5. SameAt(raw, 8, f, 24, 16) /\ SameAt(raw, 24, f, 8, 16)
    BY <2>4 DEF SameAt
  <2>6. 8 \in Nat /\ 24 \in Nat /\ 16 \in Nat /\ 24 + 16 <= Len(raw) /\ 8 + 16 <= Len(raw) /\ 24 + 16 <= Len(f) /\ 8 + 16 <= Len(f)
    <3>1. 40 <= Len(raw) /\ Len(raw) \in Nat
      BY <1>1, <1>3, <1>5
    <3>2. 40 <= Len(f) /\ Len(f) \in Nat
      BY <1>0, <1>5
    <3>. QED
      BY <3>1, <3>2
  <2>7. slice(raw, 8, 8 + 16) = slice(f, 24, 24 + 16) /\ slice(raw, 24, 24 + 16) = slice(f, 8, 8 + 16)
    BY <1>0, <1>1, <2>5, <2>6, SameSlices
  <2>8. 8 + 16 = 24 /\ 24 + 16 = 40
    OBVIOUS
  <2>9. slice(raw, 8, 24) = slice(f, 24, 40) /\ slice(raw, 24, 40) = slice(f, 8, 24)
    BY <2>7, <2>8
  <2>. QED
    BY <1>2, <2>2, <2>9
<1>. QED
  BY <1>0, <1>4, <1>5

\* It is also the one that was asked for.
LEMMA PacketAsked ==
  ASSUME NEW f, FirstFacts(f), NEW n \in Nat, NEW len, len = ihl(f) + thl(f) + n, len < U16,
         NEW iraw, NEW d, IpBuilt(iraw, d, f, len), NEW s \in Seq(Octet), Len(s) = n,
         NEW traw, NEW td, TrBuilt(traw, td, iraw, f, s, n), NEW raw, IsPacket(raw, iraw, traw, s),
         NEW a, protocol(f) = 6 => Carries(traw, a)
  PROVE  AskedFor(raw, f, a, s)
<1>0. /\ ihl(f) \in Nat /\ 20 <= ihl(f) /\ WholePacket(f) /\ ParsedWhole(f) /\ f \in Seq(Octet)
      /\ ihl(f) + thl(f) <= Len(f) /\ thl(f) \in {8, 20}
      /\ (protocol(f) = 6 /\ thl(f) = 20) \/ (protocol(f) = 17 /\ thl(f) = 8)
  BY DEF FirstFacts
<1>1. IpOk(iraw, d, f) /\ TrOk(traw, td, f)
  BY DEF IpBuilt, TrBuilt
<1>2. iraw \in Seq(Octet) /\ Len(iraw) = ihl(f) /\ traw \in Seq(Octet) /\ Len(traw) = thl(f)
  BY <1>1 DEF IpOk, TrOk
<1>3. Accepted(raw) /\ WholePacket(raw) /\ Len(raw) = len
  BY PacketAccepted
<1>4. ParsedWhole(raw)
  BY <1>3, WholeParsed
<1>5. raw[1] = f[1] /\ ihl(raw) = ihl(f) /\ protocol(raw) = protocol(f)
  BY <1>1, PacketLike DEF LikeFirst
<1>6. /\ raw \in Seq(Octet) /\ slice(raw, ihl(f), Len(raw)) = traw \o s
      /\ slice(raw, ihl(f) + thl(f), Len(raw)) = s
      /\ \A k \in 1 .. thl(f) : raw[ihl(f) + k] = traw[k]
  BY <1>2 DEF IsPacket
<1>7. /\ IpPacket(raw).data.source = IpPacket(f).data.destination
      /\ IpPacket(raw).data.destination = IpPacket(f).data.source
  <2>1. Len(iraw) <= Len(raw)
    BY <1>0, <1>2, <1>3
  <2>. QED
    BY <1>1, <1>3, <1>4, <2>1, AddressesBack
<1>8. /\ IpPacket(raw).transport[1].source_port = IpPacket(f).transport[1].destination_port
      /\ IpPacket(raw).transport[1].destination_port = IpPacket(f).transport[1].source_port
  <2>. DEFINE h == ihl(f)
  <2>1. h \in Nat /\ h + 4 <= Len(raw) /\ h + 4 <= Len(f) /\ protocol(f) \in {6, 17} /\ protocol(raw) \in {6, 17} /\ h = ihl(raw)
    BY <1>0, <1>3, <1>5
  <2>2. Ports(f, 256 * f[h + 1] + f[h + 2], 256 * f[h + 3] + f[h + 4])
    BY <1>0, <2>1, PortsParsed
  <2>3. Ports(raw, 256 * raw[h + 1] + raw[h + 2], 256 * raw[h + 3] + raw[h + 4])
    BY <1>3, <1>4, <2>1, PortsParsed
  <2>4. 1 \in 1 .. thl(f) /\ 2 \in 1 .. thl(f) /\ 3 \in 1 .. thl(f) /\ 4 \in 1 .. thl(f)
    BY <1>0
  <2>5. raw[h + 1] = traw[1] /\ raw[h + 2] = traw[2] /\ raw[h + 3] = traw[3] /\ raw[h + 4] = traw[4]
    BY <1>6, <2>4
  <2>6. traw[1] = f[h + 3] /\ traw[2] = f[h + 4] /\ traw[3] = f[h + 1] /\ traw[4] = f[h + 2]
    BY <1>1 DEF TrOk
  <2>. HIDE DEF h
  <2>7. /\ 256 * raw[h + 1] + raw[h + 2] = 256 * f[h + 3] + f[h + 4]
        /\ 256 * raw[h + 3] + raw[h + 4] = 256 * f[h + 1] + f[h + 2]
    BY <2>5, <2>6
  <2>. QED
    BY <2>2, <2>3, <2>7 DEF Ports
<1>. DEFINE t == traw \o s
            q == IF protocol(f) = 6 THEN TcpHeaderData(t) ELSE UdpHeaderData(t)
<1>9. IpPacket(raw).transport = <<q>>
  <2>1. protocol(raw) \in {6, 17}
    BY <1>0, <1>5
  <2>2. IpPacket(raw).transport = <<IF protocol(raw) = 6 THEN TcpHeaderData(slice(raw, ihl(raw), Len(raw)))
                                                        ELSE UdpHeaderData(slice(raw, ihl(raw), Len(raw)))>>
    BY <1>3, <1>4, <2>1, TransportParsed
  <2>3. slice(raw, ihl(raw), Len(raw)) = t
    BY <1>5, <1>6
  <2>. QED
    BY <1>5, <2>2, <2>3
<1>10. IsJoin(t, traw, s)
  BY <1>2, Joined
<1>. HIDE DEF t
<1>11. \A k \in 1 .. thl(f) : t[k] = traw[k]
  BY <1>2, <1>10 DEF IsJoin
<1>12. transport_header_length(q) = thl(f)
  <2>1. CASE protocol(f) = 6
    <3>1. q = TcpHeaderData(t) /\ thl(f) = 20 /\ traw[13] \div 16 = 5
      BY <1>0, <1>1, <2>1 DEF TrOk
    <3>2. 13 \in 1 .. thl(f)
      BY <3>1
    <3>3. t[13] \div 16 = 5
      BY <1>11, <3>1, <3>2
    <3>4. TcpHeaderData(t).kind = "Tcp" /\ TcpHeaderData(t).header_length = 4 * (t[13] \div 16)
      BY DEF TcpHeaderData
    <3>5. 4 * (t[13] \div 16) = 20
      BY <3>3
    <3>. QED
      BY <3>1, <3>4, <3>5 DEF transport_header_length
  <2>2. CASE protocol(f) = 17
    <3>1. q = UdpHeaderData(t) /\ thl(f) = 8
      BY <1>0, <2>2
    <3>2. UdpHeaderData(t).kind = "Udp" /\ "Udp" # "Tcp"
      BY DEF UdpHeaderData
    <3>. QED
      BY <3>1, <3>2 DEF transport_header_length
  <2>. QED
    BY <1>0, <2>1, <2>2
<1>13. payload(IpPacket(raw)) = s
  <2>1. IpPacket(raw).raw = raw /\ header_length(IpPacket(raw).data) = ihl(f)
    BY <1>4, <1>5 DEF ParsedWhole
  <2>2. IpPacket(raw).transport[1] = q
    BY <1>9
  <2>3. payload(IpPacket(raw)) = slice(raw, ihl(f) + thl(f), Len(raw))
    <3>. HIDE DEF q
    <3>. QED
      BY <1>12, <2>1, <2>2 DEF payload
  <2>. QED
    BY <1>6, <2>3
<1>14. q.kind = "Tcp" => /\ q.sequence_number = a.seq /\ q.acknowledgement_number = a.ack
                         /\ q.flags = a.flags /\ q.window = a.window
  <2>1. CASE protocol(f) = 17
    <3>1. q = UdpHeaderData(t)
      BY <2>1
    <3>2. UdpHeaderData(t).kind = "Udp" /\ "Udp" # "Tcp"
      BY DEF UdpHeaderData
    <3>. QED
      BY <3>1, <3>2
  <2>2. CASE protocol(f) = 6
    <3>1. thl(f) = 20 /\ Carries(traw, a) /\ q = TcpHeaderData(t)
      BY <1>0, <2>2
    <3>2. \A k \in 1 .. 20 : t[k] = traw[k]
      BY <1>11, <3>1
    <3>3. read_u32(t, 4) = read_u32(traw, 4) /\ read_u32(t, 8) = read_u32(traw, 8)
      <4>1. /\ t[5] = traw[5] /\ t[6] = traw[6] /\ t[7] = traw[7] /\ t[8] = traw[8]
            /\ t[9] = traw[9] /\ t[10] = traw[10] /\ t[11] = traw[11] /\ t[12] = traw[12]
        BY <3>2
      <4>. QED
        BY <4>1 DEF read_u32, read_u16
    <3>4. read_u16(t, 12) = read_u16(traw, 12) /\ read_u16(t, 14) = read_u16(traw, 14)
      <4>1. t[13] = traw[13] /\ t[14] = traw[14] /\ t[15] = traw[15] /\ t[16] = traw[16]
        BY <3>2
      <4>. QED
        BY <4>1 DEF read_u16
    <3>5. /\ TcpHeaderData(t).sequence_number = read_u32(t, 4)
          /\ TcpHeaderData(t).acknowledgement_number = read_u32(t, 8)
          /\ TcpHeaderData(t).flags = read_u16(t, 12) % 512 /\ TcpHeaderData(t).window = read_u16(t, 14)
      BY DEF TcpHeaderData
    <3>. QED
      BY <3>1, <3>3, <3>4, <3>5 DEF Carries
  <2>. QED
    BY <1>0, <2>1, <2>2
<1>. HIDE DEF q
<1>. QED
  BY <1>7, <1>8, <1>9, <1>13, <1>14 DEF AskedFor

\* What a step gives the device in answer to what was asked.
Good(raw, f, asked) == Accepted(raw) /\ AskedFor(raw, f, asked[1], asked[2])

\* What build() leaves in the buffer is accepted, and is what was asked for.
LEMMA PacketGood ==
  ASSUME NEW f, FirstFacts(f), NEW p, NEW r, NEW b, NEW n \in Nat, ihl(f) + thl(f) + n < U16, IsBuilt(r, p, f, b, n),
         NEW a, protocol(f) = 6 => Carries(p.transport.raw, a)
  PROVE  /\ Good(packet(r), f, <<a, slice(b, 0, n)>>)
         /\ Good(inflate(r, total_length(r.ip.data)), f, <<a, slice(b, 0, n)>>)
<1>. DEFINE iraw == r.ip.raw
            d == r.ip.data
            traw == r.transport.raw
            td == r.transport.data
            s == slice(b, 0, n)
            len == ihl(f) + thl(f) + n
            raw == inflate(r, total_length(d))
<1>0. /\ ihl(f) \in Nat /\ thl(f) \in Nat /\ U16 \in Nat
  BY DEF FirstFacts
<1>1. /\ Pk(r, f) /\ r.body = b /\ IpBuilt(iraw, d, f, len) /\ TrBuilt(traw, td, iraw, f, s, n)
      /\ KeepsAsked(traw, p.transport.raw, f)
  BY DEF IsBuilt
<1>2. IpOk(iraw, d, f) /\ TrOk(traw, td, f) /\ b \in Seq(Octet) /\ Len(b) = U16 - (ihl(f) + thl(f))
  BY <1>1 DEF Pk
<1>3. iraw \in Seq(Octet) /\ Len(iraw) = ihl(f) /\ traw \in Seq(Octet) /\ Len(traw) = thl(f)
  BY <1>2 DEF IpOk, TrOk
<1>4. total_length(d) = len
  BY <1>1 DEF IpBuilt
<1>5. 0 <= n /\ n <= Len(b)
  BY <1>0, <1>2
<1>6. s \in Seq(Octet) /\ Len(s) = n
  <2>1. IsSlice(s, b, 0, n)
    BY <1>2, <1>5, Sliced
  <2>2. n - 0 = n
    OBVIOUS
  <2>. HIDE DEF s
  <2>. QED
    BY <2>1, <2>2 DEF IsSlice
<1>7. IsPacket(raw, iraw, traw, s)
  <2>1. raw = slice(iraw \o traw \o b, 0, Len(iraw) + Len(traw) + n)
    BY <1>1, <1>3, <1>4 DEF inflate, buffer
  <2>2. IsPacket(slice(iraw \o traw \o b, 0, Len(iraw) + Len(traw) + n), iraw, traw, s)
    BY <1>2, <1>3, <1>5, Assembled
  <2>. QED
    BY <2>1, <2>2
<1>8. protocol(f) = 6 => Carries(traw, a)
  BY <1>1 DEF KeepsAsked
<1>9. packet(r) = raw
  BY DEF packet
<1>. HIDE DEF iraw, d, traw, td, s, raw, len
<1>10. len = ihl(f) + thl(f) + n /\ len < U16
  BY DEF len
<1>11. Accepted(raw)
  BY <1>1, <1>6, <1>7, <1>10, PacketAccepted
<1>12. AskedFor(raw, f, a, s)
  BY <1>1, <1>6, <1>7, <1>8, <1>10, PacketAsked
<1>13. <<a, s>>[1] = a /\ <<a, s>>[2] = s
  OBVIOUS
<1>14. Good(raw, f, <<a, s>>)
  BY <1>11, <1>12, <1>13 DEF Good
<1>. QED
  BY <1>9, <1>14 DEF raw, s, d

-----------------------------------------------------------------------------
(* The Packetizer of a new connection *)

\* swap_source_and_destination() of a transport header.
LEMMA SwapPorts ==
  ASSUME NEW f, FirstFacts(f), NEW x \in Seq(Octet), Len(x) = thl(f), NEW d,
         x[1] = f[ihl(f) + 1], x[2] = f[ihl(f) + 2], x[3] = f[ihl(f) + 3], x[4] = f[ihl(f) + 4],
         protocol(f) = 6 => d \in DataTcp /\ x[13] \div 16 = 5, protocol(f) = 17 => d \in DataUdp,
         NEW h, h = swap_ports([raw |-> x, data |-> d])
  PROVE  TrOk(h.raw, h.data, f) /\ h = [raw |-> h.raw, data |-> h.data]
<1>. DEFINE w == swapped(x, 0, 2)
            e == [d EXCEPT !.source_port = d.destination_port, !.destination_port = d.source_port]
<1>0. (protocol(f) = 6 /\ thl(f) = 20) \/ (protocol(f) = 17 /\ thl(f) = 8)
  BY DEF FirstFacts
<1>1. h = [raw |-> w, data |-> e]
  BY DEF swap_ports
<1>2. IsSwap(w, x, 0, 2)
  <2>1. 0 \in Nat /\ 2 \in Nat /\ 0 + 2 * 2 <= Len(x)
    BY <1>0
  <2>. QED
    BY <2>1, Swapped
<1>. HIDE DEF w
<1>3. w \in Seq(Octet) /\ Len(w) = thl(f)
  BY <1>2 DEF IsSwap
<1>4. \A k \in 1 .. 2 : w[0 + k] = x[(0 + 2) + k] /\ w[(0 + 2) + k] = x[0 + k]
  BY <1>2 DEF IsSwap
<1>5. w[1] = x[3] /\ w[2] = x[4] /\ w[3] = x[1] /\ w[4] = x[2]
  <2>1. /\ 1 \in 1 .. 2 /\ 2 \in 1 .. 2 /\ 0 + 1 = 1 /\ 0 + 2 = 2
        /\ (0 + 2) + 1 = 3 /\ (0 + 2) + 2 = 4
    OBVIOUS
  <2>. QED
    BY <1>4, <2>1
<1>6. protocol(f) = 6 => w[13] = x[13]
  <2>1. ASSUME protocol(f) = 6 PROVE 13 \in 1 .. Len(x) /\ 13 > 0 + 2 * 2
    BY <1>0, <2>1
  <2>. QED
    BY <1>2, <2>1 DEF IsSwap
<1>7. protocol(f) = 6 => e \in DataTcp
  BY DEF DataTcp
<1>8. protocol(f) = 17 => e \in DataUdp
  BY DEF DataUdp
<1>. HIDE DEF e
<1>9. TrOk(w, e, f)
  BY <1>3, <1>5, <1>6, <1>7, <1>8 DEF TrOk
<1>. QED
  BY <1>1, <1>9

\* set_data_offset(5) writes the data offset and keeps the flags.
LEMMA ShrinkArith ==
  ASSUME NEW x \in Nat
  PROVE  /\ (x % 4096) + 5 * 4096 \in Half
         /\ (((x % 4096) + 5 * 4096) \div 256) \div 16 = 5
<1>. DEFINE r == x % 4096
<1>1. r \in Nat /\ r < 4096
  OBVIOUS
<1>. HIDE DEF r
<1>2. r + 5 * 4096 \in Half
  BY <1>1 DEF Half
<1>3. (r + 5 * 4096) \div 256 = (r \div 256) + 80 /\ r \div 256 \in Nat /\ r \div 256 < 16
  BY <1>1
<1>4. ((r \div 256) + 80) \div 16 = 5
  BY <1>3
<1>. QED
  BY <1>2, <1>3, <1>4 DEF r

\* The transport header of create().
firstTransport(f) ==
  LET t == transport_header(IpPacket(f))
  IN  IF t.data.kind = "Udp" THEN t ELSE shrink_options([t EXCEPT !.raw = slice(@, 0, 20)])

\* What it was cut from.
IsCut(t, f, h, n) == t \in Seq(Octet) /\ Len(t) = n /\ \A k \in 1 .. n : t[k] = f[h + k]

\* The bytes that are cut out of the first packet.
LEMMA CutAt ==
  ASSUME NEW f \in Seq(Octet), NEW h \in Nat, NEW n \in Nat, 4 <= n, h + n <= Len(f), NEW t, t = slice(f, h, h + n)
  PROVE  IsCut(t, f, h, n)
<1>1. h + n \in Nat /\ h <= h + n /\ (h + n) - h = n
  OBVIOUS
<1>2. IsSlice(t, f, h, h + n)
  BY <1>1, Sliced
<1>. QED
  BY <1>1, <1>2 DEF IsSlice, IsCut

\* A u32 that is read is a pair of u16.
LEMMA HalfWords ==
  ASSUME NEW t \in Seq(Octet), NEW i \in Nat, i + 4 <= Len(t)
  PROVE  read_u32(t, i) \in Half \X Half
<1>1. i + 2 <= Len(t) /\ i + 2 \in Nat /\ (i + 2) + 2 <= Len(t)
  OBVIOUS
<1>2. read_u16(t, i) \in Half /\ read_u16(t, i + 2) \in Half
  BY <1>1, WordTyped
<1>. QED
  BY <1>2 DEF read_u32

\* The TCP header of TcpConnection::create(): twenty bytes, no options.
LEMMA FirstTcp ==
  ASSUME NEW f, FirstFacts(f), protocol(f) = 6
  PROVE  \E x, d : /\ firstTransport(f) = [raw |-> x, data |-> d]
                   /\ TrOk(swap_ports([raw |-> x, data |-> d]).raw, swap_ports([raw |-> x, data |-> d]).data, f)
<1>. DEFINE at == ihl(f)
            rest == slice(f, at, Len(f))
            q == TcpHeaderData(rest)
            n == 4 * (f[at + 13] \div 16)
            t == slice(f, at, at + n)
            s == slice(t, 0, 20)
            v == (read_u16(s, 12) % 4096) + 5 * 4096
            x == write_u16(s, 12, v)
            d == [q EXCEPT !.header_length = 20]
<1>0. /\ at \in Nat /\ 20 <= at /\ WholePacket(f) /\ ParsedWhole(f) /\ f \in Seq(Octet) /\ Len(f) \in Nat
      /\ at + 20 <= Len(f) /\ thl(f) = 20
  BY DEF FirstFacts, thl
<1>1. at + 20 <= Len(f) /\ n >= 20 /\ at + n <= Len(f)
  BY <1>0 DEF WholePacket
<1>2. n \in Nat
  <2>1. at + 13 \in 1 .. Len(f)
    BY <1>0
  <2>2. f[at + 13] \in Nat
    BY <1>0, <2>1, ByteAt
  <2>. QED
    BY <2>2
<1>3. rest \in Seq(Octet) /\ Len(rest) = Len(f) - at /\ Len(rest) >= 20 /\ \A k \in 1 .. 20 : rest[k] = f[at + k]
  <2>1. at <= Len(f) /\ Len(f) <= Len(f)
    BY <1>0
  <2>2. IsSlice(rest, f, at, Len(f))
    BY <1>0, <2>1, Sliced
  <2>. HIDE DEF rest, at
  <2>3. \A k \in 1 .. 20 : k \in 1 .. (Len(f) - at)
    BY <1>0
  <2>4. Len(f) - at >= 20
    BY <1>0
  <2>. QED
    BY <2>2, <2>3, <2>4 DEF IsSlice
<1>. HIDE DEF rest
<1>4. q.header_length = n /\ q.kind = "Tcp"
  <2>1. 13 \in 1 .. 20
    OBVIOUS
  <2>2. rest[13] = f[at + 13]
    BY <1>3, <2>1
  <2>. QED
    BY <2>2 DEF TcpHeaderData
<1>5. q \in [kind : {"Tcp"}, source_port : Half, destination_port : Half,
             sequence_number : Half \X Half, acknowledgement_number : Half \X Half,
             header_length : Nat, flags : Half, window : Half]
  <2>1. /\ 0 + 2 <= Len(rest) /\ 2 + 2 <= Len(rest) /\ 4 + 4 <= Len(rest) /\ 8 + 4 <= Len(rest)
        /\ 12 + 2 <= Len(rest) /\ 14 + 2 <= Len(rest)
        /\ 0 \in Nat /\ 2 \in Nat /\ 4 \in Nat /\ 8 \in Nat /\ 12 \in Nat /\ 14 \in Nat
    BY <1>3, SMTT(30)
  <2>2. /\ read_u16(rest, 0) \in Half /\ read_u16(rest, 2) \in Half
        /\ read_u16(rest, 12) \in Half /\ read_u16(rest, 14) \in Half
    BY <1>3, <2>1, WordTyped
  <2>3. read_u32(rest, 4) \in Half \X Half /\ read_u32(rest, 8) \in Half \X Half
    BY <1>3, <2>1, HalfWords
  <2>4. read_u16(rest, 12) % 512 \in Half
    BY <2>2 DEF Half
  <2>5. 4 * (rest[13] \div 16) \in Nat
    BY <1>2, <1>4 DEF TcpHeaderData
  <2>. QED
    BY <2>2, <2>3, <2>4, <2>5 DEF TcpHeaderData
<1>. HIDE DEF q
<1>6. transport_header(IpPacket(f)) = [raw |-> t, data |-> q]
  <2>1. IpPacket(f).raw = f /\ header_length(IpPacket(f).data) = at
    BY <1>0 DEF ParsedWhole
  <2>2. IpPacket(f).transport[1] = q
    <3>1. protocol(f) \in {6, 17}
      OBVIOUS
    <3>2. IpPacket(f).transport = <<IF protocol(f) = 6 THEN TcpHeaderData(slice(f, ihl(f), Len(f)))
                                                        ELSE UdpHeaderData(slice(f, ihl(f), Len(f)))>>
      BY <1>0, <3>1, TransportParsed
    <3>3. IpPacket(f).transport = <<q>>
      BY <3>2 DEF q, rest
    <3>. QED
      BY <3>3
  <2>3. transport_header_length(q) = n
    BY <1>4 DEF transport_header_length
  <2>. QED
    BY <2>1, <2>2, <2>3 DEF transport_header
<1>7. t \in Seq(Octet) /\ Len(t) = n /\ \A k \in 1 .. n : t[k] = f[at + k]
  <2>1. 4 <= n
    BY <1>1, <1>2
  <2>. QED
    <3>1. t = slice(f, at, at + n)
      OBVIOUS
    <3>. HIDE DEF t, n, at
    <3>2. IsCut(t, f, at, n)
      BY <1>0, <1>1, <1>2, <2>1, <3>1, CutAt
    <3>. QED
      BY <3>2 DEF IsCut
<1>. HIDE DEF t
<1>8. s \in Seq(Octet) /\ Len(s) = 20 /\ \A k \in 1 .. 20 : s[k] = t[k]
  <2>1. 0 \in Nat /\ 20 \in Nat /\ 4 <= 20 /\ 0 + 20 <= Len(t) /\ s = slice(t, 0, 0 + 20)
    BY <1>1, <1>7
  <2>. HIDE DEF s
  <2>2a. IsCut(s, t, 0, 20)
    BY <1>7, <2>1, CutAt
  <2>2. s \in Seq(Octet) /\ Len(s) = 20 /\ \A k \in 1 .. 20 : s[k] = t[0 + k]
    BY <2>2a DEF IsCut
  <2>3. \A k \in 1 .. 20 : 0 + k = k
    OBVIOUS
  <2>. QED
    BY <2>2, <2>3
<1>9. firstTransport(f) = [raw |-> x, data |-> d]
  <2>1. q.kind # "Udp"
    BY <1>4
  <2>2. firstTransport(f) = shrink_options([[raw |-> t, data |-> q] EXCEPT !.raw = slice(@, 0, 20)])
    BY <1>6, <2>1 DEF firstTransport
  <2>3. [[raw |-> t, data |-> q] EXCEPT !.raw = slice(@, 0, 20)] = [raw |-> s, data |-> q]
    OBVIOUS
  <2>. HIDE DEF s
  <2>. QED
    BY <2>2, <2>3 DEF shrink_options
<1>. HIDE DEF s
<1>10. read_u16(s, 12) \in Nat
  <2>1. 12 \in Nat /\ 12 + 2 <= Len(s)
    BY <1>8
  <2>2. read_u16(s, 12) \in Half
    BY <1>8, <2>1, WordTyped
  <2>. QED
    BY <2>2 DEF Half
<1>11. v \in Half /\ (v \div 256) \div 16 = 5
  BY <1>10, ShrinkArith
<1>. HIDE DEF v
<1>12. IsWrite(x, s, 12, v)
  <2>1. 12 \in Nat /\ 12 + 2 <= Len(s)
    BY <1>8
  <2>. QED
    BY <1>8, <1>11, <2>1, Written
<1>. HIDE DEF x
<1>13. x \in Seq(Octet) /\ Len(x) = 20
  BY <1>8, <1>12 DEF IsWrite
<1>14. x[13] \div 16 = 5
  <2>1. x[12 + 1] = v \div 256 /\ 12 + 1 = 13
    BY <1>12 DEF IsWrite
  <2>. QED
    BY <1>11, <2>1
<1>15. ASSUME NEW k \in 1 .. 4 PROVE x[k] = f[at + k]
  <2>1. k \in 1 .. 20 /\ k # 12 + 1 /\ k # 12 + 2 /\ k \in 1 .. n
    BY <1>1, <1>2
  <2>2. x[k] = s[k]
    BY <1>8, <1>12, <2>1 DEF IsWrite
  <2>3. s[k] = t[k] /\ t[k] = f[at + k]
    BY <1>7, <1>8, <2>1
  <2>. QED
    BY <2>2, <2>3
<1>16. x[1] = f[at + 1] /\ x[2] = f[at + 2] /\ x[3] = f[at + 3] /\ x[4] = f[at + 4]
  BY <1>15
<1>17. d \in DataTcp
  BY <1>5 DEF DataTcp
<1>. HIDE DEF d
<1>18. TrOk(swap_ports([raw |-> x, data |-> d]).raw, swap_ports([raw |-> x, data |-> d]).data, f)
  <2>1. protocol(f) # 17 /\ Len(x) = thl(f)
    BY <1>0, <1>13
  <2>. QED
    BY <1>13, <1>14, <1>16, <1>17, <2>1, SwapPorts
<1>. QED
  BY <1>9, <1>18

\* The UDP header of UdpConnection::create().
LEMMA FirstUdp ==
  ASSUME NEW f, FirstFacts(f), protocol(f) = 17
  PROVE  \E x, d : /\ firstTransport(f) = [raw |-> x, data |-> d]
                   /\ TrOk(swap_ports([raw |-> x, data |-> d]).raw, swap_ports([raw |-> x, data |-> d]).data, f)
<1>. DEFINE at == ihl(f)
            rest == slice(f, at, Len(f))
            q == UdpHeaderData(rest)
            t == slice(f, at, at + 8)
<1>0. /\ at \in Nat /\ 20 <= at /\ WholePacket(f) /\ ParsedWhole(f) /\ f \in Seq(Octet) /\ Len(f) \in Nat
      /\ at + 8 <= Len(f) /\ thl(f) = 8
  BY DEF FirstFacts, thl
<1>3. rest \in Seq(Octet) /\ Len(rest) = Len(f) - at /\ Len(rest) >= 8
  <2>1. at <= Len(f) /\ Len(f) <= Len(f)
    BY <1>0
  <2>2. IsSlice(rest, f, at, Len(f))
    BY <1>0, <2>1, Sliced
  <2>. HIDE DEF rest, at
  <2>4. Len(f) - at >= 8
    BY <1>0
  <2>. QED
    BY <2>2, <2>4 DEF IsSlice
<1>. HIDE DEF rest
<1>5. q \in DataUdp /\ q.kind = "Udp"
  <2>1. 0 + 2 <= Len(rest) /\ 2 + 2 <= Len(rest) /\ 0 \in Nat /\ 2 \in Nat
    BY <1>3
  <2>2. read_u16(rest, 0) \in Half /\ read_u16(rest, 2) \in Half
    BY <1>3, <2>1, WordTyped
  <2>. QED
    BY <2>2 DEF UdpHeaderData, DataUdp
<1>. HIDE DEF q
<1>6. transport_header(IpPacket(f)) = [raw |-> t, data |-> q]
  <2>1. IpPacket(f).raw = f /\ header_length(IpPacket(f).data) = at
    BY <1>0 DEF ParsedWhole
  <2>2. IpPacket(f).transport[1] = q
    <3>1. protocol(f) \in {6, 17}
      OBVIOUS
    <3>2. IpPacket(f).transport = <<IF protocol(f) = 6 THEN TcpHeaderData(slice(f, ihl(f), Len(f)))
                                                        ELSE UdpHeaderData(slice(f, ihl(f), Len(f)))>>
      BY <1>0, <3>1, TransportParsed
    <3>3. IpPacket(f).transport = <<q>>
      BY <3>2 DEF q, rest
    <3>. QED
      BY <3>3
  <2>3. transport_header_length(q) = 8
    <3>1. q.kind # "Tcp"
      BY <1>5
    <3>. QED
      BY <3>1 DEF transport_header_length
  <2>. QED
    BY <2>1, <2>2, <2>3 DEF transport_header
<1>7. t \in Seq(Octet) /\ Len(t) = 8 /\ \A k \in 1 .. 8 : t[k] = f[at + k]
  <2>1. 8 \in Nat /\ 4 <= 8 /\ t = slice(f, at, at + 8)
    OBVIOUS
  <2>. HIDE DEF t, at
  <2>2. IsCut(t, f, at, 8)
    BY <1>0, <2>1, CutAt
  <2>. QED
    BY <2>2 DEF IsCut
<1>. HIDE DEF t
<1>9. firstTransport(f) = [raw |-> t, data |-> q]
  BY <1>5, <1>6 DEF firstTransport
<1>16. t[1] = f[at + 1] /\ t[2] = f[at + 2] /\ t[3] = f[at + 3] /\ t[4] = f[at + 4]
  BY <1>7
<1>18. TrOk(swap_ports([raw |-> t, data |-> q]).raw, swap_ports([raw |-> t, data |-> q]).data, f)
  <2>1. protocol(f) # 6 /\ Len(t) = thl(f)
    BY <1>0, <1>7
  <2>. QED
    BY <1>5, <1>7, <1>16, <2>1, SwapPorts
<1>. QED
  BY <1>9, <1>18

\* The IP header of create()
IsFirstIp(i, f) == i = [raw |-> i.raw, data |-> i.data] /\ IpOk(i.raw, i.data, f)

\* Protocol::from() has four values.
LEMMA ProtocolIs ==
  ASSUME NEW n
  PROVE  ProtocolV4(n) \in Protocols /\ ProtocolV6(n) \in Protocols
<1>1. CASE n = 1
  BY <1>1 DEF ProtocolV4, ProtocolV6, Protocols
<1>2. CASE n = 6
  BY <1>2 DEF ProtocolV4, ProtocolV6, Protocols
<1>3. CASE n = 17
  BY <1>3 DEF ProtocolV4, ProtocolV6, Protocols
<1>4. CASE n # 1 /\ n # 6 /\ n # 17
  BY <1>4 DEF ProtocolV4, ProtocolV6, Protocols
<1>. QED
  BY <1>1, <1>2, <1>3, <1>4

\* The IPv4 header of new(), its addresses swapped.
LEMMA FirstIpV4 ==
  ASSUME NEW f, FirstFacts(f), f[1] \div 16 = 4
  PROVE  IsFirstIp(swap_addresses(ip_header(IpPacket(f))), f)
<1>. DEFINE h == slice(f, 0, ihl(f))
            d == Ipv4HeaderData(f)
            w == swapped(h, 12, 4)
            e == [d EXCEPT !.source = d.destination, !.destination = d.source]
<1>0. /\ ihl(f) \in Nat /\ 20 <= ihl(f) /\ WholePacket(f) /\ ParsedWhole(f) /\ f \in Seq(Octet) /\ Len(f) \in Nat
      /\ ihl(f) <= Len(f) /\ f[1] \in Nat /\ ihl(f) = 4 * (f[1] % 16)
  BY DEF FirstFacts, thl
<1>1. IpPacket(f).raw = f /\ IpPacket(f).data = d /\ header_length(d) = ihl(f) /\ d.version = 4
  BY <1>0 DEF ParsedWhole, Ipv4HeaderData
<1>2. ip_header(IpPacket(f)) = [raw |-> h, data |-> d]
  BY <1>1 DEF ip_header
<1>3. swap_addresses(ip_header(IpPacket(f))) = [raw |-> w, data |-> e]
  BY <1>1, <1>2 DEF swap_addresses, swap_addresses_v4
<1>4. h \in Seq(Octet) /\ Len(h) = ihl(f) /\ \A k \in 1 .. ihl(f) : h[k] = f[k]
  <2>1. 4 <= ihl(f) /\ 0 + ihl(f) <= Len(f) /\ 0 + ihl(f) = ihl(f) /\ 0 \in Nat
    BY <1>0
  <2>2. h = slice(f, 0, 0 + ihl(f))
    BY <2>1
  <2>. HIDE DEF h
  <2>3. IsCut(h, f, 0, ihl(f))
    BY <1>0, <2>1, <2>2, CutAt
  <2>4. \A k \in 1 .. ihl(f) : 0 + k = k
    BY <1>0
  <2>. QED
    BY <2>3, <2>4 DEF IsCut
<1>. HIDE DEF h
<1>5. IsSwap(w, h, 12, 4)
  <2>1. 12 \in Nat /\ 4 \in Nat /\ 12 + 2 * 4 <= Len(h)
    BY <1>0, <1>4
  <2>. QED
    BY <1>4, <2>1, Swapped
<1>. HIDE DEF w
<1>6. /\ w \in Seq(Octet) /\ Len(w) = ihl(f) /\ \A k \in 1 .. 12 : w[k] = h[k]
      /\ \A k \in 1 .. 4 : w[12 + k] = h[(12 + 4) + k] /\ w[(12 + 4) + k] = h[12 + k]
  BY <1>4, <1>5 DEF IsSwap
<1>7. w[1] = f[1] /\ w[10] = f[10]
  <2>1. 1 \in 1 .. 12 /\ 10 \in 1 .. 12 /\ 1 \in 1 .. ihl(f) /\ 10 \in 1 .. ihl(f)
    BY <1>0
  <2>. QED
    BY <1>4, <1>6, <2>1
<1>8. ASSUME NEW k \in 1 .. 4 PROVE w[12 + k] = f[16 + k] /\ w[16 + k] = f[12 + k]
  <2>1. 16 + k \in 1 .. ihl(f) /\ 12 + k \in 1 .. ihl(f) /\ 12 + 4 = 16
    BY <1>0
  <2>2. h[16 + k] = f[16 + k] /\ h[12 + k] = f[12 + k]
    BY <1>4, <2>1
  <2>3. w[12 + k] = h[(12 + 4) + k] /\ w[(12 + 4) + k] = h[12 + k]
    BY <1>6
  <2>. QED
    BY <2>1, <2>2, <2>3
<1>9. Crossed(w, f)
  BY <1>8 DEF Crossed
<1>10. read_u32(w, 12) = read_u32(f, 16) /\ read_u32(w, 16) = read_u32(f, 12)
  <2>1. /\ w[13] = f[17] /\ w[14] = f[18] /\ w[15] = f[19] /\ w[16] = f[20]
        /\ w[17] = f[13] /\ w[18] = f[14] /\ w[19] = f[15] /\ w[20] = f[16]
    <3>1. /\ 12 + 1 = 13 /\ 12 + 2 = 14 /\ 12 + 3 = 15 /\ 12 + 4 = 16 /\ 16 + 1 = 17 /\ 16 + 2 = 18 /\ 16 + 3 = 19 /\ 16 + 4 = 20
          /\ 1 \in 1 .. 4 /\ 2 \in 1 .. 4 /\ 3 \in 1 .. 4 /\ 4 \in 1 .. 4
      OBVIOUS
    <3>. QED
      BY <1>8, <3>1
  <2>. QED
    BY <2>1 DEF read_u32, read_u16
<1>11. /\ read_u16(f, 2) \in Nat /\ read_u32(f, 12) \in Half \X Half /\ read_u32(f, 16) \in Half \X Half
  <2>1. 2 \in Nat /\ 2 + 2 <= Len(f) /\ 12 \in Nat /\ 12 + 4 <= Len(f) /\ 16 \in Nat /\ 16 + 4 <= Len(f)
    BY <1>0
  <2>2. read_u16(f, 2) \in Half /\ read_u32(f, 12) \in Half \X Half /\ read_u32(f, 16) \in Half \X Half
    BY <1>0, <2>1, WordTyped, HalfWords
  <2>. QED
    BY <2>2 DEF Half
<1>12. d = [version |-> 4, header_length |-> ihl(f), total_length |-> read_u16(f, 2), protocol |-> ProtocolV4(f[10]),
             source |-> read_u32(f, 12), destination |-> read_u32(f, 16)]
  BY <1>0 DEF Ipv4HeaderData
<1>13. ProtocolV4(f[10]) \in Protocols
  BY ProtocolIs
<1>. HIDE DEF d
<1>14. d \in DataV4 /\ d.source = read_u32(f, 12) /\ d.destination = read_u32(f, 16) /\ d.header_length = ihl(f)
  BY <1>0, <1>11, <1>12, <1>13 DEF DataV4
<1>15. e \in DataV4 /\ e.header_length = ihl(f) /\ e.source = read_u32(w, 12) /\ e.destination = read_u32(w, 16)
  <2>. DEFINE g == [d EXCEPT !.source = d.destination]
  <2>1. g \in DataV4 /\ g.source = d.destination /\ g.header_length = ihl(f)
    BY <1>14 DEF DataV4
  <2>2. e = [g EXCEPT !.destination = d.source]
    OBVIOUS
  <2>3. d.source = read_u32(f, 12) /\ d.destination = read_u32(f, 16) /\ d \in DataV4
    BY <1>14
  <2>. HIDE DEF g
  <2>4. e \in DataV4 /\ e.header_length = ihl(f) /\ e.source = d.destination /\ e.destination = d.source
    BY <2>1, <2>2, <2>3 DEF DataV4
  <2>. HIDE DEF e
  <2>. QED
    BY <1>10, <2>3, <2>4
<1>. HIDE DEF e
<1>16. IpOk(w, e, f)
  BY <1>6, <1>7, <1>9, <1>14, <1>15 DEF IpOk
<1>. QED
  BY <1>3, <1>16 DEF IsFirstIp

\* The IPv6 header of new(), its addresses swapped.
LEMMA FirstIpV6 ==
  ASSUME NEW f, FirstFacts(f), f[1] \div 16 = 6
  PROVE  IsFirstIp(swap_addresses(ip_header(IpPacket(f))), f)
<1>. DEFINE h == slice(f, 0, 40)
            d == Ipv6HeaderData(f)
            w == swapped(h, 8, 16)
            e == [d EXCEPT !.source = d.destination, !.destination = d.source]
<1>0. /\ ihl(f) = 40 /\ WholePacket(f) /\ ParsedWhole(f) /\ f \in Seq(Octet) /\ Len(f) \in Nat
      /\ 40 <= Len(f)
  BY DEF FirstFacts, thl
<1>1. IpPacket(f).raw = f /\ IpPacket(f).data = d /\ header_length(d) = 40 /\ d.version = 6
  BY <1>0 DEF ParsedWhole, Ipv6HeaderData
<1>2. ip_header(IpPacket(f)) = [raw |-> h, data |-> d]
  BY <1>1 DEF ip_header
<1>3. swap_addresses(ip_header(IpPacket(f))) = [raw |-> w, data |-> e]
  <2>1. d.version # 4
    BY <1>1
  <2>. QED
    BY <1>2, <2>1 DEF swap_addresses, swap_addresses_v6
<1>4. h \in Seq(Octet) /\ Len(h) = 40 /\ \A k \in 1 .. 40 : h[k] = f[k]
  <2>1. 4 <= 40 /\ 0 + 40 <= Len(f) /\ 0 + 40 = 40 /\ 0 \in Nat /\ 40 \in Nat
    BY <1>0
  <2>2. h = slice(f, 0, 0 + 40)
    BY <2>1
  <2>. HIDE DEF h
  <2>3. IsCut(h, f, 0, 40)
    BY <1>0, <2>1, <2>2, CutAt
  <2>4. \A k \in 1 .. 40 : 0 + k = k
    BY <1>0
  <2>. QED
    BY <2>3, <2>4 DEF IsCut
<1>. HIDE DEF h
<1>5. IsSwap(w, h, 8, 16)
  <2>1. 8 \in Nat /\ 16 \in Nat /\ 8 + 2 * 16 <= Len(h)
    BY <1>4
  <2>. QED
    BY <1>4, <2>1, Swapped
<1>. HIDE DEF w
<1>6. /\ w \in Seq(Octet) /\ Len(w) = 40 /\ \A k \in 1 .. 8 : w[k] = h[k]
      /\ \A k \in 1 .. 16 : w[8 + k] = h[(8 + 16) + k] /\ w[(8 + 16) + k] = h[8 + k]
  BY <1>4, <1>5 DEF IsSwap
<1>7. w[1] = f[1] /\ w[7] = f[7]
  <2>1. 1 \in 1 .. 8 /\ 7 \in 1 .. 8 /\ 1 \in 1 .. 40 /\ 7 \in 1 .. 40
    OBVIOUS
  <2>2. w[1] = h[1] /\ w[7] = h[7]
    BY <1>6, <2>1
  <2>3. h[1] = f[1] /\ h[7] = f[7]
    BY <1>4, <2>1
  <2>. QED
    BY <2>2, <2>3
<1>8. ASSUME NEW k \in 1 .. 16 PROVE w[8 + k] = f[24 + k] /\ w[24 + k] = f[8 + k]
  <2>1. 24 + k \in 1 .. 40 /\ 8 + k \in 1 .. 40 /\ 8 + 16 = 24
    OBVIOUS
  <2>2. w[8 + k] = h[24 + k] /\ w[24 + k] = h[8 + k]
    BY <1>6, <2>1
  <2>3. h[24 + k] = f[24 + k] /\ h[8 + k] = f[8 + k]
    BY <1>4, <2>1
  <2>. QED
    BY <2>2, <2>3
<1>9. CrossedV6(w, f)
  BY <1>8 DEF CrossedV6
<1>10. slice(w, 8, 24) = slice(f, 24, 40) /\ slice(w, 24, 40) = slice(f, 8, 24)
  <2>5. SameAt(w, 8, f, 24, 16) /\ SameAt(w, 24, f, 8, 16)
    BY <1>8 DEF SameAt
  <2>6. 8 \in Nat /\ 24 \in Nat /\ 16 \in Nat /\ 24 + 16 <= Len(w) /\ 8 + 16 <= Len(w) /\ 24 + 16 <= Len(f) /\ 8 + 16 <= Len(f)
    BY <1>0, <1>6
  <2>7. slice(w, 8, 8 + 16) = slice(f, 24, 24 + 16) /\ slice(w, 24, 24 + 16) = slice(f, 8, 8 + 16)
    <3>1. w \in Seq(Octet) /\ f \in Seq(Octet)
      BY <1>0, <1>6
    <3>. QED
      BY <2>5, <2>6, <3>1, SameSlices
  <2>8. 8 + 16 = 24 /\ 24 + 16 = 40
    OBVIOUS
  <2>. QED
    BY <2>7, <2>8
<1>11. /\ read_u16(f, 4) \in Nat /\ f[8] \in Octet /\ slice(f, 8, 24) \in Seq(Octet) /\ slice(f, 24, 40) \in Seq(Octet)
  <2>1. /\ 4 \in Nat /\ 4 + 2 <= Len(f) /\ 8 \in Nat /\ 24 \in Nat /\ 40 \in Nat /\ 8 <= 24 /\ 24 <= 40
        /\ 24 <= Len(f) /\ 40 <= Len(f) /\ 8 \in 1 .. Len(f)
    BY <1>0
  <2>2. read_u16(f, 4) \in Half
    BY <1>0, <2>1, WordTyped
  <2>3. f[8] \in Octet
    BY <1>0, <2>1, ByteAt
  <2>4. IsSlice(slice(f, 8, 24), f, 8, 24) /\ IsSlice(slice(f, 24, 40), f, 24, 40)
    BY <1>0, <2>1, Sliced
  <2>5. read_u16(f, 4) \in Nat
    BY <2>2 DEF Half
  <2>. QED
    BY <2>3, <2>4, <2>5 DEF IsSlice
<1>12. d = [version |-> 6, payload_length |-> read_u16(f, 4), protocol |-> ProtocolV6(f[7]), hop_limit |-> f[8],
             source |-> slice(f, 8, 24), destination |-> slice(f, 24, 40)]
  BY DEF Ipv6HeaderData
<1>13. ProtocolV6(f[7]) \in Protocols
  BY ProtocolIs
<1>. HIDE DEF d
<1>14. d \in DataV6 /\ d.source = slice(f, 8, 24) /\ d.destination = slice(f, 24, 40) /\ d.hop_limit = f[8]
  BY <1>0, <1>11, <1>12, <1>13 DEF DataV6
<1>15. e \in DataV6 /\ e.hop_limit = f[8] /\ e.source = slice(w, 8, 24) /\ e.destination = slice(w, 24, 40)
  <2>. DEFINE g == [d EXCEPT !.source = d.destination]
  <2>1. g \in DataV6 /\ g.source = d.destination /\ g.hop_limit = f[8]
    BY <1>14 DEF DataV6
  <2>2. e = [g EXCEPT !.destination = d.source]
    OBVIOUS
  <2>3. d.source = slice(f, 8, 24) /\ d.destination = slice(f, 24, 40) /\ d \in DataV6
    BY <1>14
  <2>. HIDE DEF g
  <2>4. e \in DataV6 /\ e.hop_limit = f[8] /\ e.source = d.destination /\ e.destination = d.source
    BY <2>1, <2>2, <2>3 DEF DataV6
  <2>. HIDE DEF e
  <2>. QED
    BY <1>10, <2>3, <2>4
<1>. HIDE DEF e
<1>16. IpOk(w, e, f)
  BY <1>0, <1>6, <1>7, <1>9, <1>14, <1>15 DEF IpOk
<1>. QED
  BY <1>3, <1>16 DEF IsFirstIp

\* The Packetizer that create() makes.
LEMMA FirstPk ==
  ASSUME NEW f \in FirstPacket
  PROVE  Pk(create(f), f)
<1>0. FirstFacts(f)
  BY FirstIs
<1>1. /\ ihl(f) \in Nat /\ thl(f) \in Nat /\ U16 \in Nat /\ Len(f) \in Nat /\ Len(f) < U16 /\ ihl(f) + thl(f) <= Len(f)
      /\ MaxPacketLength = U16 /\ (f[1] \div 16 = 4 \/ f[1] \div 16 = 6) /\ (protocol(f) = 6 \/ protocol(f) = 17)
  BY <1>0, PacketizerAssumption DEF FirstFacts
<1>. DEFINE i == swap_addresses(ip_header(IpPacket(f)))
            t == swap_ports(firstTransport(f))
            m == MaxPacketLength - (Len(i.raw) + Len(t.raw))
            b == [k \in 1 .. m |-> 0]
            p == [ip |-> i, transport |-> t, body |-> b]
<1>2. create(f) = p
  BY DEF create, new, firstTransport
<1>3. i = [raw |-> i.raw, data |-> i.data] /\ IpOk(i.raw, i.data, f)
  BY <1>0, <1>1, FirstIpV4, FirstIpV6 DEF IsFirstIp
<1>4. t = [raw |-> t.raw, data |-> t.data] /\ TrOk(t.raw, t.data, f)
  <2>1. PICK x, d : /\ firstTransport(f) = [raw |-> x, data |-> d]
                    /\ TrOk(swap_ports([raw |-> x, data |-> d]).raw, swap_ports([raw |-> x, data |-> d]).data, f)
    BY <1>0, <1>1, FirstTcp, FirstUdp
  <2>2. t = [raw |-> t.raw, data |-> t.data]
    BY DEF swap_ports
  <2>. QED
    BY <2>1, <2>2
<1>. HIDE DEF i, t
<1>5. Len(i.raw) = ihl(f) /\ Len(t.raw) = thl(f)
  BY <1>3, <1>4 DEF IpOk, TrOk
<1>6. m = U16 - (ihl(f) + thl(f)) /\ m \in Nat
  BY <1>1, <1>5
<1>. HIDE DEF m
<1>7. 0 \in Octet
  BY DEF Octet
<1>8. b \in Seq(Octet) /\ Len(b) = m
  BY <1>6, <1>7
<1>. HIDE DEF b
<1>9. p.ip = i /\ p.transport = t /\ p.body = b
  OBVIOUS
<1>10. p = [ip |-> [raw |-> p.ip.raw, data |-> p.ip.data],
            transport |-> [raw |-> p.transport.raw, data |-> p.transport.data], body |-> p.body]
  BY <1>3, <1>4, <1>9
<1>. HIDE DEF p
<1>11. Pk(p, f)
  BY <1>3, <1>4, <1>6, <1>8, <1>9, <1>10 DEF Pk
<1>. QED
  BY <1>2, <1>11

-----------------------------------------------------------------------------
(* What is written into the buffer *)

IsAsking(q, p, f, a) == Pk(q, f) /\ q.body = p.body /\ Carries(q.transport.raw, a)

\* update_headers() touches only the transport header.
LEMMA AskingIs ==
  ASSUME NEW f, FirstFacts(f), protocol(f) = 6, NEW p, Pk(p, f), NEW a \in Tcb
  PROVE  IsAsking(asking(p, a), p, f, a)
<1>. DEFINE i == [raw |-> p.ip.raw, data |-> p.ip.data]
            t == [raw |-> p.transport.raw, data |-> p.transport.data]
            b == p.body
            q == asking(p, a)
<1>1. /\ p = [ip |-> i, transport |-> t, body |-> b] /\ IpOk(p.ip.raw, p.ip.data, f)
      /\ TrOk(p.transport.raw, p.transport.data, f)
      /\ b \in Seq(Octet) /\ Len(b) = U16 - (ihl(f) + thl(f))
  BY DEF Pk
<1>2. PICK w, e : /\ tcpAsked([raw |-> p.transport.raw, data |-> p.transport.data], a) = [raw |-> w, data |-> e]
                  /\ TrOk(w, e, f) /\ Carries(w, a)
  BY <1>1, AskedHeader
<1>3. q = [p EXCEPT !.transport = tcpAsked(p.transport, a)]
  BY DEF asking, update_headers, tcpAsked
<1>4. p.transport = t /\ p.ip = i
  BY <1>1
<1>5. q = [ip |-> i, transport |-> [raw |-> w, data |-> e], body |-> b]
  <2>1. q = [p EXCEPT !.transport = [raw |-> w, data |-> e]]
    BY <1>2, <1>3, <1>4
  <2>. HIDE DEF i, b, q, t
  <2>. QED
    BY <1>1, <2>1
<1>. HIDE DEF q
<1>6. q.ip = i /\ q.transport.raw = w /\ q.transport.data = e /\ q.body = b
  BY <1>5
<1>7. q.ip.raw = p.ip.raw /\ q.ip.data = p.ip.data
  BY <1>6
<1>8. Pk(q, f)
  <2>1. q = [ip |-> [raw |-> q.ip.raw, data |-> q.ip.data],
             transport |-> [raw |-> q.transport.raw, data |-> q.transport.data], body |-> q.body]
    BY <1>5, <1>6, <1>7
  <2>. QED
    BY <1>1, <1>2, <1>6, <1>7, <2>1 DEF Pk
<1>9. IsAsking(q, p, f, a)
  BY <1>2, <1>6, <1>8 DEF IsAsking
<1>. QED
  BY <1>9 DEF q

\* data are behind the headers.
IsReceived(q, p, f, data) ==
  Pk(q, f) /\ slice(q.body, 0, Len(data)) = data /\ q.transport = p.transport

\* recv() writes the data behind the headers, over what was there.
LEMMA ReceivedIs ==
  ASSUME NEW f, FirstFacts(f), NEW p, Pk(p, f), NEW data \in Seq(Octet), ihl(f) + thl(f) + Len(data) < U16
  PROVE  IsReceived(received(p, data), p, f, data)
<1>. DEFINE i == [raw |-> p.ip.raw, data |-> p.ip.data]
            t == [raw |-> p.transport.raw, data |-> p.transport.data]
            b == p.body
            n == Len(data)
            s == slice(b, n, Len(b))
            c == data \o s
            q == [p EXCEPT !.body = c]
<1>0. /\ ihl(f) \in Nat /\ thl(f) \in Nat /\ U16 \in Nat /\ n \in Nat
  BY DEF FirstFacts
<1>1. /\ p = [ip |-> i, transport |-> t, body |-> b] /\ IpOk(p.ip.raw, p.ip.data, f)
      /\ TrOk(p.transport.raw, p.transport.data, f)
      /\ b \in Seq(Octet) /\ Len(b) = U16 - (ihl(f) + thl(f))
  BY DEF Pk
<1>2. n <= Len(b) /\ Len(b) \in Nat /\ Len(b) <= Len(b)
  BY <1>0, <1>1
<1>3. IsSlice(s, b, n, Len(b))
  BY <1>0, <1>1, <1>2, Sliced
<1>. HIDE DEF s
<1>4. s \in Seq(Octet) /\ Len(s) = Len(b) - n
  BY <1>3 DEF IsSlice
<1>5. IsJoin(c, data, s)
  BY <1>4, Joined
<1>6. slice(c, 0, n) = data
  BY <1>4, JoinParts
<1>. HIDE DEF c
<1>7. c \in Seq(Octet) /\ Len(c) = U16 - (ihl(f) + thl(f))
  <2>1. c \in Seq(Octet) /\ Len(c) = n + Len(s)
    BY <1>5 DEF IsJoin
  <2>. HIDE DEF b
  <2>. QED
    BY <1>0, <1>1, <1>2, <1>4, <2>1
<1>8. received(p, data) = q
  BY DEF received, c, s
<1>. HIDE DEF n
<1>9. q = [ip |-> i, transport |-> t, body |-> c]
  <2>. HIDE DEF i, t, b
  <2>. QED
    BY <1>1
<1>10. p.ip = i /\ p.transport = t
  BY <1>1
<1>. HIDE DEF q
<1>11. q.ip = i /\ q.transport = t /\ q.body = c
  BY <1>9
<1>12. q.ip.raw = p.ip.raw /\ q.ip.data = p.ip.data /\ q.transport.raw = p.transport.raw /\ q.transport.data = p.transport.data
  BY <1>10, <1>11
<1>13. Pk(q, f)
  <2>1. q = [ip |-> [raw |-> q.ip.raw, data |-> q.ip.data],
             transport |-> [raw |-> q.transport.raw, data |-> q.transport.data], body |-> q.body]
    BY <1>9, <1>11, <1>12
  <2>. QED
    BY <1>1, <1>7, <1>11, <1>12, <2>1 DEF Pk
<1>14. IsReceived(q, p, f, data)
  BY <1>6, <1>10, <1>11, <1>13 DEF IsReceived, n
<1>. QED
  BY <1>8, <1>14

-----------------------------------------------------------------------------
(* The connection *)

\* The buffer holds headers of the connection, and behind a deferred packet that
\* was not overwritten the packet that was asked for.
BufferInv ==
  /\ first \in FirstPacket /\ Pk(pk, first)
  /\ deferred # << >> => protocol(first) = 6
  /\ deferred # << >> /\ ~overwritten => Good(inflate(pk, deferred[1].length), first, deferred[1].asked)

SentInv ==
  sent # << >> /\ ~sent[1].spoiled =>
    /\ Accepted(sent[1].raw)
    /\ sent[1].asked # << >> => AskedFor(sent[1].raw, sent[1].to, sent[1].asked[1], sent[1].asked[2])

\* The kind of a connection is the protocol of its first packet.
LEMMA KindIs ==
  ASSUME BufferInv
  PROVE  FirstFacts(first) /\ (isTcp <=> protocol(first) = 6) /\ (~isTcp <=> protocol(first) = 17)
<1>1. FirstFacts(first) /\ TrOk(pk.transport.raw, pk.transport.data, first)
  BY FirstIs DEF BufferInv, Pk
<1>2. (protocol(first) = 6 /\ thl(first) = 20) \/ (protocol(first) = 17 /\ thl(first) = 8)
  BY <1>1 DEF FirstFacts
<1>3. CASE protocol(first) = 6
  <2>1. pk.transport.data.kind = "Tcp" /\ protocol(first) # 17
    BY <1>1, <1>3 DEF TrOk, DataTcp
  <2>. QED
    BY <1>1, <1>3, <2>1 DEF isTcp
<1>4. CASE protocol(first) = 17
  <2>1. pk.transport.data.kind = "Udp" /\ protocol(first) # 6 /\ "Udp" # "Tcp"
    BY <1>1, <1>4 DEF TrOk, DataUdp
  <2>. QED
    BY <1>1, <1>4, <2>1 DEF isTcp
<1>. QED
  BY <1>2, <1>3, <1>4

\* A packet was built: the buffer holds it, and is one of the connection.
IsSent(q, f, asked) ==
  Pk(q, f) /\ Good(packet(q), f, asked) /\ Good(inflate(q, total_length(q.ip.data)), f, asked)

\* An empty packet of a TCP connection, whatever is in the buffer.
LEMMA EmptyBuilt ==
  ASSUME NEW f \in FirstPacket, NEW p, Pk(p, f), protocol(f) = 6, NEW a \in Tcb
  PROVE  IsSent(build(asking(p, a), 0), f, <<a, << >>>>)
<1>. DEFINE q == asking(p, a)
            b == q.body
            r == build(q, 0)
<1>0. FirstFacts(f)
  BY FirstIs
<1>1. IsAsking(q, p, f, a)
  BY <1>0, AskingIs
<1>2. ihl(f) + thl(f) + 0 < U16 /\ 0 \in Nat
  BY <1>0 DEF FirstFacts, thl
<1>. HIDE DEF q
<1>3. Pk(q, f) /\ Carries(q.transport.raw, a) /\ b \in Seq(Octet)
  BY <1>1 DEF IsAsking, Pk
<1>4. IsBuilt(r, q, f, b, 0)
  BY <1>0, <1>2, <1>3, BuildIs
<1>. HIDE DEF r, b
<1>5. slice(b, 0, 0) = << >>
  <2>. DEFINE s == slice(b, 0, 0)
  <2>1. IsSlice(s, b, 0, 0)
    <3>1. 0 \in Nat /\ 0 <= 0 /\ 0 <= Len(b)
      BY <1>3
    <3>. QED
      BY <1>3, <3>1, Sliced
  <2>. HIDE DEF s
  <2>2. s \in Seq(Octet) /\ Len(s) = 0
    BY <2>1 DEF IsSlice
  <2>3. s = << >>
    BY <2>2
  <2>. QED
    BY <2>3 DEF s
<1>6. /\ Good(packet(r), f, <<a, slice(b, 0, 0)>>)
      /\ Good(inflate(r, total_length(r.ip.data)), f, <<a, slice(b, 0, 0)>>)
  BY <1>0, <1>2, <1>3, <1>4, PacketGood
<1>7. IsSent(r, f, <<a, << >>>>)
  BY <1>4, <1>5, <1>6 DEF IsSent, IsBuilt
<1>. QED
  BY <1>7 DEF r, q

\* A packet with data, whatever is in the buffer.
LEMMA DataBuilt ==
  ASSUME NEW f \in FirstPacket, NEW p, Pk(p, f), NEW a, protocol(f) = 6 => Carries(p.transport.raw, a),
         NEW data \in Seq(Octet), ihl(f) + thl(f) + Len(data) < U16
  PROVE  IsSent(build(received(p, data), Len(data)), f, <<a, data>>)
<1>. DEFINE q == received(p, data)
            b == q.body
            n == Len(data)
            r == build(q, n)
<1>0. FirstFacts(f)
  BY FirstIs
<1>1. IsReceived(q, p, f, data)
  BY <1>0, ReceivedIs
<1>2. n \in Nat /\ ihl(f) + thl(f) + n < U16
  OBVIOUS
<1>. HIDE DEF q
<1>3. Pk(q, f) /\ q.transport = p.transport /\ slice(b, 0, n) = data
  BY <1>1 DEF IsReceived
<1>. HIDE DEF n
<1>4. IsBuilt(r, q, f, b, n)
  BY <1>0, <1>2, <1>3, BuildIs
<1>. HIDE DEF r, b
<1>5. protocol(f) = 6 => Carries(q.transport.raw, a)
  BY <1>3
<1>6. /\ Good(packet(r), f, <<a, slice(b, 0, n)>>)
      /\ Good(inflate(r, total_length(r.ip.data)), f, <<a, slice(b, 0, n)>>)
  BY <1>0, <1>2, <1>4, <1>5, PacketGood
<1>7. IsSent(r, f, <<a, data>>)
  BY <1>3, <1>4, <1>6 DEF IsSent, IsBuilt
<1>. QED
  BY <1>7 DEF r, q, n

\* What a step sends of a connection.
LEMMA SentGood ==
  ASSUME NEW raw, NEW f, NEW a, NEW data, NEW z, Sends(raw, <<a, data>>, f, z), z \/ Good(raw, f, <<a, data>>)
  PROVE  SentInv'
<1>1. sent' = <<[raw |-> raw, asked |-> <<a, data>>, to |-> f, spoiled |-> z]>>
  BY DEF Sends
<1>2. sent'[1].raw = raw /\ sent'[1].asked = <<a, data>> /\ sent'[1].to = f /\ sent'[1].spoiled = z
  BY <1>1
<1>3. <<a, data>>[1] = a /\ <<a, data>>[2] = data
  OBVIOUS
<1>4. CASE Good(raw, f, <<a, data>>)
  BY <1>2, <1>3, <1>4 DEF SentInv, Good
<1>5. CASE z
  BY <1>2, <1>5 DEF SentInv
<1>. QED
  BY <1>4, <1>5

\* ReadDatagram: a datagram is packetized.
LEMMA DatagramStep ==
  ASSUME BufferInv, NEW data \in Data, ReadDatagram(data)
  PROVE  BufferInv' /\ SentInv'
<1>. DEFINE n == Min({Len(data), Len(pk.body)})
<1>1. FirstFacts(first) /\ protocol(first) = 17 /\ first \in FirstPacket /\ Pk(pk, first)
  BY KindIs DEF ReadDatagram, BufferInv
<1>2. deferred = << >>
  BY <1>1 DEF BufferInv
<1>3. data \in Seq(Octet) /\ ihl(first) + 8 + Len(data) < U16 /\ thl(first) = 8
  BY <1>1, PacketizerAssumption DEF thl
<1>4. n = Len(data) /\ slice(data, 0, n) = data
  <2>1. ihl(first) \in Nat /\ U16 \in Nat /\ Len(data) \in Nat
    BY <1>1, <1>3 DEF FirstFacts
  <2>2. Len(pk.body) = U16 - (ihl(first) + 8)
    BY <1>1, <1>3 DEF Pk
  <2>3. Len(pk.body) \in Nat /\ Len(data) <= Len(pk.body)
    BY <1>3, <2>1, <2>2
  <2>4. n \in {Len(data), Len(pk.body)} /\ n <= Len(data) /\ n <= Len(pk.body)
    BY <2>1, <2>3, SmallerOf
  <2>. HIDE DEF n
  <2>5. n = Len(data)
    BY <2>1, <2>3, <2>4
  <2>. QED
    BY <1>3, <2>5, WholeSlice
<1>5. /\ pk' = build(received(pk, data), Len(data)) /\ UNCHANGED <<first, deferred, overwritten>>
      /\ Sends(packet(pk'), <<[flags |-> 0], data>>, first, FALSE) \/ sent' = << >>
  <2>. HIDE DEF n
  <2>1. pk' = build(received(pk, slice(data, 0, n)), n)
    BY DEF ReadDatagram, n
  <2>. QED
    BY <1>4, <2>1 DEF ReadDatagram
<1>6. IsSent(pk', first, <<[flags |-> 0], data>>)
  <2>1. protocol(first) # 6 /\ ihl(first) + thl(first) + Len(data) < U16
    BY <1>1, <1>3
  <2>. QED
    BY <1>1, <1>3, <1>5, <2>1, DataBuilt
<1>7. BufferInv'
  BY <1>1, <1>2, <1>5, <1>6 DEF BufferInv, IsSent
<1>8. CASE Sends(packet(pk'), <<[flags |-> 0], data>>, first, FALSE)
  BY <1>6, <1>7, <1>8, SentGood DEF IsSent
<1>9. CASE sent' = << >>
  BY <1>7, <1>9 DEF SentInv
<1>. QED
  BY <1>5, <1>8, <1>9

\* The steps of a TCP connection: a deferred packet survives until an empty one is built over it.
LEMMA TcpStep ==
  ASSUME BufferInv, TcpPackets
  PROVE  BufferInv' /\ SentInv'
<1>. DEFINE chunk == MaxChunk
<1>0. FirstFacts(first) /\ first \in FirstPacket /\ Pk(pk, first) /\ (isTcp => protocol(first) = 6)
  BY KindIs DEF BufferInv
<1>1. CASE Flush
  <2>1. /\ deferred # << >> /\ Sends(inflate(pk, deferred[1].length), deferred[1].asked, first, overwritten)
        /\ deferred' = << >> /\ UNCHANGED <<first, pk>>
    BY <1>1 DEF Flush
  <2>2. BufferInv'
    BY <1>0, <2>1 DEF BufferInv
  <2>. DEFINE raw == inflate(pk, deferred[1].length)
              asked == deferred[1].asked
  <2>3. ~overwritten => Good(raw, first, asked)
    BY <2>1 DEF BufferInv
  <2>4. sent' = <<[raw |-> raw, asked |-> asked, to |-> first, spoiled |-> overwritten]>>
    BY <2>1 DEF Sends
  <2>. HIDE DEF raw, asked
  <2>5. sent'[1].raw = raw /\ sent'[1].asked = asked /\ sent'[1].to = first /\ sent'[1].spoiled = overwritten
    BY <2>4
  <2>6. SentInv'
    <3>1. CASE overwritten
      BY <2>5, <3>1 DEF SentInv
    <3>2. CASE ~overwritten
      BY <2>3, <2>5, <3>2 DEF SentInv, Good
    <3>. QED
      BY <3>1, <3>2
  <2>. QED
    BY <2>2, <2>6
<1>2. ASSUME NEW a \in Tcb, SendEmpty(a) PROVE BufferInv' /\ SentInv'
  <2>1. /\ isTcp /\ pk' = build(asking(pk, a), 0) /\ overwritten' = (deferred # << >>)
        /\ Sends(packet(pk'), <<a, << >>>>, first, FALSE) /\ UNCHANGED <<first, deferred>>
    BY <1>2 DEF SendEmpty
  <2>2. IsSent(pk', first, <<a, << >>>>)
    BY <1>0, <2>1, EmptyBuilt
  <2>3. BufferInv'
    BY <1>0, <2>1, <2>2 DEF BufferInv, IsSent
  <2>. QED
    BY <2>1, <2>2, <2>3, SentGood DEF IsSent
<1>3. ASSUME NEW a \in Tcb, ReceiveNothing(a) PROVE BufferInv' /\ SentInv'
  <2>1. /\ isTcp /\ deferred = << >> /\ pk' = asking(pk, a) /\ sent' = << >>
        /\ UNCHANGED <<first, deferred, overwritten>>
    BY <1>3 DEF ReceiveNothing
  <2>2. IsAsking(pk', pk, first, a)
    BY <1>0, <2>1, AskingIs
  <2>. QED
    BY <1>0, <2>1, <2>2 DEF BufferInv, SentInv, IsAsking
<1>4. ASSUME NEW a \in Tcb, NEW data \in Data, Receive(a, data) PROVE BufferInv' /\ SentInv'
  <2>1. /\ isTcp /\ deferred = << >> /\ Len(data) \in 1 .. MaxChunk
        /\ pk' = build(received(asking(pk, a), data), Len(data)) /\ UNCHANGED <<first, overwritten>>
        /\ \/ Sends(packet(pk'), <<a, data>>, first, FALSE) /\ UNCHANGED deferred
           \/ /\ deferred' = <<[length |-> total_length(pk'.ip.data), asked |-> <<a, data>>]>>
              /\ sent' = << >>
    BY <1>4 DEF Receive
  <2>2. IsAsking(asking(pk, a), pk, first, a) /\ protocol(first) = 6
    BY <1>0, <2>1, AskingIs
  <2>3. IsSent(pk', first, <<a, data>>)
    <3>. DEFINE p == asking(pk, a)
    <3>. HIDE DEF p
    <3>1. Pk(p, first) /\ Carries(p.transport.raw, a)
      BY <2>2 DEF IsAsking, p
    <3>2. data \in Seq(Octet) /\ ihl(first) + 20 + MaxChunk < U16 /\ MaxChunk \in Nat
      <4>1. protocol(first) # 17
        BY <2>2
      <4>. QED
        BY <1>0, <4>1, PacketizerAssumption
    <3>3. ihl(first) + thl(first) + Len(data) < U16
      <4>1. ihl(first) \in Nat /\ U16 \in Nat /\ thl(first) = 20 /\ Len(data) \in Nat /\ Len(data) <= MaxChunk
        BY <1>0, <2>1, <2>2, <3>2 DEF FirstFacts, thl
      <4>. QED
        BY <3>2, <4>1
    <3>4. IsSent(build(received(p, data), Len(data)), first, <<a, data>>)
      BY <1>0, <3>1, <3>2, <3>3, DataBuilt
    <3>. QED
      BY <2>1, <3>4 DEF p
  <2>4. CASE Sends(packet(pk'), <<a, data>>, first, FALSE) /\ UNCHANGED deferred
    <3>1. BufferInv'
      BY <1>0, <2>1, <2>3, <2>4 DEF BufferInv, IsSent
    <3>2. SentInv'
      BY <2>3, <2>4, SentGood DEF IsSent
    <3>. QED
      BY <3>1, <3>2
  <2>5. CASE deferred' = <<[length |-> total_length(pk'.ip.data), asked |-> <<a, data>>]>> /\ sent' = << >>
    <3>1. deferred'[1].length = total_length(pk'.ip.data) /\ deferred'[1].asked = <<a, data>>
      BY <2>5
    <3>2. Good(inflate(pk', deferred'[1].length), first, deferred'[1].asked)
      BY <2>3, <3>1 DEF IsSent
    <3>3. first' = first /\ Pk(pk', first)
      BY <2>1, <2>3 DEF IsSent
    <3>4. BufferInv'
      BY <1>0, <2>2, <3>2, <3>3 DEF BufferInv
    <3>. QED
      BY <2>5, <3>4 DEF SentInv
  <2>. QED
    BY <2>1, <2>4, <2>5
<1>. QED
  BY <1>1, <1>2, <1>3, <1>4 DEF TcpPackets

\* Every step keeps the buffer and sends what is right.
LEMMA ConnectionStep ==
  ASSUME BufferInv, UdpNext
  PROVE  BufferInv' /\ SentInv'
<1>1. ASSUME NEW d \in Datagram, send_to_network(d) PROVE BufferInv' /\ SentInv'
  BY <1>1 DEF send_to_network, BufferInv, SentInv
<1>2. CASE poll_self
  <2>1. CASE \E data \in Data : ReadDatagram(data)
    BY <2>1, DatagramStep
  <2>2. CASE sent' = << >> /\ UNCHANGED <<first, pk, deferred, overwritten>>
    BY <2>2 DEF BufferInv, SentInv
  <2>. QED
    BY <1>2, <2>1, <2>2 DEF poll_self
<1>3. CASE RouterAnswers
  <2>1. PICK raw \in Request : Answers(raw)
    BY <1>3 DEF RouterAnswers
  <2>2. /\ sent' # << >> /\ sent'[1].asked = << >> /\ Accepted(sent'[1].raw)
        /\ UNCHANGED <<first, pk, deferred, overwritten>>
    BY <2>1, AnswerSound
  <2>. QED
    BY <2>2 DEF BufferInv, SentInv
<1>. QED
  BY <1>1, <1>2, <1>3, TcpStep DEF UdpNext

\* The inductive invariant of the Packetizer.
LEMMA ConnectionInv == UdpSpec => [](BufferInv /\ SentInv)
<1>1. UdpInit => BufferInv /\ SentInv
  <2>. SUFFICES ASSUME UdpInit PROVE BufferInv /\ SentInv
    OBVIOUS
  <2>1. first \in FirstPacket /\ pk = create(first) /\ deferred = << >> /\ sent = << >>
    BY DEF UdpInit, PacketInit
  <2>2. Pk(pk, first)
    BY <2>1, FirstPk
  <2>. QED
    BY <2>1, <2>2 DEF BufferInv, SentInv
<1>2. (BufferInv /\ SentInv) /\ [UdpNext]_udpVars => (BufferInv /\ SentInv)'
  <2>. SUFFICES ASSUME BufferInv, SentInv, [UdpNext]_udpVars PROVE (BufferInv /\ SentInv)'
    OBVIOUS
  <2>1. CASE UdpNext
    BY <2>1, ConnectionStep
  <2>2. CASE UNCHANGED udpVars
    BY <2>2 DEF udpVars, BufferInv, SentInv
  <2>. QED
    BY <2>1, <2>2
<1>. QED
  BY <1>1, <1>2, PTL DEF UdpSpec

\* DeviceAccepts for every behaviour, every first packet and whatever is read from the
\* network (Packetizer::build() and the two answers of icmp_handler.rs): a packet that
\* was not overwritten while it waited has the lengths and checksums its stack asks for.
THEOREM AllAccepted == UdpSpec => []DeviceAccepts
<1>1. SentInv => DeviceAccepts
  BY DEF SentInv, DeviceAccepts, Accepted
<1>. QED
  BY <1>1, ConnectionInv, PTL

\* AsAsked for every behaviour: a packet of a connection comes from the other end of the
\* device's first packet, with the numbers and flags of the Tcb and the bytes that were
\* read (update_headers() and Packetizer::packetize()), whatever was built before.
THEOREM AllAsAsked == UdpSpec => []AsAsked
<1>1. SentInv => AsAsked
  BY DEF SentInv, AsAsked, AskedFor
<1>. QED
  BY <1>1, ConnectionInv, PTL
=============================================================================
