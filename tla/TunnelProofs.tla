---------------------------- MODULE TunnelProofs ----------------------------
(***************************************************************************)
(* For every capacity and every set of byte values, the circular buffer of *)
(* stream_buffer.rs keeps its indices in range and implements ByteFifo.    *)
(* ClientOutput, for every set of packets, rests on the lemmas about it;   *)
(* what is added is that a buffer which is only ever drained as a whole    *)
(* stays at the left end.  The tunnel rests on both, and on what the two   *)
(* loops that cut packets out of a stream make of the beginning of one:    *)
(* the bytes under way always are a number of whole packets of which the   *)
(* receiver has a beginning that is shorter than the first.                *)
(***************************************************************************)
EXTENDS Tunnel, SequenceLemmas


-----------------------------------------------------------------------------
(* StreamBuffer *)

\* An index short of the right end is left alone by the modulo of the code.
LEMMA ModSmall ==
  ASSUME NEW b \in Nat, NEW x \in Nat, x < b
  PROVE  x % b = x
BY SMT

\* One that has run past the right end by less than a whole array is brought
\* back by subtracting the length once.
LEMMA ModOnce ==
  ASSUME NEW b \in Nat, NEW x \in Nat, b <= x, x < 2 * b
  PROVE  x % b = x - b
BY SMT

\* The invariant the refinement rests on: the indices and the array keep their
\* type and an empty buffer has been reset by optimize().
IInv == TypeOK /\ EmptyIsReset

\* What size() is in terms of the two indices, without the case distinction of
\* the code: always between 0 and the capacity.
LEMMA SizeBounds ==
  ASSUME TypeOK
  PROVE  /\ size \in 0 .. Capacity
         /\ remaining \in 0 .. Capacity
         /\ size = 0 <=> head = tail
BY CapacityAssumption, SMT DEF TypeOK, size, remaining, BufLen, Slots

\* read_from() on a chunk that fits leaves the indices in range, does not make
\* a non-empty buffer look empty, and grows size() by the chunk's length.
LEMMA ReadFromIndices ==
  ASSUME IInv, NEW n \in 1 .. remaining, NEW source \in [1 .. n -> Byte], ReadFrom(source)
  PROVE  /\ IInv'
         /\ size' = size + n
         /\ Len(source) = n
         /\ source \in Seq(Byte)
<1> USE CapacityAssumption
<1>1. /\ source \in Seq(Byte)
      /\ Len(source) = n
  BY SMT DEF remaining, size, IInv, TypeOK, BufLen, Slots
<1>2. /\ head \in 0 .. Capacity /\ tail \in 0 .. Capacity
      /\ n \in Nat /\ n <= Capacity - size
      /\ size \in 0 .. Capacity
  BY SizeBounds, SMT DEF IInv, TypeOK, Slots, remaining
<1>3. head' = IF head + n < BufLen THEN head + n ELSE head + n - BufLen
  <2>1. /\ BufLen \in Nat /\ head + n \in Nat /\ head + n < 2 * BufLen
    BY <1>2, SMT DEF BufLen
  <2>2. head' = (head + n) % BufLen
    BY <1>1 DEF ReadFrom
  <2>3. CASE head + n < BufLen
    BY <2>1, <2>2, <2>3, ModSmall
  <2>4. CASE BufLen <= head + n
    <3>1. (head + n) % BufLen = (head + n) - BufLen
      BY <2>1, <2>4, ModOnce, Zenon
    <3>2. ~(head + n < BufLen)
      BY <2>1, <2>4
    <3>3. QED
      BY <3>1, <3>2, <2>1, <2>2, <1>2
  <2>5. QED
    BY <2>1, <2>3, <2>4
<1>4. /\ head' \in Slots /\ tail' = tail /\ tail' \in Slots
  BY <1>2, <1>3, SMT DEF ReadFrom, BufLen, Slots
<1>5. size' = size + n
  BY <1>2, <1>3, <1>4, SMT DEF size, BufLen, Slots
<1>6. buf' \in [Slots -> Byte]
  <2>1. buf \in [Slots -> Byte]
    BY DEF IInv, TypeOK
  <2>2. ASSUME NEW i \in Slots
        PROVE  /\ head <= i /\ i < head + n => i - head + 1 \in 1 .. n
               /\ i < head + n - BufLen => i + BufLen - head + 1 \in 1 .. n
    BY <1>2, SMT DEF Slots, BufLen
  <2>3. ASSUME NEW i \in Slots PROVE copied(source, i) \in Byte
    BY <1>1, <2>1, <2>2 DEF copied
  <2>4. QED
    BY <2>3 DEF ReadFrom
<1>7. EmptyIsReset'
  BY <1>2, <1>4, <1>5, SMT DEF EmptyIsReset, is_empty, size, BufLen, Slots
<1>8. sent' \in Seq(Byte)
  BY DEF ReadFrom, IInv, TypeOK
<1>9. QED
  BY <1>1, <1>4, <1>5, <1>6, <1>7, <1>8 DEF IInv, TypeOK

\* Where the bytes are afterwards: the ones buffered before have not moved and
\* the chunk follows them, wherever the right end of the array falls.
LEMMA ReadFromContent ==
  ASSUME IInv, NEW n \in 1 .. remaining, NEW source \in [1 .. n -> Byte], ReadFrom(source)
  PROVE  content' = content \o source
<1> USE CapacityAssumption
<1>1. /\ size' = size + n
      /\ Len(source) = n
      /\ source \in Seq(Byte)
      /\ IInv'
  BY ReadFromIndices
<1>2. /\ head \in 0 .. Capacity /\ tail \in 0 .. Capacity /\ tail' = tail
      /\ n \in Nat /\ n >= 1 /\ n <= Capacity - size
      /\ size \in 0 .. Capacity
      /\ size = IF head < tail THEN head + Capacity + 1 - tail ELSE head - tail
  BY SizeBounds, SMT DEF IInv, TypeOK, Slots, remaining, size, BufLen, ReadFrom
<1> DEFINE at(i) == IF tail + i - 1 < BufLen THEN tail + i - 1 ELSE tail + i - 1 - BufLen
<1>3. ASSUME NEW i \in 1 .. size + n
      PROVE  /\ at(i) \in Slots
             /\ i <= size => ~(head <= at(i) /\ at(i) < head + n) /\ ~(at(i) < head + n - BufLen)
             /\ i > size => IF head <= at(i) /\ at(i) < head + n THEN at(i) - head + 1 = i - size
                            ELSE at(i) < head + n - BufLen /\ at(i) + BufLen - head + 1 = i - size
  BY <1>2, SMT DEF Slots, BufLen
<1>4. content = [i \in 1 .. size |-> buf[at(i)]]
  BY <1>2, SMT DEF content
<1>5. content' = [i \in 1 .. size + n |-> buf'[at(i)]]
  BY <1>1, <1>2, SMT DEF content, BufLen
<1> HIDE DEF at
<1>6. ASSUME NEW i \in 1 .. size + n
      PROVE  buf'[at(i)] = IF i <= size THEN buf[at(i)] ELSE source[i - size]
  <2>1. buf'[at(i)] = copied(source, at(i))
    BY <1>3 DEF ReadFrom
  <2>2. CASE i <= size
    <3>1. /\ ~(head <= at(i) /\ at(i) < head + n)
          /\ ~(at(i) < head + n - BufLen)
      BY <2>2, <1>3
    <3>2. copied(source, at(i)) = buf[at(i)]
      BY <3>1, <1>1, Zenon DEF copied
    <3>3. QED
      BY <3>2, <2>1, <2>2, Zenon
  <2>3. CASE i > size /\ head <= at(i) /\ at(i) < head + n
    <3>1. copied(source, at(i)) = source[at(i) - head + 1]
      BY <2>3, <1>1, Zenon DEF copied
    <3>2. at(i) - head + 1 = i - size
      BY <2>3, <1>3
    <3>3. ~(i <= size)
      BY <2>3, <1>2
    <3>4. QED
      BY <3>1, <3>2, <3>3, <2>1, Zenon
  <2>4. CASE i > size /\ ~(head <= at(i) /\ at(i) < head + n)
    <3>1. /\ at(i) < head + n - BufLen
          /\ at(i) + BufLen - head + 1 = i - size
      BY <2>4, <1>3
    <3>2. copied(source, at(i)) = source[at(i) + BufLen - head + 1]
      BY <2>4, <3>1, <1>1, Zenon DEF copied
    <3>3. ~(i <= size)
      BY <2>4, <1>2
    <3>4. QED
      BY <3>1, <3>2, <3>3, <2>1, Zenon
  <2>5. QED
    BY <2>2, <2>3, <2>4, <1>2
<1>7. /\ content \in Seq(Byte)
      /\ Len(content) = size
  <2>1. ASSUME NEW i \in 1 .. size PROVE buf[at(i)] \in Byte
    <3>1. i \in 1 .. size + n
      BY <1>2
    <3>2. at(i) \in Slots
      BY <3>1, <1>3
    <3>3. QED
      BY <3>2 DEF IInv, TypeOK
  <2>2. QED
    BY <2>1, <1>4, <1>2
<1>8. /\ content' \in Seq(Byte)
      /\ Len(content') = size + n
  <2>1. ASSUME NEW i \in 1 .. size + n PROVE buf'[at(i)] \in Byte
    BY <1>1, <1>3 DEF IInv, TypeOK
  <2>2. QED
    BY <2>1, <1>5, <1>2
<1>9. ASSUME NEW i \in 1 .. size + n
      PROVE  content'[i] = IF i <= size THEN content[i] ELSE source[i - size]
  BY <1>2, <1>4, <1>5, <1>6
<1>10. /\ content \o source \in Seq(Byte)
       /\ Len(content \o source) = size + n
       /\ \A i \in 1 .. size + n : (content \o source)[i] = IF i <= size THEN content[i] ELSE source[i - size]
  <2>1. /\ content \o source \in Seq(Byte)
        /\ Len(content \o source) = Len(content) + Len(source)
        /\ \A i \in 1 .. Len(content) + Len(source) : (content \o source)[i] =
               IF i <= Len(content) THEN content[i] ELSE source[i - Len(content)]
    BY <1>1, <1>7, ConcatProperties, Zenon
  <2>2. QED
    BY <2>1, <1>1, <1>7, Zenon
<1>11. QED
  BY <1>8, <1>9, <1>10, SeqEqual

\* write_to() keeps the indices in range and resets them when it empties the
\* buffer, whatever number of bytes the destination accepts.
LEMMA WriteToIndices ==
  ASSUME IInv, NEW w \in 0 .. slice_len, WriteTo(w)
  PROVE  /\ IInv'
         /\ w \in 0 .. size
         /\ size' = size - w
<1> USE CapacityAssumption
<1>1. /\ head \in 0 .. Capacity /\ tail \in 0 .. Capacity /\ head # tail
      /\ w \in Nat /\ w <= slice_len
      /\ slice_len = IF head > tail THEN head - tail ELSE Capacity + 1 - tail
  BY SMT DEF IInv, TypeOK, Slots, slice_len, BufLen, WriteTo, is_empty
<1>2. advance(w) = IF head > tail THEN tail + w
                   ELSE IF tail + w < BufLen THEN tail + w ELSE 0
  <2>1. CASE head > tail
    BY <2>1 DEF advance
  <2>2. CASE ~(head > tail) /\ tail + w < BufLen
    <3>1. (tail + w) % BufLen = tail + w
      BY <2>2, <1>1, ModSmall, SMT DEF BufLen
    <3>2. QED
      BY <2>2, <3>1 DEF advance
  <2>3. CASE ~(head > tail) /\ ~(tail + w < BufLen)
    <3>1. tail + w = BufLen /\ BufLen \in Nat /\ BufLen > 0
      BY <2>3, <1>1, SMT DEF BufLen
    <3>2. BufLen % BufLen = 0
      BY <3>1, ModOnce, SMT
    <3>3. QED
      BY <2>3, <3>1, <3>2 DEF advance
  <2>4. QED
    BY <2>1, <2>2, <2>3
<1>3. /\ advance(w) \in Slots
      /\ w \in 0 .. size
      /\ head' \in Slots /\ tail' \in Slots
      /\ size' = size - w
  BY <1>1, <1>2, SMT DEF WriteTo, Slots, BufLen, size
<1>4. EmptyIsReset'
  BY <1>1, <1>2, <1>3, SMT DEF WriteTo, EmptyIsReset, is_empty, Slots
<1>5. sent' \in Seq(Byte)
  <2>1. \A i \in 1 .. w : tail + i - 1 \in Slots
    BY <1>1, SMT DEF Slots
  <2>2. \A i \in 1 .. w : buf[tail + i - 1] \in Byte
    BY <2>1 DEF IInv, TypeOK
  <2>3. QED
    BY <2>2, <1>1 DEF WriteTo
<1>6. buf' \in [Slots -> Byte]
  BY DEF WriteTo, IInv, TypeOK
<1>7. QED
  BY <1>3, <1>4, <1>5, <1>6 DEF IInv, TypeOK

\* What write_to() handed over is the oldest part of the content and what stays
\* is the rest.
LEMMA WriteToContent ==
  ASSUME IInv, NEW w \in 0 .. slice_len, WriteTo(w)
  PROVE  /\ sent' = SubSeq(content, 1, w)
         /\ content' = SubSeq(content, w + 1, Len(content))
<1> USE CapacityAssumption
<1>1. /\ IInv'
      /\ w \in 0 .. size
      /\ size' = size - w
  BY WriteToIndices
<1>2. /\ head \in 0 .. Capacity /\ tail \in 0 .. Capacity /\ head # tail
      /\ w <= slice_len
      /\ slice_len = IF head > tail THEN head - tail ELSE Capacity + 1 - tail
      /\ size \in 0 .. Capacity
      /\ size = IF head < tail THEN head + Capacity + 1 - tail ELSE head - tail
  BY SizeBounds, SMT DEF IInv, TypeOK, Slots, slice_len, size, BufLen, WriteTo, is_empty
<1> DEFINE at(i) == IF tail + i - 1 < BufLen THEN tail + i - 1 ELSE tail + i - 1 - BufLen
<1>3. content = [i \in 1 .. size |-> buf[at(i)]]
  BY <1>2, SMT DEF content
<1>4. ASSUME NEW i \in 1 .. size PROVE at(i) \in Slots
  BY <1>2, SMT DEF Slots, BufLen
<1>5. ASSUME NEW i \in 1 .. w PROVE at(i) = tail + i - 1 /\ i \in 1 .. size
  BY <1>1, <1>2, SMT DEF BufLen
<1>6. content' = [i \in 1 .. size - w |-> buf[at(w + i)]]
  <2>1. content' = [i \in 1 .. size' |->
                      IF tail' + i - 1 < BufLen THEN buf'[tail' + i - 1] ELSE buf'[tail' + i - 1 - BufLen]]
    BY DEF content, BufLen
  <2>2. ASSUME NEW i \in 1 .. size - w
        PROVE  buf[at(w + i)] =
                 IF tail' + i - 1 < BufLen THEN buf[tail' + i - 1] ELSE buf[tail' + i - 1 - BufLen]
    <3>1. tail' = advance(w)
      BY <1>1, <1>2, SMT DEF WriteTo, size
    <3>2. CASE head > tail
      BY <3>1, <3>2, <1>1, <1>2, SMT DEF advance, BufLen
    <3>3. CASE ~(head > tail) /\ tail + w < BufLen
      <4>1. (tail + w) % BufLen = tail + w
        BY <3>3, <1>1, <1>2, ModSmall, SMT DEF BufLen
      <4>2. QED
        BY <4>1, <3>1, <3>3, <1>1, <1>2, SMT DEF advance, BufLen
    <3>4. CASE ~(head > tail) /\ ~(tail + w < BufLen)
      <4>1. tail + w = BufLen /\ BufLen \in Nat /\ BufLen > 0
        BY <3>4, <1>1, <1>2, SMT DEF BufLen
      <4>2. BufLen % BufLen = 0
        BY <4>1, ModOnce, SMT
      <4>3. tail' = 0
        BY <4>1, <4>2, <3>1, <3>4 DEF advance
      <4>4. QED
        BY <4>1, <4>3, <1>1, <1>2, SMT DEF BufLen
    <3>5. QED
      BY <3>2, <3>3, <3>4
  <2>3. buf' = buf
    BY DEF WriteTo
  <2>4. QED
    BY <2>1, <2>2, <2>3, <1>1
<1>7. sent' = [i \in 1 .. w |-> buf[at(i)]]
  BY <1>5 DEF WriteTo
<1> HIDE DEF at
<1>8. /\ content \in Seq(Byte)
      /\ Len(content) = size
      /\ \A i \in 1 .. size : content[i] \in Byte /\ content[i] = buf[at(i)]
  <2>1. \A i \in 1 .. size : buf[at(i)] \in Byte
    BY <1>4 DEF IInv, TypeOK
  <2>2. QED
    BY <2>1, <1>3, <1>2
<1>9. sent' = SubSeq(content, 1, w)
  <2>1. /\ SubSeq(content, 1, w) \in Seq(Byte)
        /\ Len(SubSeq(content, 1, w)) = w
        /\ \A i \in 1 .. w : SubSeq(content, 1, w)[i] = content[i]
    BY <1>8, <1>1, <1>2, SMT
  <2>2. /\ sent' \in Seq(Byte)
        /\ Len(sent') = w
        /\ \A i \in 1 .. w : sent'[i] = content[i]
    BY <1>1, <1>5, <1>7, <1>8 DEF IInv, TypeOK
  <2>3. QED
    BY <2>1, <2>2, SeqEqual
<1>10. content' = SubSeq(content, w + 1, Len(content))
  <2>1. /\ SubSeq(content, w + 1, size) \in Seq(Byte)
        /\ Len(SubSeq(content, w + 1, size)) = size - w
        /\ \A i \in 1 .. size - w : SubSeq(content, w + 1, size)[i] = content[w + i]
    BY <1>8, <1>1, <1>2, SMT
  <2>2. /\ content' \in Seq(Byte)
        /\ Len(content') = size - w
        /\ \A i \in 1 .. size - w : content'[i] = content[w + i]
    <3>1. \A i \in 1 .. size - w : w + i \in 1 .. size
      BY <1>1, <1>2
    <3>2. \A i \in 1 .. size - w : buf[at(w + i)] = content[w + i] /\ buf[at(w + i)] \in Byte
      BY <3>1, <1>8
    <3>3. size - w \in Nat
      BY <1>1, <1>2
    <3>4. content' = [i \in 1 .. size - w |-> content[w + i]]
      BY <3>2, <1>6
    <3>5. \A i \in 1 .. size - w : content[w + i] \in Byte
      BY <3>2
    <3>6. QED
      BY <3>3, <3>4, <3>5
  <2>3. QED
    BY <2>1, <2>2, <1>8, SeqEqual
<1>11. QED
  BY <1>9, <1>10

\* The invariant holds at first and every step of the buffer preserves it.
LEMMA Inductive ==
  /\ Init => IInv
  /\ IInv /\ [Next]_vars => IInv'
<1>1. Init => IInv
  BY CapacityAssumption, ZeroAssumption DEF Init, IInv, TypeOK, EmptyIsReset, is_empty, Slots
<1>2. ASSUME IInv, [Next]_vars PROVE IInv'
  <2>1. CASE \E n \in 1 .. remaining : \E source \in [1 .. n -> Byte] : ReadFrom(source)
    BY <1>2, <2>1, ReadFromIndices
  <2>2. CASE \E w \in 0 .. slice_len : WriteTo(w)
    BY <1>2, <2>2, WriteToIndices
  <2>3. CASE UNCHANGED vars
    BY <1>2, <2>3 DEF vars, IInv, TypeOK, EmptyIsReset, is_empty
  <2>4. QED
    BY <1>2, <2>1, <2>2, <2>3 DEF Next
<1>3. QED
  BY <1>1, <1>2

\* The indices of the circular buffer stay inside the array and the array
\* keeps its shape, whatever the chunks and the partial writes.
THEOREM TypeCorrect == Spec => []TypeOK
<1>1. IInv => TypeOK
  BY DEF IInv
<1>2. QED
  BY <1>1, Inductive, PTL DEF Spec

\* optimize() is never missed: an empty buffer always starts at index 0.
THEOREM EmptyReset == Spec => []EmptyIsReset
<1>1. IInv => EmptyIsReset
  BY DEF IInv
<1>2. QED
  BY <1>1, Inductive, PTL DEF Spec

\* The circular buffer implements the bounded FIFO for every capacity and every
\* set of bytes: the bytes come out of write_to() in the order read_from() put
\* them in, none lost and none repeated.
THEOREM Refinement == Spec => ImplementsFifo
<1>1. Init => Fifo!Init
  <2> SUFFICES ASSUME Init PROVE Fifo!Init
    OBVIOUS
  <2>1. size = 0 /\ content = [i \in 1 .. 0 |-> IF tail + i - 1 < BufLen THEN buf[tail + i - 1] ELSE buf[tail + i - 1 - BufLen]]
    BY CapacityAssumption DEF Init, size, content, BufLen
  <2>2. content = << >>
    BY <2>1
  <2>3. QED
    BY <2>2 DEF Init, Fifo!Init
<1>2. ASSUME IInv, [Next]_vars PROVE [Fifo!Next]_<<content, sent>>
  <2>1. ASSUME NEW n \in 1 .. remaining, NEW source \in [1 .. n -> Byte], ReadFrom(source)
        PROVE  Fifo!Put
    <3>1. content' = content \o source /\ sent' = sent
      BY <1>2, <2>1, ReadFromContent DEF ReadFrom
    <3>2. Len(content) = size
      BY <1>2, SizeBounds DEF IInv, content
    <3>3. n \in 1 .. (Capacity - Len(content))
      BY <3>2 DEF remaining
    <3>4. QED
      BY <3>1, <3>3, <2>1 DEF Fifo!Put
  <2>2. ASSUME NEW w \in 0 .. slice_len, WriteTo(w)
        PROVE  Fifo!Take
    <3>1. /\ sent' = SubSeq(content, 1, w)
          /\ content' = SubSeq(content, w + 1, Len(content))
      BY <1>2, <2>2, WriteToContent
    <3>2. Len(content) = size
      BY <1>2, SizeBounds DEF IInv, content
    <3>3. w \in 0 .. Len(content)
      BY <3>2, <1>2, <2>2, WriteToIndices
    <3>4. QED
      BY <3>1, <3>3 DEF Fifo!Take
  <2>3. CASE UNCHANGED vars
    <3>1. content' = content
      BY <2>3 DEF content, vars, size, BufLen
    <3>2. QED
      BY <3>1, <2>3 DEF vars
  <2>4. QED
    BY <1>2, <2>1, <2>2, <2>3 DEF Next, Fifo!Next
<1>3. QED
  BY <1>1, <1>2, Inductive, PTL DEF Spec, ImplementsFifo, Fifo!Spec

-----------------------------------------------------------------------------
(* ClientOutput *)

\* The inductive invariant: the buffer's own, and the two properties.
OutInv ==
  /\ IInv /\ NeverWraps
  /\ pending \in Seq(Byte) /\ owed \in Seq(Byte)
  /\ OutgoingIntact

\* The content is a sequence of bytes.
LEMMA ContentType ==
  ASSUME IInv
  PROVE  content \in Seq(Byte) /\ Len(content) = size
<1>1. /\ size \in 0 .. Capacity /\ Capacity \in Nat
      /\ head \in 0 .. Capacity /\ tail \in 0 .. Capacity /\ buf \in [0 .. Capacity -> Byte]
  BY SizeBounds, CapacityAssumption DEF IInv, TypeOK, Slots
<1>2. \A i \in 1 .. size :
        (IF tail + i - 1 < BufLen THEN buf[tail + i - 1] ELSE buf[tail + i - 1 - BufLen]) \in Byte
  BY <1>1, SMT DEF BufLen
<1>3. QED
  BY <1>1, <1>2, SMT DEF content

\* A packet that is accepted goes to the end of the content.
LEMMA SendStep ==
  ASSUME OutInv, NEW p \in Packets, send_to_client(p)
  PROVE  OutInv'
<1>1. p \in Seq(Byte) /\ p # << >>
  BY OutputAssumption
<1>2. /\ Len(p) \in 1 .. remaining /\ p \in [1 .. Len(p) -> Byte]
  <2>1. remaining \in 0 .. Capacity /\ Capacity \in Nat
    BY SizeBounds, CapacityAssumption DEF OutInv, IInv
  <2>2. Len(p) <= remaining
    BY DEF send_to_client
  <2>3. QED
    BY <1>1, <2>1, <2>2, SMT
<1>3. ReadFrom(p) /\ IInv
  BY DEF send_to_client, OutInv
<1>4. IInv' /\ content' = content \o p
  BY <1>2, <1>3, ReadFromIndices, ReadFromContent
<1>5. NeverWraps'
  BY <1>3 DEF ReadFrom, OutInv, NeverWraps
<1>6. pending' = pending /\ owed' = owed \o p
  BY DEF send_to_client
<1>7. content \in Seq(Byte) /\ pending \in Seq(Byte) /\ owed \in Seq(Byte)
      /\ pending \o content = owed
  BY <1>3, ContentType DEF OutInv, OutgoingIntact
<1>8. pending \o (content \o p) = (pending \o content) \o p
  <2> DEFINE q == pending
             r == content
  <2>1. q \in Seq(Byte) /\ r \in Seq(Byte) /\ p \in Seq(Byte)
    BY <1>1, <1>7
  <2> HIDE DEF q, r
  <2>2. (q \o r) \o p = q \o (r \o p)
    BY <2>1, ConcatAssociative, SMTT(40)
  <2>3. QED
    BY <2>2 DEF q, r
<1>9. owed' \in Seq(Byte)
  BY <1>1, <1>6, <1>7
<1>10. OutgoingIntact'
  BY <1>4, <1>6, <1>7, <1>8 DEF OutgoingIntact
<1>11. QED
  BY <1>4, <1>5, <1>6, <1>7, <1>9, <1>10 DEF OutInv

\* drain_outgoing() returns the whole content and leaves an empty buffer at the
\* left end.
LEMMA DrainStep ==
  ASSUME OutInv, drain_outgoing
  PROVE  IInv' /\ NeverWraps' /\ outgoing = content /\ content' = << >>
<1>1. /\ Capacity \in Nat /\ tail = 0 /\ head \in 0 .. Capacity /\ IInv
  BY CapacityAssumption DEF OutInv, IInv, TypeOK, Slots, NeverWraps
<1>2. size = head
  BY <1>1, SMT DEF size
<1>3. content \in Seq(Byte) /\ Len(content) = size
  BY <1>1, ContentType
<1>4. CASE is_empty
  <2>1. size = 0 /\ outgoing = << >> /\ UNCHANGED vars
    BY <1>1, <1>2, <1>4 DEF is_empty, outgoing, drain_outgoing
  <2>2. content = << >>
    BY <1>3, <2>1, EmptySeq, SMT
  <2>3. IInv' /\ NeverWraps' /\ content' = content
    BY <1>1, <2>1 DEF vars, IInv, TypeOK, EmptyIsReset, is_empty, NeverWraps, content, size
  <2>4. QED
    BY <2>1, <2>2, <2>3
<1>5. CASE ~is_empty
  <2>1. WriteTo(slice_len)
    BY <1>5 DEF drain_outgoing
  <2>2. slice_len = size /\ size \in 1 .. Capacity
    BY <1>1, <1>2, <1>5, SMT DEF is_empty, slice_len
  <2>3. slice_len \in 0 .. slice_len
    BY <2>2, SMT
  <2>4. IInv' /\ content' = SubSeq(content, slice_len + 1, Len(content))
    BY <1>1, <2>1, <2>3, WriteToIndices, WriteToContent
  <2>5. content' = << >>
    BY <1>3, <2>2, <2>4, SMT
  <2>6. NeverWraps'
    <3>1. advance(slice_len) = head
      BY <1>1, <1>2, <1>5, <2>2, SMT DEF advance, is_empty
    <3>2. QED
      BY <2>1, <3>1 DEF WriteTo, NeverWraps
  <2>7. outgoing = content
    <3>1. outgoing = [i \in 1 .. size |-> IF i <= slice_len THEN buf[(tail + i) - 1] ELSE Zero]
      BY <1>5 DEF outgoing
    <3>2. content = [i \in 1 .. size |->
             IF tail + i - 1 < BufLen THEN buf[tail + i - 1] ELSE buf[tail + i - 1 - BufLen]]
      BY DEF content
    <3>3. ASSUME NEW i \in 1 .. size
          PROVE  (IF i <= slice_len THEN buf[(tail + i) - 1] ELSE Zero) =
                 (IF tail + i - 1 < BufLen THEN buf[tail + i - 1] ELSE buf[tail + i - 1 - BufLen])
      BY <1>1, <1>2, <2>2, SMT DEF BufLen
    <3>4. QED
      BY <3>1, <3>2, <3>3
  <2>8. QED
    BY <2>4, <2>5, <2>6, <2>7
<1>6. QED
  BY <1>4, <1>5

\* The end of an iteration moves bytes from the buffer to pending_outgoing and
\* from there to the stream.
LEMMA FlushStep ==
  ASSUME OutInv, NEW n \in Nat, Flush(n)
  PROVE  OutInv'
<1>1. drain_outgoing
  BY DEF Flush
<1>2. IInv' /\ NeverWraps' /\ outgoing = content /\ content' = << >>
  BY <1>1, DrainStep
<1>3. pending \o outgoing = owed /\ owed \in Seq(Byte)
  BY <1>2 DEF OutInv, OutgoingIntact
<1>4. /\ n <= Len(owed)
      /\ pending' = SubSeq(owed, n + 1, Len(owed)) /\ owed' = SubSeq(owed, n + 1, Len(owed))
  BY <1>3 DEF Flush
<1>5. SubSeq(owed, n + 1, Len(owed)) \in Seq(Byte)
  BY <1>3, <1>4, SMT
<1>6. pending' \o << >> = pending'
  BY <1>4, <1>5, ConcatEmptySeq
<1>7. OutgoingIntact'
  BY <1>2, <1>4, <1>6 DEF OutgoingIntact
<1>8. QED
  BY <1>2, <1>4, <1>5, <1>7 DEF OutInv

LEMMA OutInductive ==
  /\ OutInit => OutInv
  /\ OutInv /\ [OutNext]_outVars => OutInv'
<1>1. ASSUME OutInit PROVE OutInv
  <2>1. Init /\ pending = << >> /\ owed = << >>
    BY <1>1 DEF OutInit
  <2>2. IInv
    BY <2>1, Inductive
  <2>3. NeverWraps
    BY <2>1 DEF Init, NeverWraps
  <2>4. size = 0
    BY <2>1, SMT DEF Init, size
  <2>5. content = << >>
    BY <2>2, <2>4, ContentType, EmptySeq, SMT
  <2>6. QED
    BY <2>1, <2>2, <2>3, <2>5 DEF OutInv, OutgoingIntact
<1>2. ASSUME OutInv, [OutNext]_outVars PROVE OutInv'
  <2>1. CASE UNCHANGED outVars
    BY <1>2, <2>1 DEF OutInv, outVars, vars, IInv, TypeOK, EmptyIsReset, is_empty, NeverWraps,
                      OutgoingIntact, content, size
  <2>2. ASSUME NEW p \in Packets, send_to_client(p) PROVE OutInv'
    BY <1>2, <2>2, SendStep
  <2>3. ASSUME NEW p \in Packets, send_to_client_fails(p) PROVE OutInv'
    BY <2>1, <2>3 DEF send_to_client_fails
  <2>4. ASSUME NEW n \in 0 .. (MaxPending + 2 * Capacity), Flush(n) PROVE OutInv'
    BY <1>2, <2>4, FlushStep, CapacityAssumption, OutputAssumption
  <2>5. QED
    BY <1>2, <2>1, <2>2, <2>3, <2>4 DEF OutNext
<1>3. QED
  BY <1>1, <1>2

\* drain_outgoing() never meets a buffer that wraps around, whatever the sizes
\* of the packets and the capacity.
THEOREM DrainWhole == OutSpec => []NeverWraps
<1>1. OutInv => NeverWraps
  BY DEF OutInv
<1>2. QED
  BY <1>1, OutInductive, PTL DEF OutSpec

\* The device's stream carries the accepted packets and nothing else, however
\* few bytes the stream accepts at a time.
THEOREM StreamIntact == OutSpec => []OutgoingIntact
<1>1. OutInv => OutgoingIntact
  BY DEF OutInv
<1>2. QED
  BY <1>1, OutInductive, PTL DEF OutSpec

-----------------------------------------------------------------------------
(* Framing *)

\* What the packets are to the loops that cut them out of a stream.
LEMMA PacketIs ==
  ASSUME NEW p \in Packets
  PROVE  /\ p \in Seq(Nat) /\ Len(p) \in Nat /\ Len(p) >= 2 /\ announced(p) = Len(p)
         /\ \/ p[1] = 4 /\ p[2] = Len(p)
            \/ p[1] = 6 /\ Len(p) >= 3 /\ p[3] + 3 = Len(p)
         /\ Len(p) <= MaxChunk
<1>1. p \in Seq(Byte) /\ Byte \subseteq Nat
  BY OutputAssumption, TunnelAssumption
<1>2. p \in Seq(Nat) /\ Len(p) \in Nat
  <2>1. p \in Seq(Nat)
    BY <1>1, SeqMonotonic, Zenon
  <2>. QED
    BY <2>1
<1>3. announced(p) > 0 /\ announced(p) = Len(p) /\ Len(p) <= MaxChunk
  BY TunnelAssumption DEF is_complete
<1>4. CASE Len(p) >= 2 /\ p[1] = 4
  <2>1. announced(p) = p[2]
    BY <1>4 DEF announced
  <2>. QED
    BY <1>2, <1>3, <1>4, <2>1
<1>5. CASE Len(p) >= 3 /\ p[1] = 6
  <2>1. announced(p) = p[3] + 3
    BY <1>5 DEF announced, V6Header
  <2>2. Len(p) >= 2
    BY <1>2, <1>5
  <2>. QED
    BY <1>2, <1>3, <1>5, <2>1, <2>2
<1>6. CASE ~(Len(p) >= 2 /\ p[1] = 4) /\ ~(Len(p) >= 3 /\ p[1] = 6)
  <2>1. announced(p) = 0
    BY <1>6 DEF announced, V6Header
  <2>. QED
    BY <1>3, <2>1
<1>. QED
  BY <1>4, <1>5, <1>6

\* A stream that starts with the packet p: a beginning b of it that is shorter than p is
\* neither complete nor malformed, and of a longer one the first packet is p.
LEMMA Beginning ==
  ASSUME NEW p \in Packets, NEW b \in Seq(Nat), NEW r \in Seq(Nat), NEW f \in Seq(Nat), b \o r = p \o f
  PROVE  /\ Len(b) < Len(p) => ~is_complete(b) /\ (b = << >> \/ supported(b))
         /\ Len(b) >= Len(p) => /\ is_complete(b) /\ announced(b) = Len(p) /\ front(b, Len(p)) = p
                                /\ rest(b, Len(p)) \in Seq(Nat) /\ rest(b, Len(p)) \o r = f
<1>1. /\ p \in Seq(Nat) /\ Len(p) \in Nat /\ Len(p) >= 2
      /\ \/ p[1] = 4 /\ p[2] = Len(p)
         \/ p[1] = 6 /\ Len(p) >= 3 /\ p[3] + 3 = Len(p)
  BY PacketIs
<1>2. Len(b) \in Nat /\ Len(r) \in Nat /\ Len(f) \in Nat
  OBVIOUS
<1>3. \A i \in 1 .. Len(b) : i <= Len(p) => b[i] = p[i]
  <2>1. \A i \in 1 .. Len(b) + Len(r) : (b \o r)[i] = IF i <= Len(b) THEN b[i] ELSE r[i - Len(b)]
    BY ConcatProperties
  <2>2. \A i \in 1 .. Len(p) + Len(f) : (p \o f)[i] = IF i <= Len(p) THEN p[i] ELSE f[i - Len(p)]
    BY <1>1, ConcatProperties
  <2>3. ASSUME NEW i \in 1 .. Len(b), i <= Len(p) PROVE b[i] = p[i]
    <3>1. i \in 1 .. Len(b) + Len(r) /\ i \in 1 .. Len(p) + Len(f) /\ i <= Len(b)
      BY <1>1, <1>2, <2>3, SMTT(30)
    <3>. QED
      BY <2>1, <2>2, <2>3, <3>1, Zenon
  <2>. QED
    BY <2>3
<1>4. /\ Len(b) >= 1 => b[1] = p[1]
      /\ Len(b) >= 2 => b[2] = p[2]
      /\ Len(b) >= 3 /\ Len(p) >= 3 => b[3] = p[3]
  <2>1. /\ Len(b) >= 1 => 1 \in 1 .. Len(b) /\ 1 <= Len(p)
        /\ Len(b) >= 2 => 2 \in 1 .. Len(b) /\ 2 <= Len(p)
        /\ Len(b) >= 3 /\ Len(p) >= 3 => 3 \in 1 .. Len(b) /\ 3 <= Len(p)
    BY <1>1, <1>2
  <2>. QED
    BY <1>3, <2>1, Zenon
<1>5. announced(b) = 0 \/ announced(b) = Len(p)
  <2>1. CASE Len(b) >= 2 /\ b[1] = 4
    <3>1. Len(b) >= 1
      BY <1>2, <2>1
    <3>2. p[1] = 4 /\ b[2] = p[2]
      BY <1>4, <2>1, <3>1
    <3>3. p[2] = Len(p)
      BY <1>1, <3>2
    <3>. QED
      BY <2>1, <3>2, <3>3 DEF announced
  <2>2. CASE Len(b) >= 3 /\ b[1] = 6
    <3>1. Len(b) >= 1
      BY <1>2, <2>2
    <3>2. p[1] = 6 /\ p[3] + 3 = Len(p) /\ b[3] = p[3]
      BY <1>1, <1>4, <2>2, <3>1, SMTT(30)
    <3>3. announced(b) = b[3] + 3
      BY <2>2 DEF announced, V6Header
    <3>. QED
      BY <3>2, <3>3
  <2>3. CASE ~(Len(b) >= 2 /\ b[1] = 4) /\ ~(Len(b) >= 3 /\ b[1] = 6)
    BY <2>3 DEF announced, V6Header
  <2>. QED
    BY <2>1, <2>2, <2>3
<1>6. ASSUME Len(b) < Len(p) PROVE ~is_complete(b) /\ (b = << >> \/ supported(b))
  <2>1. b = << >> \/ supported(b)
    <3>1. b # << >> => Len(b) >= 1
      BY <1>2
    <3>. QED
      BY <1>1, <1>4, <3>1 DEF supported
  <2>. QED
    BY <1>1, <1>2, <1>5, <1>6, <2>1 DEF is_complete
<1>7. ASSUME Len(p) <= Len(b)
      PROVE  /\ is_complete(b) /\ announced(b) = Len(p) /\ front(b, Len(p)) = p
             /\ rest(b, Len(p)) \in Seq(Nat) /\ rest(b, Len(p)) \o r = f
  <2>1. announced(b) = Len(p)
    <3>1. CASE p[1] = 4
      <4>1. Len(b) >= 1 /\ Len(b) >= 2
        BY <1>1, <1>2, <1>7
      <4>2. b[1] = 4 /\ b[2] = Len(p)
        BY <1>1, <1>4, <3>1, <4>1
      <4>. QED
        BY <4>1, <4>2 DEF announced
    <3>2. CASE p[1] = 6
      <4>1. Len(p) >= 3 /\ p[3] + 3 = Len(p)
        BY <1>1, <3>2
      <4>2. Len(b) >= 1 /\ Len(b) >= 3
        BY <1>1, <1>2, <1>7, <4>1
      <4>3. b[1] = 6 /\ b[3] = p[3]
        BY <1>4, <3>2, <4>1, <4>2
      <4>4. announced(b) = b[3] + 3
        BY <4>2, <4>3 DEF announced, V6Header
      <4>. QED
        BY <4>1, <4>3, <4>4
    <3>. QED
      BY <1>1, <3>1, <3>2
  <2>2. is_complete(b)
    BY <1>1, <1>2, <1>7, <2>1 DEF is_complete
  <2>3. Exceeds(b, r, p, f, Nat)
    <3>1. SameStream(b, r, p, f)
      BY DEF SameStream
    <3>. QED
      BY <1>1, <1>7, <3>1, Longer
  <2>4. front(b, Len(p)) = SubSeq(b, 1, Len(p))
    BY <1>7 DEF front
  <2>. QED
    BY <2>1, <2>2, <2>3, <2>4, Zenon DEF Exceeds, rest
<1>8. Len(b) >= Len(p) <=> Len(p) <= Len(b)
  BY <1>1, <1>2
<1>. QED
  BY <1>6, <1>7, <1>8

\* What the two loops take from a stream, and leave of it.
Outcome == [left : Seq(Nat), packets : Seq(Seq(Nat))]

TakeOne(f, b) ==
  LET n == announced(b)
      r == f[rest(b, n)]
  IN  [left |-> r.left, packets |-> <<front(b, n)>> \o r.packets]

\* A complete packet is well-formed and not empty: the loops come to an end.
LEMMA CutOff ==
  ASSUME NEW b \in Seq(Nat)
  PROVE  /\ is_complete(b) => /\ supported(b) /\ front(b, announced(b)) \in Seq(Nat)
                              /\ rest(b, announced(b)) \in Seq(Nat) /\ Len(rest(b, announced(b))) < Len(b)
         /\ b # << >> => rest(b, 1) \in Seq(Nat) /\ Len(rest(b, 1)) < Len(b)
<1>1. Len(b) \in Nat
  OBVIOUS
<1>2. ASSUME NEW n \in Nat, 0 < n, n <= Len(b)
      PROVE  front(b, n) \in Seq(Nat) /\ rest(b, n) \in Seq(Nat) /\ Len(rest(b, n)) < Len(b)
  <2>1. SplitsAt(b, n, Nat)
    BY <1>1, <1>2, SplitAt
  <2>2. /\ SubSeq(b, 1, n) \in Seq(Nat) /\ SubSeq(b, n + 1, Len(b)) \in Seq(Nat)
        /\ Len(SubSeq(b, n + 1, Len(b))) = Len(b) - n
    BY <2>1 DEF SplitsAt
  <2>3. Len(b) - n < Len(b)
    BY <1>1, <1>2
  <2>. QED
    BY <1>2, <2>2, <2>3, Zenon DEF front, rest
<1>3. ASSUME is_complete(b) PROVE supported(b) /\ announced(b) \in Nat /\ 0 < announced(b) /\ announced(b) <= Len(b)
  <2>1. announced(b) > 0 /\ announced(b) <= Len(b)
    BY <1>3 DEF is_complete
  <2>2. CASE Len(b) >= 2 /\ b[1] = 4
    <3>1. announced(b) = b[2] /\ b[2] \in Nat
      BY <1>1, <2>2 DEF announced
    <3>. QED
      BY <2>1, <2>2, <3>1 DEF supported
  <2>3. CASE Len(b) >= 3 /\ b[1] = 6
    <3>1. announced(b) = b[3] + 3 /\ b[3] \in Nat
      BY <1>1, <2>3 DEF announced, V6Header
    <3>. QED
      BY <2>1, <2>3, <3>1 DEF supported
  <2>4. CASE ~(Len(b) >= 2 /\ b[1] = 4) /\ ~(Len(b) >= 3 /\ b[1] = 6)
    <3>1. announced(b) = 0
      BY <2>4 DEF announced, V6Header
    <3>. QED
      BY <2>1, <3>1
  <2>. QED
    BY <2>2, <2>3, <2>4
<1>4. b # << >> => 1 <= Len(b)
  BY <1>1
<1>. QED
  BY <1>2, <1>3, <1>4

LEMMA TakeOneTyped ==
  ASSUME NEW f \in [Seq(Nat) -> Outcome], NEW b \in Seq(Nat), is_complete(b)
  PROVE  TakeOne(f, b) \in Outcome
<1>1. front(b, announced(b)) \in Seq(Nat) /\ rest(b, announced(b)) \in Seq(Nat)
  BY CutOff
<1>. DEFINE x == front(b, announced(b))
            r == f[rest(b, announced(b))]
<1>2. r \in Outcome
  BY <1>1
<1>. HIDE DEF x, r
<1>3. r.left \in Seq(Nat) /\ r.packets \in Seq(Seq(Nat)) /\ x \in Seq(Nat)
  BY <1>1, <1>2 DEF Outcome, x
<1>4. <<x>> \o r.packets \in Seq(Seq(Nat))
  BY <1>3
<1>5. [left |-> r.left, packets |-> <<x>> \o r.packets] \in Outcome
  BY <1>3, <1>4 DEF Outcome
<1>. QED
  BY <1>5 DEF TakeOne, x, r

\* The first packet of a stream is taken when it is complete, and nothing is done while
\* it is not.
IsCutter(g) ==
  \A b \in Seq(Nat) :
    /\ is_complete(b) => g[b] = TakeOne(g, b)
    /\ ~is_complete(b) /\ (b = << >> \/ supported(b)) => g[b] = [left |-> b, packets |-> << >>]

\* The loop of feed_device_data(), as a step.
RoutingStep(f) ==
  [b \in Seq(Nat) |->
     CASE is_complete(b) -> TakeOne(f, b)
       [] b # << >> /\ ~supported(b) -> f[rest(b, 1)]
       [] OTHER -> [left |-> b, packets |-> << >>]]

\* The loop of sink().
SinkingStep(f) ==
  [b \in Seq(Nat) |->
     CASE is_complete(b) -> TakeOne(f, b)
       [] b # << >> /\ ~supported(b) -> [left |-> cleared_and_compacted, packets |-> << >>]
       [] OTHER -> [left |-> b, packets |-> << >>]]

LEMMA RoutingIs == Routing = RoutingStep(Routing)
<1>. DEFINE lens == [b \in Seq(Nat) |-> Len(b)]
            next == [f \in [Seq(Nat) -> Outcome] |-> RoutingStep(f)]
            streams == Seq(Nat)
<1>1. ASSUME NEW f \in [Seq(Nat) -> Outcome], NEW b \in Seq(Nat) PROVE RoutingStep(f)[b] \in Outcome
  <2>1. CASE is_complete(b)
    <3>1. supported(b)
      BY <2>1, CutOff
    <3>2. RoutingStep(f)[b] = TakeOne(f, b)
      BY <2>1, <3>1 DEF RoutingStep
    <3>. QED
      BY <2>1, <3>2, TakeOneTyped
  <2>2. CASE ~is_complete(b) /\ b # << >> /\ ~supported(b)
    <3>1. RoutingStep(f)[b] = f[rest(b, 1)]
      BY <2>2 DEF RoutingStep
    <3>2. rest(b, 1) \in Seq(Nat)
      BY <2>2, CutOff
    <3>. QED
      BY <3>1, <3>2
  <2>3. CASE ~is_complete(b) /\ ~(b # << >> /\ ~supported(b))
    <3>1. RoutingStep(f)[b] = [left |-> b, packets |-> << >>]
      BY <2>3 DEF RoutingStep
    <3>. QED
      BY <3>1 DEF Outcome
  <2>. QED
    BY <2>1, <2>2, <2>3
<1>2. ASSUME NEW f \in [Seq(Nat) -> Outcome], NEW g \in [Seq(Nat) -> Outcome], NEW b \in Seq(Nat),
             \A e \in Seq(Nat) : lens[e] < lens[b] => f[e] = g[e]
      PROVE  RoutingStep(f)[b] = RoutingStep(g)[b]
  <2>0. \A e \in Seq(Nat) : Len(e) < Len(b) => f[e] = g[e]
    BY <1>2
  <2>1. is_complete(b) => supported(b) /\ TakeOne(f, b) = TakeOne(g, b)
    BY <2>0, CutOff DEF TakeOne
  <2>2. b # << >> => f[rest(b, 1)] = g[rest(b, 1)]
    BY <2>0, CutOff
  <2>. QED
    BY <2>1, <2>2 DEF RoutingStep
<1>3. \A f : DOMAIN RoutingStep(f) = Seq(Nat) /\ RoutingStep(f) = [b \in Seq(Nat) |-> RoutingStep(f)[b]]
  BY DEF RoutingStep
<1>4. \A f \in [Seq(Nat) -> Outcome] : RoutingStep(f) \in [Seq(Nat) -> Outcome] /\ next[f] = RoutingStep(f)
  BY <1>1, <1>3
<1>5. LooksBelow(next, streams, Outcome, lens)
  <2>1. lens \in [streams -> Nat]
    OBVIOUS
  <2>2. next \in [[streams -> Outcome] -> [streams -> Outcome]]
    BY <1>4
  <2>. HIDE DEF lens, next
  <2>3. \A f, g \in [streams -> Outcome] : \A b \in streams :
          (\A e \in streams : lens[e] < lens[b] => f[e] = g[e]) => next[f][b] = next[g][b]
    <3>. SUFFICES ASSUME NEW f \in [streams -> Outcome], NEW g \in [streams -> Outcome], NEW b \in streams,
                         \A e \in streams : lens[e] < lens[b] => f[e] = g[e]
                  PROVE  next[f][b] = next[g][b]
      OBVIOUS
    <3>1. RoutingStep(f)[b] = RoutingStep(g)[b]
      BY <1>2
    <3>2. next[f] = RoutingStep(f) /\ next[g] = RoutingStep(g)
      BY <1>4
    <3>. QED
      BY <3>1, <3>2
  <2>. QED
    BY <2>1, <2>2, <2>3 DEF LooksBelow
<1>6. Outcome # {}
  <2>1. [left |-> << >>, packets |-> << >>] \in Outcome
    BY DEF Outcome
  <2>. QED
    BY <2>1
<1>. HIDE DEF lens, next, streams
<1>7. \E f : Solution(f, next, streams, Outcome)
  BY <1>5, <1>6, RecursionSolvable, Zenon
<1>8. \E f : f = RoutingStep(f)
  BY <1>4, <1>7 DEF Solution, streams
<1>9. Routing = CHOOSE f : f = RoutingStep(f)
  BY DEF Routing, RoutingStep, TakeOne
<1>. QED
  BY <1>8, <1>9, Zenon

LEMMA SinkingIs == Sinking = SinkingStep(Sinking)
<1>. DEFINE lens == [b \in Seq(Nat) |-> Len(b)]
            next == [f \in [Seq(Nat) -> Outcome] |-> SinkingStep(f)]
            streams == Seq(Nat)
<1>1. ASSUME NEW f \in [Seq(Nat) -> Outcome], NEW b \in Seq(Nat) PROVE SinkingStep(f)[b] \in Outcome
  <2>1. CASE is_complete(b)
    <3>1. supported(b)
      BY <2>1, CutOff
    <3>2. SinkingStep(f)[b] = TakeOne(f, b)
      BY <2>1, <3>1 DEF SinkingStep
    <3>. QED
      BY <2>1, <3>2, TakeOneTyped
  <2>2. CASE ~is_complete(b) /\ b # << >> /\ ~supported(b)
    <3>1. SinkingStep(f)[b] = [left |-> cleared_and_compacted, packets |-> << >>]
      BY <2>2 DEF SinkingStep
    <3>2. cleared_and_compacted \in Seq(Nat)
      BY SinkAssumption DEF cleared_and_compacted
    <3>. QED
      BY <3>1, <3>2 DEF Outcome
  <2>3. CASE ~is_complete(b) /\ ~(b # << >> /\ ~supported(b))
    <3>1. SinkingStep(f)[b] = [left |-> b, packets |-> << >>]
      BY <2>3 DEF SinkingStep
    <3>. QED
      BY <3>1 DEF Outcome
  <2>. QED
    BY <2>1, <2>2, <2>3
<1>2. ASSUME NEW f \in [Seq(Nat) -> Outcome], NEW g \in [Seq(Nat) -> Outcome], NEW b \in Seq(Nat),
             \A e \in Seq(Nat) : lens[e] < lens[b] => f[e] = g[e]
      PROVE  SinkingStep(f)[b] = SinkingStep(g)[b]
  <2>0. \A e \in Seq(Nat) : Len(e) < Len(b) => f[e] = g[e]
    BY <1>2
  <2>1. is_complete(b) => supported(b) /\ TakeOne(f, b) = TakeOne(g, b)
    BY <2>0, CutOff DEF TakeOne
  <2>. QED
    BY <2>1 DEF SinkingStep
<1>3. \A f : DOMAIN SinkingStep(f) = Seq(Nat) /\ SinkingStep(f) = [b \in Seq(Nat) |-> SinkingStep(f)[b]]
  BY DEF SinkingStep
<1>4. \A f \in [Seq(Nat) -> Outcome] : SinkingStep(f) \in [Seq(Nat) -> Outcome] /\ next[f] = SinkingStep(f)
  BY <1>1, <1>3
<1>5. LooksBelow(next, streams, Outcome, lens)
  <2>1. lens \in [streams -> Nat]
    OBVIOUS
  <2>2. next \in [[streams -> Outcome] -> [streams -> Outcome]]
    BY <1>4
  <2>. HIDE DEF lens, next
  <2>3. \A f, g \in [streams -> Outcome] : \A b \in streams :
          (\A e \in streams : lens[e] < lens[b] => f[e] = g[e]) => next[f][b] = next[g][b]
    <3>. SUFFICES ASSUME NEW f \in [streams -> Outcome], NEW g \in [streams -> Outcome], NEW b \in streams,
                         \A e \in streams : lens[e] < lens[b] => f[e] = g[e]
                  PROVE  next[f][b] = next[g][b]
      OBVIOUS
    <3>1. SinkingStep(f)[b] = SinkingStep(g)[b]
      BY <1>2
    <3>2. next[f] = SinkingStep(f) /\ next[g] = SinkingStep(g)
      BY <1>4
    <3>. QED
      BY <3>1, <3>2
  <2>. QED
    BY <2>1, <2>2, <2>3 DEF LooksBelow
<1>6. Outcome # {}
  <2>1. [left |-> << >>, packets |-> << >>] \in Outcome
    BY DEF Outcome
  <2>. QED
    BY <2>1
<1>. HIDE DEF lens, next, streams
<1>7. \E f : Solution(f, next, streams, Outcome)
  BY <1>5, <1>6, RecursionSolvable, Zenon
<1>8. \E f : f = SinkingStep(f)
  BY <1>4, <1>7 DEF Solution, streams
<1>9. Sinking = CHOOSE f : f = SinkingStep(f)
  BY DEF Sinking, SinkingStep, TakeOne
<1>. QED
  BY <1>8, <1>9, Zenon

LEMMA Cutters == IsCutter(Routing) /\ IsCutter(Sinking)
<1>1. ASSUME NEW b \in Seq(Nat)
      PROVE  /\ Routing[b] = CASE is_complete(b) -> TakeOne(Routing, b)
                               [] b # << >> /\ ~supported(b) -> Routing[rest(b, 1)]
                               [] OTHER -> [left |-> b, packets |-> << >>]
             /\ Sinking[b] = CASE is_complete(b) -> TakeOne(Sinking, b)
                               [] b # << >> /\ ~supported(b) -> [left |-> cleared_and_compacted, packets |-> << >>]
                               [] OTHER -> [left |-> b, packets |-> << >>]
  <2>1. Routing[b] = RoutingStep(Routing)[b] /\ Sinking[b] = SinkingStep(Sinking)[b]
    BY RoutingIs, SinkingIs, Zenon
  <2>. QED
    BY <2>1 DEF RoutingStep, SinkingStep
<1>2. ASSUME NEW b \in Seq(Nat), is_complete(b)
      PROVE  Routing[b] = TakeOne(Routing, b) /\ Sinking[b] = TakeOne(Sinking, b)
  <2>1. supported(b)
    BY <1>2, CutOff
  <2>. QED
    BY <1>1, <1>2, <2>1
<1>3. ASSUME NEW b \in Seq(Nat), ~is_complete(b), b = << >> \/ supported(b)
      PROVE  Routing[b] = [left |-> b, packets |-> << >>] /\ Sinking[b] = [left |-> b, packets |-> << >>]
  BY <1>1, <1>3
<1>. QED
  BY <1>2, <1>3 DEF IsCutter

\* The packets of ps, cut out of a stream of which b has arrived and r is to come.
CutOut(o, r, ps, pre, post) ==
  /\ pre \in Seq(Packets) /\ post \in Seq(Packets) /\ ps = pre \o post
  /\ o.packets = pre /\ o.left \in Seq(Nat)
  /\ o.left \o r = FlattenSeq(post)
  /\ post # << >> => Len(o.left) < Len(post[1])

LEMMA PacketsAreBytes == Seq(Packets) \subseteq Seq(Seq(Nat))
<1>1. Packets \subseteq Seq(Nat)
  BY PacketIs
<1>. QED
  BY <1>1, SeqMonotonic

Cuttable(g, n) ==
  \A ps \in Seq(Packets) : \A b, r \in Seq(Nat) :
     Len(ps) = n /\ b \o r = FlattenSeq(ps) => \E pre, post : CutOut(g[b], r, ps, pre, post)

\* However much of the stream has arrived, the loops take the packets that are whole, and
\* no other bytes.
LEMMA CutterCuts ==
  ASSUME NEW g, IsCutter(g)
  PROVE  \A ps \in Seq(Packets) : \A b, r \in Seq(Nat) :
            b \o r = FlattenSeq(ps) => \E pre, post : CutOut(g[b], r, ps, pre, post)
<1>. DEFINE cuttable == {n \in Nat : Cuttable(g, n)}
<1>1. ASSUME NEW ps \in Seq(Packets), NEW b \in Seq(Nat), NEW r \in Seq(Nat),
             ~is_complete(b), b = << >> \/ supported(b), b \o r = FlattenSeq(ps),
             ps # << >> => Len(b) < Len(ps[1])
      PROVE  \E pre, post : CutOut(g[b], r, ps, pre, post)
  <2>1. g[b] = [left |-> b, packets |-> << >>]
    BY <1>1 DEF IsCutter
  <2>2. g[b].left = b /\ g[b].packets = << >>
    BY <2>1
  <2>3. << >> \o ps = ps /\ << >> \in Seq(Packets)
    OBVIOUS
  <2>4. CutOut(g[b], r, ps, << >>, ps)
    BY <1>1, <2>2, <2>3 DEF CutOut
  <2>. QED
    BY <2>4
<1>2. 0 \in cuttable
  <2>. SUFFICES ASSUME NEW ps \in Seq(Packets), NEW b \in Seq(Nat), NEW r \in Seq(Nat),
                       Len(ps) = 0, b \o r = FlattenSeq(ps)
                PROVE  \E pre, post : CutOut(g[b], r, ps, pre, post)
    BY DEF Cuttable
  <2>1. ps = << >> /\ FlattenSeq(ps) = << >>
    BY FlattenConcat
  <2>2. b = << >>
    BY <2>1
  <2>3. ~is_complete(b)
    BY <2>2 DEF is_complete, announced, V6Header
  <2>. QED
    BY <1>1, <2>1, <2>2, <2>3
<1>3. ASSUME NEW n \in Nat, n \in cuttable PROVE n + 1 \in cuttable
  <2>. SUFFICES ASSUME NEW ps \in Seq(Packets), NEW b \in Seq(Nat), NEW r \in Seq(Nat),
                       Len(ps) = n + 1, b \o r = FlattenSeq(ps)
                PROVE  \E pre, post : CutOut(g[b], r, ps, pre, post)
    <3>1. n + 1 \in Nat
      OBVIOUS
    <3>. QED
      BY <3>1 DEF Cuttable
  <2>. DEFINE p == ps[1]
              qs == Tail(ps)
  <2>1. p \in Packets /\ qs \in Seq(Packets) /\ Len(qs) = n /\ ps = <<p>> \o qs
    <3>1. p \in Packets /\ qs \in Seq(Packets) /\ Len(qs) = n
      OBVIOUS
    <3>2. \A i \in 1 .. n : qs[i] = ps[i + 1]
      OBVIOUS
    <3>. HIDE DEF qs
    <3>3. <<p>> \in Seq(Packets) /\ Len(<<p>>) = 1 /\ <<p>>[1] = p
      BY <3>1
    <3>. DEFINE h == <<p>>
    <3>. HIDE DEF h
    <3>4. /\ h \o qs \in Seq(Packets) /\ Len(h \o qs) = Len(h) + Len(qs)
          /\ \A i \in 1 .. Len(h) + Len(qs) : (h \o qs)[i] = IF i <= Len(h) THEN h[i] ELSE qs[i - Len(h)]
      BY <3>1, <3>3, ConcatProperties DEF h
    <3>5. ASSUME NEW i \in 1 .. Len(ps) PROVE (h \o qs)[i] = ps[i]
      <4>1. i \in 1 .. Len(h) + Len(qs) /\ Len(h) = 1
        BY <3>1, <3>3 DEF h
      <4>2. CASE i <= 1
        <5>1. i = 1
          BY <4>2
        <5>. QED
          BY <3>3, <3>4, <4>1, <5>1 DEF h, p
      <4>3. CASE ~(i <= 1)
        <5>1. i - 1 \in 1 .. n /\ (i - 1) + 1 = i
          BY <4>3
        <5>2. (h \o qs)[i] = qs[i - 1]
          BY <3>4, <4>1, <4>3
        <5>. QED
          BY <3>2, <5>1, <5>2
      <4>. QED
        BY <4>2, <4>3
    <3>6. Len(h \o qs) = Len(ps)
      BY <3>1, <3>3, <3>4 DEF h
    <3>7. h \o qs = ps
      BY <3>4, <3>5, <3>6, SeqEqual
    <3>. QED
      BY <3>1, <3>7 DEF h
  <2>. HIDE DEF p, qs
  <2>2. p \in Seq(Nat) /\ Len(p) \in Nat /\ qs \in Seq(Seq(Nat))
    BY <2>1, PacketIs, PacketsAreBytes
  <2>3. FlattenSeq(ps) = p \o FlattenSeq(qs) /\ FlattenSeq(qs) \in Seq(Nat)
    BY <2>1, <2>2, FlattenHead
  <2>4. CASE Len(b) < Len(p)
    <3>1. ~is_complete(b) /\ (b = << >> \/ supported(b))
      BY <2>1, <2>3, <2>4, Beginning
    <3>. QED
      BY <1>1, <2>4, <3>1 DEF p
  <2>5. CASE Len(b) >= Len(p)
    <3>1. /\ is_complete(b) /\ announced(b) = Len(p) /\ front(b, Len(p)) = p
          /\ rest(b, Len(p)) \in Seq(Nat) /\ rest(b, Len(p)) \o r = FlattenSeq(qs)
      BY <2>1, <2>3, <2>5, Beginning
    <3>. DEFINE c == rest(b, Len(p))
    <3>2. PICK pre, post : CutOut(g[c], r, qs, pre, post)
      BY <1>3, <2>1, <3>1 DEF Cuttable
    <3>3. g[b] = [left |-> g[c].left, packets |-> <<p>> \o g[c].packets]
      <4>1. g[b] = TakeOne(g, b)
        BY <3>1 DEF IsCutter
      <4>. QED
        BY <3>1, <4>1 DEF TakeOne
    <3>. HIDE DEF c
    <3>4. g[b].left = g[c].left /\ g[b].packets = <<p>> \o g[c].packets
      BY <3>3, SMTT(30)
    <3>5. pre \in Seq(Packets) /\ post \in Seq(Packets) /\ qs = pre \o post /\ g[c].packets = pre
      BY <3>2 DEF CutOut
    <3>6. <<p>> \o pre \in Seq(Packets) /\ <<p>> \in Seq(Packets)
      BY <2>1, <3>5
    <3>7. ps = (<<p>> \o pre) \o post
      <4>1. Regrouped(<<p>>, pre, post)
        BY <3>5, <3>6, Associative
      <4>. QED
        BY <2>1, <3>5, <4>1 DEF Regrouped
    <3>8. CutOut(g[b], r, ps, <<p>> \o pre, post)
      BY <3>2, <3>4, <3>5, <3>6, <3>7 DEF CutOut
    <3>. QED
      BY <3>8
  <2>6. Len(b) \in Nat
    OBVIOUS
  <2>. QED
    BY <2>2, <2>4, <2>5, <2>6
<1>. HIDE DEF cuttable
<1>4. Nat \subseteq cuttable
  BY <1>2, <1>3, Successors
<1>5. \A ps \in Seq(Packets) : Len(ps) \in cuttable
  BY <1>4
<1>. QED
  BY <1>5 DEF cuttable, Cuttable

-----------------------------------------------------------------------------
(* Tunnel *)

\* Of the packets sent, those of done are through and those of todo are a stream, of which
\* "waiting" has arrived: less than a packet.
Framed(sent_, done, todo, waiting, stream) ==
  /\ done \in Seq(Packets) /\ todo \in Seq(Packets) /\ sent_ = done \o todo
  /\ waiting \in Seq(Nat) /\ stream \in Seq(Nat)
  /\ waiting \o stream = FlattenSeq(todo)
  /\ todo # << >> => Len(waiting) < Len(todo[1])

AmongThem(received, sent_) ==
  /\ received \in Seq(Packets)
  /\ \A i \in 1 .. Len(received) : Contains(sent_, received[i])

\* One direction of the tunnel.
InFrame(received, waiting, stream) ==
  \E done, todo :
    /\ Framed(emitted, done, todo, waiting, stream)
    /\ cut = "never" => received = done
    /\ AmongThem(received, emitted)

\* The inductive invariant.
TunnelInv ==
  /\ OutInv
  /\ emitted \in Seq(Packets) /\ wire \in Seq(Nat)
  /\ direction = "up" /\ ~overrun => InFrame(routed, inBuffer, wire)
  /\ direction = "down" /\ cut # "torn" => InFrame(delivered, sinkBuffer, wire \o owed)

\* One more packet is sent.
LEMMA FrameGrows ==
  ASSUME NEW e, NEW d, NEW t, NEW w, NEW s, Framed(e, d, t, w, s), NEW p \in Packets
  PROVE  Framed(Append(e, p), d, Append(t, p), w, s \o p)
<1>1. /\ d \in Seq(Packets) /\ t \in Seq(Packets) /\ e = d \o t
      /\ w \in Seq(Nat) /\ s \in Seq(Nat) /\ w \o s = FlattenSeq(t)
      /\ t # << >> => Len(w) < Len(t[1])
  BY DEF Framed
<1>2. p \in Seq(Nat) /\ Len(p) \in Nat /\ Len(p) >= 2 /\ t \in Seq(Seq(Nat))
  BY <1>1, PacketIs, PacketsAreBytes
<1>3. Append(t, p) \in Seq(Packets) /\ Append(e, p) = d \o Append(t, p)
  <2>. DEFINE l == <<p>>
  <2>1. l \in Seq(Packets) /\ e \in Seq(Packets) /\ Append(t, p) \in Seq(Packets)
    BY <1>1
  <2>2. Append(t, p) = t \o l /\ Append(e, p) = e \o l
    BY <1>1, <2>1, AppendIsConcat
  <2>. HIDE DEF l
  <2>3. Regrouped(d, t, l)
    BY <1>1, <2>1, Associative
  <2>. QED
    BY <1>1, <2>1, <2>2, <2>3 DEF Regrouped
<1>4. FlattenSeq(Append(t, p)) = FlattenSeq(t) \o p
  BY <1>2, FlattenAppend
<1>5. s \o p \in Seq(Nat) /\ w \o (s \o p) = FlattenSeq(Append(t, p))
  <2>1. Regrouped(w, s, p)
    BY <1>1, <1>2, Associative
  <2>2. s \o p \in Seq(Nat)
    BY <1>1, <1>2
  <2>. QED
    BY <1>1, <1>4, <2>1, <2>2 DEF Regrouped
<1>6. Len(w) < Len(Append(t, p)[1])
  <2>1. CASE t = << >>
    <3>1. Append(t, p)[1] = p /\ FlattenSeq(t) = << >>
      BY <2>1, FlattenConcat
    <3>2. w = << >>
      BY <1>1, <3>1
    <3>. QED
      BY <1>2, <3>1, <3>2
  <2>2. CASE t # << >>
    <3>1. Append(t, p)[1] = t[1]
      BY <1>1, <2>2
    <3>. QED
      BY <1>1, <2>2, <3>1
  <2>. QED
    BY <2>1, <2>2
<1>. QED
  BY <1>1, <1>3, <1>5, <1>6 DEF Framed

LEMMA AmongMore ==
  ASSUME NEW x, NEW e \in Seq(Packets), NEW p \in Packets, AmongThem(x, e)
  PROVE  AmongThem(x, Append(e, p))
<1>1. ASSUME NEW i \in 1 .. Len(x) PROVE Contains(Append(e, p), x[i])
  <2>1. PICK k \in 1 .. Len(e) : e[k] = x[i]
    BY DEF AmongThem, Contains
  <2>2. k \in 1 .. Len(Append(e, p)) /\ Append(e, p)[k] = e[k]
    OBVIOUS
  <2>. QED
    BY <2>1, <2>2 DEF Contains
<1>. QED
  BY <1>1 DEF AmongThem

\* The loop has taken some of the packets that were not through.
Advanced(o, e, d, s) ==
  \E pre, post : /\ o.packets = pre /\ pre \in Seq(Packets)
                 /\ Framed(e, d \o pre, post, o.left, s)
                 /\ AmongThem(pre, e)

Joined(s, a, b) == s = a \o b

\* Bytes arrive, and the receiver's loop takes what is whole.
LEMMA FrameCuts ==
  ASSUME NEW e, NEW d, NEW t, NEW w, NEW s, Framed(e, d, t, w, s), NEW g, IsCutter(g),
         NEW c \in Seq(Nat), NEW s2 \in Seq(Nat), Joined(s, c, s2), NEW b, Joined(b, w, c)
  PROVE  Advanced(g[b], e, d, s2)
<1>1. /\ d \in Seq(Packets) /\ t \in Seq(Packets) /\ e = d \o t
      /\ w \in Seq(Nat) /\ s \in Seq(Nat) /\ w \o s = FlattenSeq(t)
  BY DEF Framed
<1>2. b \in Seq(Nat)
  BY <1>1 DEF Joined
<1>3. b \o s2 = FlattenSeq(t)
  <2>1. Regrouped(w, c, s2)
    BY <1>1, Associative
  <2>. QED
    BY <1>1, <2>1 DEF Regrouped, Joined
<1>4. PICK pre, post : CutOut(g[b], s2, t, pre, post)
  BY <1>1, <1>2, <1>3, CutterCuts
<1>5. /\ pre \in Seq(Packets) /\ post \in Seq(Packets) /\ t = pre \o post
      /\ g[b].packets = pre /\ g[b].left \in Seq(Nat)
      /\ g[b].left \o s2 = FlattenSeq(post)
      /\ post # << >> => Len(g[b].left) < Len(post[1])
  BY <1>4 DEF CutOut
<1>6. d \o pre \in Seq(Packets) /\ e = (d \o pre) \o post
  <2>1. Regrouped(d, pre, post)
    BY <1>1, <1>5, Associative
  <2>2. d \o pre \in Seq(Packets)
    BY <1>1, <1>5
  <2>. QED
    BY <1>1, <1>5, <2>1, <2>2 DEF Regrouped
<1>7. Framed(e, d \o pre, post, g[b].left, s2)
  BY <1>5, <1>6 DEF Framed
<1>8. AmongThem(pre, e)
  <2>. DEFINE x == d \o pre
  <2>1. Len(d) \in Nat /\ Len(pre) \in Nat /\ Len(post) \in Nat
    BY <1>1, <1>5
  <2>2. /\ x \in Seq(Packets) /\ Len(x) = Len(d) + Len(pre)
        /\ \A i \in 1 .. Len(d) + Len(pre) : x[i] = IF i <= Len(d) THEN d[i] ELSE pre[i - Len(d)]
    BY <1>1, <1>5, ConcatProperties
  <2>3. e = x \o post
    BY <1>6
  <2>. HIDE DEF x
  <2>4. /\ Len(e) = Len(x) + Len(post)
        /\ \A i \in 1 .. Len(x) + Len(post) : e[i] = IF i <= Len(x) THEN x[i] ELSE post[i - Len(x)]
    <3>0. x \in Seq(Packets) /\ post \in Seq(Packets)
      BY <1>5, <2>2
    <3>1. /\ Len(x \o post) = Len(x) + Len(post)
          /\ \A i \in 1 .. Len(x) + Len(post) : (x \o post)[i] = IF i <= Len(x) THEN x[i] ELSE post[i - Len(x)]
      BY <3>0, ConcatProperties
    <3>. QED
      BY <2>3, <3>1
  <2>5. ASSUME NEW i \in 1 .. Len(pre) PROVE Contains(e, pre[i])
    <3>. DEFINE k == Len(d) + i
    <3>1. /\ k \in 1 .. Len(d) + Len(pre) /\ ~(k <= Len(d)) /\ k - Len(d) = i
          /\ k \in 1 .. Len(x) + Len(post) /\ k <= Len(x)
      BY <2>1, <2>2
    <3>. HIDE DEF k
    <3>2. x[k] = pre[i]
      BY <2>2, <3>1, Zenon
    <3>3. e[k] = x[k]
      BY <2>4, <3>1, Zenon
    <3>4. k \in 1 .. Len(e)
      BY <2>4, <3>1
    <3>. QED
      BY <3>2, <3>3, <3>4 DEF Contains
  <2>. QED
    BY <1>5, <2>5 DEF AmongThem
<1>. QED
  BY <1>5, <1>7, <1>8 DEF Advanced

LEMMA AmongBoth ==
  ASSUME NEW x, NEW y, NEW e, AmongThem(x, e), AmongThem(y, e)
  PROVE  AmongThem(x \o y, e)
<1>1. x \in Seq(Packets) /\ y \in Seq(Packets)
  BY DEF AmongThem
<1>2. /\ x \o y \in Seq(Packets) /\ Len(x \o y) = Len(x) + Len(y)
      /\ \A i \in 1 .. Len(x) + Len(y) : (x \o y)[i] = IF i <= Len(x) THEN x[i] ELSE y[i - Len(x)]
  BY <1>1, ConcatProperties
<1>. DEFINE z == x \o y
<1>. HIDE DEF z
<1>3. ASSUME NEW i \in 1 .. Len(z) PROVE Contains(e, z[i])
  <2>1. Len(x) \in Nat /\ Len(y) \in Nat /\ i \in 1 .. Len(x) + Len(y)
    BY <1>1, <1>2 DEF z
  <2>2. z[i] = IF i <= Len(x) THEN x[i] ELSE y[i - Len(x)]
    BY <1>2, <2>1 DEF z
  <2>3. CASE i <= Len(x)
    <3>1. i \in 1 .. Len(x) /\ z[i] = x[i]
      BY <2>1, <2>2, <2>3
    <3>. QED
      BY <3>1 DEF AmongThem
  <2>4. CASE ~(i <= Len(x))
    <3>1. i - Len(x) \in 1 .. Len(y) /\ z[i] = y[i - Len(x)]
      BY <2>1, <2>2, <2>4
    <3>. QED
      BY <3>1 DEF AmongThem
  <2>. QED
    BY <2>3, <2>4
<1>. QED
  BY <1>2, <1>3 DEF AmongThem, z

LEMMA OutStarts == OutInit => OutInv
BY OutInductive

LEMMA OutStartsNext == OutInit' => OutInv'
BY OutStarts, PTL

\* What a Client starts with.
LEMMA NewClient ==
  ASSUME new_client
  PROVE  OutInv'
<1>1. OutInit'
  BY DEF OutInit, Init, new_client
<1>. QED
  BY <1>1, OutStartsNext

LEMMA OutUnchanged ==
  ASSUME OutInv, UNCHANGED outVars
  PROVE  OutInv'
BY OutInductive

\* Nothing is under way and everything sent is through, or lost with the tunnel.
LEMMA AllThrough ==
  ASSUME NEW e \in Seq(Packets)
  PROVE  Framed(e, e, << >>, << >>, << >>)
<1>1. << >> \in Seq(Packets) /\ << >> \in Seq(Nat) /\ e \o << >> = e /\ << >> \o << >> = << >>
  OBVIOUS
<1>2. FlattenSeq(<< >>) = << >>
  BY FlattenConcat
<1>. QED
  BY <1>1, <1>2 DEF Framed

LEMMA OwedTyped ==
  ASSUME OutInv
  PROVE  owed \in Seq(Nat) /\ Byte \subseteq Nat
<1>1. owed \in Seq(Byte) /\ Byte \subseteq Nat
  BY TunnelAssumption DEF OutInv
<1>. QED
  BY <1>1, SeqMonotonic, Zenon

\* What waits is less than a packet.
LEMMA FrameShort ==
  ASSUME NEW e, NEW d, NEW t, NEW w, NEW s, Framed(e, d, t, w, s)
  PROVE  Len(w) \in Nat /\ Len(w) < MaxChunk
<1>1. /\ t \in Seq(Packets) /\ w \in Seq(Nat) /\ s \in Seq(Nat) /\ w \o s = FlattenSeq(t)
      /\ t # << >> => Len(w) < Len(t[1])
  BY DEF Framed
<1>2. Len(w) \in Nat
  BY <1>1
<1>3. CASE t = << >>
  <2>1. w \o s = << >>
    BY <1>1, <1>3, FlattenConcat
  <2>2. Len(w) = 0
    BY <1>1, <2>1
  <2>. QED
    BY <2>2, SinkAssumption
<1>4. CASE t # << >>
  <2>1. t[1] \in Packets
    BY <1>1, <1>4
  <2>2. Len(t[1]) <= MaxChunk /\ Len(t[1]) \in Nat
    BY <2>1, PacketIs
  <2>. QED
    BY <1>1, <1>2, <1>4, <2>2, SinkAssumption
<1>. QED
  BY <1>3, <1>4

LEMMA TunnelStarts ==
  ASSUME TunnelInit
  PROVE  TunnelInv
<1>1. OutInv
  BY OutInductive DEF TunnelInit
<1>2. emitted = << >> /\ wire = << >> /\ sinkBuffer = << >> /\ inBuffer = << >> /\ owed = << >>
      /\ routed = << >> /\ delivered = << >>
  BY DEF TunnelInit, OutInit, SinkInit, InInit
<1>3. Framed(emitted, emitted, << >>, << >>, << >>)
  <2>1. emitted \in Seq(Packets)
    BY <1>2
  <2>. QED
    BY <2>1, AllThrough
<1>4. AmongThem(<< >>, << >>)
  BY DEF AmongThem
<1>5. << >> \o << >> = << >> /\ << >> \in Seq(Packets) /\ << >> \in Seq(Nat)
  OBVIOUS
<1>6. InFrame(<< >>, << >>, << >>)
  BY <1>2, <1>3, <1>4 DEF InFrame
<1>. QED
  BY <1>1, <1>2, <1>5, <1>6 DEF TunnelInv

\* A packet for the device.
LEMMA EmitStep ==
  ASSUME TunnelInv, NEW p \in Packets, Emit(p)
  PROVE  TunnelInv'
<1>1. /\ direction = "down" /\ direction' = "down" /\ wire' = wire /\ cut' = cut
      /\ sinkBuffer' = sinkBuffer /\ delivered' = delivered /\ wire \in Seq(Nat) /\ emitted \in Seq(Packets)
  BY DEF Emit, TunnelInv
<1>2. CASE send_to_client(p) /\ emitted' = Append(emitted, p)
  <2>1. OutInv'
    BY <1>2, SendStep DEF TunnelInv
  <2>2. owed' = owed \o p /\ owed \in Seq(Nat) /\ p \in Seq(Nat)
    BY <1>2, OwedTyped, PacketIs DEF send_to_client, TunnelInv
  <2>3. emitted' \in Seq(Packets)
    BY <1>1, <1>2
  <2>4. ASSUME cut # "torn" PROVE InFrame(delivered, sinkBuffer, wire \o owed)'
    <3>1. InFrame(delivered, sinkBuffer, wire \o owed)
      BY <1>1, <2>4 DEF TunnelInv
    <3>2. PICK done, todo : /\ Framed(emitted, done, todo, sinkBuffer, wire \o owed)
                            /\ cut = "never" => delivered = done
                            /\ AmongThem(delivered, emitted)
      BY <3>1 DEF InFrame
    <3>3. wire \o owed' = (wire \o owed) \o p
      <4>1. Regrouped(wire, owed, p)
        BY <1>1, <2>2, Associative
      <4>. QED
        BY <2>2, <4>1 DEF Regrouped
    <3>4. Framed(emitted', done, Append(todo, p), sinkBuffer', wire' \o owed')
      BY <1>1, <1>2, <3>2, <3>3, FrameGrows
    <3>5. AmongThem(delivered', emitted')
      BY <1>1, <1>2, <3>2, AmongMore
    <3>. QED
      BY <1>1, <3>2, <3>4, <3>5 DEF InFrame
  <2>. QED
    BY <1>1, <2>1, <2>3, <2>4 DEF TunnelInv
<1>3. CASE send_to_client_fails(p) /\ UNCHANGED emitted
  <2>1. UNCHANGED outVars
    BY <1>3 DEF send_to_client_fails
  <2>2. OutInv' /\ owed' = owed
    BY <2>1, OutUnchanged DEF TunnelInv, outVars
  <2>. QED
    BY <1>1, <1>3, <2>2 DEF TunnelInv, InFrame
<1>. QED
  BY <1>2, <1>3 DEF Emit

\* Bytes go from the client to the socket.
LEMMA TransmitStep ==
  ASSUME TunnelInv, NEW n \in Nat, Transmit(n)
  PROVE  TunnelInv'
<1>1. /\ direction = "down" /\ direction' = "down" /\ cut' = cut /\ emitted' = emitted
      /\ sinkBuffer' = sinkBuffer /\ delivered' = delivered /\ wire \in Seq(Nat) /\ emitted \in Seq(Packets)
      /\ Flush(n) /\ wire' = wire \o front(pending \o outgoing, n)
  BY DEF Transmit, TunnelInv
<1>2. OutInv /\ OutInv'
  BY <1>1, FlushStep DEF TunnelInv
<1>3. pending \o outgoing = owed
  <2>1. outgoing = content
    BY <1>1, <1>2, DrainStep DEF Flush
  <2>. QED
    BY <1>2, <2>1 DEF OutInv, OutgoingIntact
<1>4. n <= Len(owed) /\ owed' = SubSeq(owed, n + 1, Len(owed)) /\ owed \in Seq(Nat)
  BY <1>1, <1>2, <1>3, OwedTyped DEF Flush
<1>. DEFINE a == SubSeq(owed, 1, n)
            b == SubSeq(owed, n + 1, Len(owed))
<1>5. a \in Seq(Nat) /\ b \in Seq(Nat) /\ a \o b = owed
  <2>1. n \in 0 .. Len(owed)
    BY <1>4
  <2>2. SplitsAt(owed, n, Nat)
    BY <1>4, <2>1, SplitAt
  <2>. QED
    BY <2>2, Zenon DEF SplitsAt
<1>6. wire' = wire \o a /\ owed' = b
  BY <1>1, <1>3, <1>4 DEF front
<1>7. wire' \o owed' = wire \o owed
  <2>. HIDE DEF a, b
  <2>1. Regrouped(wire, a, b)
    BY <1>1, <1>5, Associative
  <2>. QED
    BY <1>5, <1>6, <2>1 DEF Regrouped
<1>8. wire' \in Seq(Nat)
  <2>. HIDE DEF a, b
  <2>. QED
    BY <1>1, <1>5, <1>6
<1>. QED
  BY <1>1, <1>2, <1>7, <1>8 DEF TunnelInv, InFrame

\* Bytes arrive at the device, whose buffer has room for them.
LEMMA DeliverStep ==
  ASSUME TunnelInv, NEW n \in 1 .. MaxChunk, Deliver(n)
  PROVE  TunnelInv'
<1>1. /\ direction = "down" /\ direction' = "down" /\ cut' = cut /\ emitted' = emitted /\ n <= Len(wire)
      /\ wire' = rest(wire, n) /\ wire \in Seq(Nat) /\ emitted \in Seq(Packets) /\ UNCHANGED outVars
      /\ n \in Nat /\ MaxChunk \in Nat
  BY SinkAssumption DEF Deliver, TunnelInv
<1>2. OutInv' /\ owed' = owed /\ owed \in Seq(Nat)
  BY <1>1, OutUnchanged, OwedTyped DEF TunnelInv, outVars
<1>. DEFINE c == front(wire, n)
            w == rest(wire, n)
<1>3. c \in Seq(Nat) /\ w \in Seq(Nat) /\ c \o w = wire /\ Len(c) = n
  <2>1. n \in 0 .. Len(wire)
    BY <1>1
  <2>2. SplitsAt(wire, n, Nat)
    BY <1>1, <2>1, SplitAt
  <2>3. c = SubSeq(wire, 1, n) /\ w = SubSeq(wire, n + 1, Len(wire))
    BY <1>1 DEF front, rest
  <2>. HIDE DEF c, w
  <2>. QED
    BY <2>2, <2>3, Zenon DEF SplitsAt
<1>4. write(c) \/ write_fails(c)
  BY DEF Deliver
<1>5. wire' = w
  BY <1>1
<1>. HIDE DEF c, w
<1>6. ASSUME cut # "torn" PROVE InFrame(delivered, sinkBuffer, wire \o owed)'
  <2>1. InFrame(delivered, sinkBuffer, wire \o owed)
    BY <1>1, <1>6 DEF TunnelInv
  <2>2. PICK done, todo : /\ Framed(emitted, done, todo, sinkBuffer, wire \o owed)
                          /\ cut = "never" => delivered = done
                          /\ AmongThem(delivered, emitted)
    BY <2>1 DEF InFrame
  <2>3. Len(sinkBuffer) \in Nat /\ Len(sinkBuffer) < MaxChunk
    BY <2>2, FrameShort
  <2>4. Len(c) <= SinkCapacity - Len(sinkBuffer)
    BY <1>1, <1>3, <2>3, SinkAssumption
  <2>5. ~write_fails(c)
    BY <1>1, <1>3, <2>3, <2>4, SinkAssumption DEF write_fails
  <2>. DEFINE o == Sinking[sinkBuffer \o c]
  <2>6. sinkBuffer' = o.left /\ delivered' = delivered \o o.packets
    BY <1>4, <2>5 DEF write, sink
  <2>7. w \o owed \in Seq(Nat) /\ wire \o owed = c \o (w \o owed)
    <3>1. Regrouped(c, w, owed)
      BY <1>2, <1>3, Associative
    <3>2. w \o owed \in Seq(Nat)
      BY <1>2, <1>3
    <3>. QED
      BY <1>3, <3>1, <3>2 DEF Regrouped
  <2>. DEFINE s2 == w \o owed
  <2>8. s2 \in Seq(Nat) /\ wire \o owed = c \o s2
    BY <2>7
  <2>. HIDE DEF s2, o
  <2>9. Advanced(o, emitted, done, s2)
    <3>. DEFINE s == wire \o owed
                b == sinkBuffer \o c
    <3>1. Framed(emitted, done, todo, sinkBuffer, s) /\ Joined(s, c, s2) /\ Joined(b, sinkBuffer, c)
      BY <2>2, <2>8 DEF Joined
    <3>. HIDE DEF s, b
    <3>2. Advanced(Sinking[b], emitted, done, s2)
      BY <1>3, <2>8, <3>1, Cutters, FrameCuts
    <3>. QED
      BY <3>2 DEF o, b
  <2>10. PICK pre, post : /\ o.packets = pre /\ pre \in Seq(Packets)
                          /\ Framed(emitted, done \o pre, post, o.left, s2)
                          /\ AmongThem(pre, emitted)
    BY <2>9 DEF Advanced
  <2>11. Framed(emitted', done \o pre, post, sinkBuffer', wire' \o owed')
    BY <1>1, <1>2, <1>5, <2>6, <2>10 DEF s2
  <2>12. cut' = "never" => delivered' = done \o pre
    BY <1>1, <2>2, <2>6, <2>10
  <2>13. AmongThem(delivered', emitted')
    BY <1>1, <2>2, <2>6, <2>10, AmongBoth
  <2>. QED
    BY <2>11, <2>12, <2>13 DEF InFrame
<1>. QED
  BY <1>1, <1>2, <1>3, <1>5, <1>6 DEF TunnelInv

\* A packet of the device.
LEMMA DeviceSendsStep ==
  ASSUME TunnelInv, NEW p \in Packets, DeviceSends(p)
  PROVE  TunnelInv'
<1>1. /\ direction = "up" /\ direction' = "up" /\ wire' = wire \o p /\ cut' = cut /\ overrun' = overrun
      /\ emitted' = Append(emitted, p) /\ inBuffer' = inBuffer /\ routed' = routed
      /\ wire \in Seq(Nat) /\ emitted \in Seq(Packets) /\ UNCHANGED outVars
  BY DEF DeviceSends, TunnelInv, upVars, downVars
<1>2. OutInv'
  BY <1>1, OutUnchanged DEF TunnelInv
<1>3. emitted' \in Seq(Packets) /\ wire' \in Seq(Nat)
  BY <1>1, PacketIs
<1>4. ASSUME ~overrun PROVE InFrame(routed, inBuffer, wire)'
  <2>1. PICK done, todo : /\ Framed(emitted, done, todo, inBuffer, wire)
                          /\ cut = "never" => routed = done
                          /\ AmongThem(routed, emitted)
    BY <1>1, <1>4 DEF TunnelInv, InFrame
  <2>2. Framed(emitted', done, Append(todo, p), inBuffer', wire')
    BY <1>1, <2>1, FrameGrows
  <2>3. AmongThem(routed', emitted')
    BY <1>1, <2>1, AmongMore
  <2>. QED
    BY <1>1, <2>1, <2>2, <2>3 DEF InFrame
<1>. QED
  BY <1>1, <1>2, <1>3, <1>4 DEF TunnelInv

\* The relay reads from the socket.
LEMMA ReadStep ==
  ASSUME TunnelInv, NEW n \in 1 .. MaxRead, RelayReads(n)
  PROVE  TunnelInv'
<1>1. /\ direction = "up" /\ direction' = "up" /\ cut' = cut /\ emitted' = emitted /\ n <= Len(wire)
      /\ wire' = rest(wire, n) /\ wire \in Seq(Nat) /\ emitted \in Seq(Packets) /\ UNCHANGED outVars
      /\ n \in Nat /\ MaxRead \in Nat
      /\ overrun' = (overrun \/ n > InCapacity - Len(inBuffer))
      /\ feed_device_data(front(wire, n))
  BY TunnelAssumption DEF RelayReads, TunnelInv, downVars
<1>2. OutInv'
  BY <1>1, OutUnchanged DEF TunnelInv
<1>. DEFINE c == front(wire, n)
            w == rest(wire, n)
<1>3. c \in Seq(Nat) /\ w \in Seq(Nat) /\ c \o w = wire /\ Len(c) = n
  <2>1. n \in 0 .. Len(wire)
    BY <1>1
  <2>2. SplitsAt(wire, n, Nat)
    BY <1>1, <2>1, SplitAt
  <2>3. c = SubSeq(wire, 1, n) /\ w = SubSeq(wire, n + 1, Len(wire))
    BY <1>1 DEF front, rest
  <2>. HIDE DEF c, w
  <2>. QED
    BY <2>2, <2>3, Zenon DEF SplitsAt
<1>4. feed_device_data(c) /\ wire' = w
  BY <1>1
<1>. HIDE DEF c, w
<1>5. ASSUME ~overrun' PROVE InFrame(routed, inBuffer, wire)'
  <2>1. ~overrun /\ ~(n > InCapacity - Len(inBuffer))
    BY <1>1, <1>5
  <2>2. PICK done, todo : /\ Framed(emitted, done, todo, inBuffer, wire)
                          /\ cut = "never" => routed = done
                          /\ AmongThem(routed, emitted)
    BY <1>1, <2>1 DEF TunnelInv, InFrame
  <2>3. Len(inBuffer) \in Nat
    BY <2>2, FrameShort
  <2>4. front(c, InCapacity - Len(inBuffer)) = c
    <3>1. InCapacity - Len(inBuffer) >= Len(c)
      BY <1>1, <1>3, <2>1, <2>3, InputAssumption
    <3>. DEFINE k == InCapacity - Len(inBuffer)
    <3>2. k \in Int /\ Len(c) \in Nat /\ k >= Len(c)
      BY <1>1, <1>3, <2>3, <3>1, InputAssumption
    <3>. HIDE DEF k
    <3>3. (IF k <= Len(c) THEN k ELSE Len(c)) = Len(c)
      BY <3>2
    <3>4. front(c, k) = SubSeq(c, 1, Len(c))
      BY <3>3 DEF front
    <3>5. front(c, k) = c
      BY <1>3, <3>4
    <3>. QED
      BY <3>5 DEF k
  <2>. DEFINE o == Routing[inBuffer \o c]
  <2>5. inBuffer' = o.left /\ routed' = routed \o o.packets
    BY <1>4, <2>4 DEF feed_device_data, route, read_from
  <2>. HIDE DEF o
  <2>6. Advanced(o, emitted, done, w)
    <3>. DEFINE b == inBuffer \o c
    <3>1. Joined(wire, c, w) /\ Joined(b, inBuffer, c)
      BY <1>3 DEF Joined
    <3>. HIDE DEF b
    <3>2. Advanced(Routing[b], emitted, done, w)
      BY <1>3, <2>2, <3>1, Cutters, FrameCuts
    <3>. QED
      BY <3>2 DEF o, b
  <2>7. PICK pre, post : /\ o.packets = pre /\ pre \in Seq(Packets)
                         /\ Framed(emitted, done \o pre, post, o.left, w)
                         /\ AmongThem(pre, emitted)
    BY <2>6 DEF Advanced
  <2>8. Framed(emitted', done \o pre, post, inBuffer', wire')
    BY <1>1, <1>4, <2>5, <2>7
  <2>9. cut' = "never" => routed' = done \o pre
    BY <1>1, <2>2, <2>5, <2>7
  <2>10. AmongThem(routed', emitted')
    BY <1>1, <2>2, <2>5, <2>7, AmongBoth
  <2>. QED
    BY <2>8, <2>9, <2>10 DEF InFrame
<1>. QED
  BY <1>1, <1>2, <1>3, <1>4, <1>5 DEF TunnelInv

\* The tunnel is lost, and a new Client serves the device.
LEMMA CutStep ==
  ASSUME TunnelInv, Cut
  PROVE  TunnelInv'
<1>1. /\ wire' = << >> /\ owed' = << >> /\ inBuffer' = << >> /\ emitted' = emitted /\ emitted \in Seq(Packets)
      /\ direction' = direction /\ sinkBuffer' = sinkBuffer /\ routed' = routed /\ delivered' = delivered
      /\ overrun' = overrun /\ cut' \in {"clean", "torn"}
      /\ cut' # "torn" => sinkBuffer = << >> /\ cut # "torn"
  BY DEF Cut, new_client, TunnelInv
<1>2. OutInv'
  BY NewClient DEF Cut
<1>3. << >> \in Seq(Nat) /\ << >> \o << >> = << >>
  OBVIOUS
<1>4. Framed(emitted, emitted, << >>, << >>, << >>)
  BY <1>1, AllThrough
<1>5. ASSUME direction = "up", ~overrun PROVE InFrame(routed, inBuffer, wire)'
  <2>1. AmongThem(routed, emitted)
    BY <1>5 DEF TunnelInv, InFrame
  <2>. QED
    BY <1>1, <1>4, <2>1 DEF InFrame
<1>6. ASSUME direction = "down", cut' # "torn" PROVE InFrame(delivered, sinkBuffer, wire \o owed)'
  <2>1. AmongThem(delivered, emitted)
    BY <1>1, <1>6 DEF TunnelInv, InFrame
  <2>2. sinkBuffer' = << >> /\ wire' \o owed' = << >>
    BY <1>1, <1>3, <1>6
  <2>. QED
    BY <1>1, <1>4, <2>1, <2>2 DEF InFrame
<1>. QED
  BY <1>1, <1>2, <1>3, <1>5, <1>6 DEF TunnelInv

LEMMA TunnelInductive == TunnelInv /\ [TunnelNext]_tunnelVars => TunnelInv'
<1>. SUFFICES ASSUME TunnelInv, [TunnelNext]_tunnelVars PROVE TunnelInv'
  OBVIOUS
<1>1. CASE UNCHANGED tunnelVars
  <2>1. UNCHANGED outVars
    BY <1>1 DEF tunnelVars, downVars
  <2>2. OutInv' /\ owed' = owed
    BY <2>1, OutUnchanged DEF TunnelInv, outVars
  <2>. QED
    BY <1>1, <2>2 DEF TunnelInv, InFrame, tunnelVars, downVars, upVars
<1>2. ASSUME NEW p \in Packets, Emit(p) \/ DeviceSends(p) PROVE TunnelInv'
  BY <1>2, EmitStep, DeviceSendsStep
<1>3. ASSUME NEW n \in 0 .. (MaxPending + 2 * Capacity), Transmit(n) PROVE TunnelInv'
  <2>1. n \in Nat
    BY CapacityAssumption, OutputAssumption
  <2>. QED
    BY <1>3, <2>1, TransmitStep
<1>4. ASSUME NEW n \in 1 .. MaxChunk, Deliver(n) PROVE TunnelInv'
  BY <1>4, DeliverStep
<1>5. ASSUME NEW n \in 1 .. MaxRead, RelayReads(n) PROVE TunnelInv'
  BY <1>5, ReadStep
<1>6. CASE Cut
  BY <1>6, CutStep
<1>. QED
  BY <1>1, <1>2, <1>3, <1>4, <1>5, <1>6 DEF TunnelNext

\* What a frame means for the packets received.
LEMMA FrameUpToDate ==
  ASSUME NEW done, NEW todo, NEW waiting, NEW stream, Framed(emitted, done, todo, waiting, stream)
  PROVE  /\ uptodate(done, waiting)
         /\ FlattenSeq(done) \in Seq(Nat)
         /\ FlattenSeq(done) \o (waiting \o stream) = FlattenSeq(emitted)
<1>1. /\ done \in Seq(Packets) /\ todo \in Seq(Packets) /\ emitted = done \o todo
      /\ waiting \o stream = FlattenSeq(todo) /\ (todo # << >> => Len(waiting) < Len(todo[1]))
  BY DEF Framed
<1>2. done \in Seq(Seq(Nat)) /\ todo \in Seq(Seq(Nat))
  BY <1>1, PacketsAreBytes
<1>3. FlattenSeq(emitted) = FlattenSeq(done) \o FlattenSeq(todo) /\ FlattenSeq(done) \in Seq(Nat)
  BY <1>1, <1>2, FlattenConcat, SMTT(30)
<1>4. Len(done) \in Nat /\ Len(todo) \in Nat /\ emitted \in Seq(Packets)
  BY <1>1
<1>5. /\ Len(emitted) = Len(done) + Len(todo)
      /\ \A i \in 1 .. Len(done) + Len(todo) : emitted[i] = IF i <= Len(done) THEN done[i] ELSE todo[i - Len(done)]
  <2>1. /\ Len(done \o todo) = Len(done) + Len(todo)
        /\ \A i \in 1 .. Len(done) + Len(todo) :
              (done \o todo)[i] = IF i <= Len(done) THEN done[i] ELSE todo[i - Len(done)]
    BY <1>1, ConcatProperties
  <2>. QED
    BY <1>1, <2>1
<1>6. IsPrefix(done, emitted)
  <2>1. Len(done) \in 0 .. Len(emitted) /\ Len(done) \in 0 .. Len(done)
    BY <1>4, <1>5
  <2>2. SplitsAt(emitted, Len(done), Packets) /\ SplitsAt(done, Len(done), Packets)
    BY <1>1, <1>4, <2>1, SplitAt
  <2>. DEFINE a == SubSeq(emitted, 1, Len(done))
              b == SubSeq(emitted, Len(done) + 1, Len(emitted))
  <2>3. a \in Seq(Packets) /\ Len(a) = Len(done) /\ b \in Seq(Packets) /\ a \o b = emitted
    BY <2>2, Zenon DEF SplitsAt
  <2>4. SubSeq(done, 1, Len(done)) = done
    BY <1>1
  <2>. HIDE DEF a, b
  <2>5. a = done
    BY <1>1, <2>3, Cancel
  <2>. QED
    BY <1>4, <1>5, <2>4, <2>5 DEF IsPrefix, a
<1>7. ASSUME Len(done) < Len(emitted) PROVE Len(waiting) < Len(emitted[Len(done) + 1])
  <2>1. /\ Len(done) + 1 \in 1 .. Len(done) + Len(todo) /\ ~(Len(done) + 1 <= Len(done))
        /\ (Len(done) + 1) - Len(done) = 1 /\ Len(todo) # 0
    BY <1>4, <1>5, <1>7
  <2>2. emitted[Len(done) + 1] = todo[1]
    BY <1>5, <2>1
  <2>3. todo # << >>
    BY <2>1
  <2>. QED
    BY <1>1, <2>2, <2>3
<1>. QED
  BY <1>1, <1>3, <1>6, <1>7 DEF uptodate

\* However the connections' packets share the buffer, however few bytes the socket accepts
\* and however the device's reads cut the stream, until the tunnel is cut the device
\* delivers exactly the packets that the relay accepted, in order, and holds none back.
THEOREM Downstream == TunnelSpec => []DownstreamIntact
<1>1. ASSUME TunnelInv, direction = "down", cut = "never"
      PROVE  /\ FlattenSeq(delivered) \o sinkBuffer \o wire \o pending \o content = FlattenSeq(emitted)
             /\ uptodate(delivered, sinkBuffer)
  <2>1. InFrame(delivered, sinkBuffer, wire \o owed)
    BY <1>1 DEF TunnelInv
  <2>2. PICK done, todo : Framed(emitted, done, todo, sinkBuffer, wire \o owed) /\ delivered = done
    BY <1>1, <2>1 DEF InFrame
  <2>. DEFINE f == FlattenSeq(delivered)
              s == wire \o owed
              x == sinkBuffer \o s
  <2>3. uptodate(delivered, sinkBuffer) /\ f \in Seq(Nat) /\ f \o x = FlattenSeq(emitted)
    <3>1. Framed(emitted, done, todo, sinkBuffer, s)
      BY <2>2
    <3>. HIDE DEF s
    <3>2. /\ uptodate(done, sinkBuffer) /\ FlattenSeq(done) \in Seq(Nat)
          /\ FlattenSeq(done) \o (sinkBuffer \o s) = FlattenSeq(emitted)
      BY <3>1, FrameUpToDate
    <3>. QED
      BY <2>2, <3>2
  <2>4. sinkBuffer \in Seq(Nat) /\ wire \in Seq(Nat) /\ owed \in Seq(Nat) /\ owed = pending \o content
    BY <1>1, <2>2, OwedTyped DEF Framed, TunnelInv, OutInv, OutgoingIntact
  <2>5. pending \in Seq(Nat) /\ content \in Seq(Nat)
    <3>1. pending \in Seq(Byte) /\ content \in Seq(Byte) /\ Byte \subseteq Nat
      BY <1>1, ContentType, TunnelAssumption DEF TunnelInv, OutInv
    <3>. QED
      BY <3>1, SeqMonotonic, Zenon
  <2>6. f \o (sinkBuffer \o (wire \o (pending \o content))) = FlattenSeq(emitted)
    BY <2>3, <2>4
  <2>. HIDE DEF f
  <2>7. AllRegrouped(f, sinkBuffer, wire, pending, content)
    BY <2>3, <2>4, <2>5, FiveGroups
  <2>. QED
    BY <2>3, <2>6, <2>7 DEF f, AllRegrouped
<1>2. TunnelInv => DownstreamIntact
  BY <1>1 DEF DownstreamIntact
<1>. QED
  BY <1>2, TunnelStarts, TunnelInductive, PTL DEF TunnelSpec

\* However the relay's reads cut the device's stream, the router gets exactly the packets
\* the device sent, in order, and none is held back once it is whole, as long as every read
\* fits behind the bytes that wait.
THEOREM Upstream == TunnelSpec => []UpstreamIntact
<1>1. ASSUME TunnelInv, direction = "up", cut = "never", ~overrun
      PROVE  FlattenSeq(routed) \o inBuffer \o wire = FlattenSeq(emitted) /\ uptodate(routed, inBuffer)
  <2>1. PICK done, todo : Framed(emitted, done, todo, inBuffer, wire) /\ routed = done
    BY <1>1 DEF TunnelInv, InFrame
  <2>. DEFINE f == FlattenSeq(routed)
  <2>2. uptodate(routed, inBuffer) /\ f \in Seq(Nat) /\ f \o (inBuffer \o wire) = FlattenSeq(emitted)
    BY <2>1, FrameUpToDate
  <2>3. inBuffer \in Seq(Nat) /\ wire \in Seq(Nat)
    BY <1>1, <2>1 DEF Framed, TunnelInv
  <2>. HIDE DEF f
  <2>4. Regrouped(f, inBuffer, wire)
    BY <2>2, <2>3, Associative
  <2>. QED
    BY <2>2, <2>4 DEF Regrouped, f
<1>2. TunnelInv => UpstreamIntact
  BY <1>1 DEF UpstreamIntact
<1>. QED
  BY <1>2, TunnelStarts, TunnelInductive, PTL DEF TunnelSpec

\* No packet is ever put together from the bytes of two connections: the packet buffer of
\* the relay does not outlive its Client.
THEOREM RoutedPackets == TunnelSpec => []RoutedWhole
<1>1. TunnelInv => RoutedWhole
  BY DEF TunnelInv, InFrame, AmongThem, RoutedWhole
<1>. QED
  BY <1>1, TunnelStarts, TunnelInductive, PTL DEF TunnelSpec

\* As long as no cut falls inside a packet, the device delivers nothing but packets of the
\* relay and its buffer of twice the largest packet always has room for one more.
THEOREM SoundSink == TunnelSpec => []SoundUntilTorn
<1>1. ASSUME TunnelInv, direction = "down", cut # "torn"
      PROVE  (\A i \in 1 .. Len(delivered) : Contains(emitted, delivered[i])) /\ RoomForOnePacket
  <2>1. PICK done, todo : Framed(emitted, done, todo, sinkBuffer, wire \o owed) /\ AmongThem(delivered, emitted)
    BY <1>1 DEF TunnelInv, InFrame
  <2>2. Len(sinkBuffer) \in Nat /\ Len(sinkBuffer) < MaxChunk
    BY <2>1, FrameShort
  <2>. QED
    BY <2>1, <2>2, SinkAssumption DEF AmongThem, RoomForOnePacket
<1>2. TunnelInv => SoundUntilTorn
  BY <1>1 DEF SoundUntilTorn
<1>. QED
  BY <1>2, TunnelStarts, TunnelInductive, PTL DEF TunnelSpec
=============================================================================
