---------------------------- MODULE StreamBuffer ----------------------------
(***************************************************************************)
(* relay-rust/src/relay/stream_buffer.rs: the circular buffer behind every *)
(* TCP connection (device to network) and behind every client (network to  *)
(* device).  One slot of the array is never used, so that head = tail      *)
(* means empty and only empty.                                             *)
(***************************************************************************)
EXTENDS Naturals, Sequences

CONSTANTS Byte,      \* the values a byte can take
          Zero,      \* the byte the array is filled with at first
          Capacity   \* the argument of StreamBuffer::new

ASSUME CapacityAssumption == Capacity \in Nat \ {0}
ASSUME ZeroAssumption == Zero \in Byte

VARIABLES buf,    \* buf: Box<[u8]>, of Capacity + 1 slots
          head,   \* where the next byte goes
          tail,   \* where the next byte comes from
          sent    \* the slice the last write_to() handed over (observation)

vars == <<buf, head, tail, sent>>

BufLen == Capacity + 1
Slots  == 0 .. Capacity

is_empty == head = tail

\* Mutant of size: the unused slot is forgotten when the content wraps.
sizeOffByOne == IF head < tail THEN head + Capacity - tail ELSE head - tail

size == IF head < tail THEN head + BufLen - tail ELSE head - tail

remaining == Capacity - size

(***************************************************************************)
(* read_from(): copy the source at head, in two slices when it crosses the *)
(* right end.  Its debug_assert is the guard every caller establishes by   *)
(* asking remaining() first.                                               *)
(***************************************************************************)
copied(source, i) ==
  IF head <= i /\ i < head + Len(source) THEN source[i - head + 1]
  ELSE IF i < head + Len(source) - BufLen THEN source[i + BufLen - head + 1]
  ELSE buf[i]

ReadFrom(source) ==
  /\ Len(source) <= remaining
  /\ buf' = [i \in Slots |-> copied(source, i)]
  /\ head' = (head + Len(source)) % BufLen
  /\ UNCHANGED <<tail, sent>>

(***************************************************************************)
(* write_to(): one write of the bytes up to head or up to the right end,   *)
(* of which the destination accepts w; then optimize().                    *)
(***************************************************************************)
slice_len == IF head > tail THEN head - tail ELSE BufLen - tail

advance(w) == IF head > tail THEN tail + w ELSE (tail + w) % BufLen

WriteTo(w) ==
  /\ ~is_empty
  /\ w <= slice_len
  /\ sent' = [i \in 1 .. w |-> buf[tail + i - 1]]
  /\ head' = IF advance(w) = head THEN 0 ELSE head
  /\ tail' = IF advance(w) = head THEN 0 ELSE advance(w)
  /\ UNCHANGED buf

Init ==
  /\ buf = [i \in Slots |-> Zero]
  /\ head = 0
  /\ tail = 0
  /\ sent = << >>

Next ==
  \/ \E n \in 1 .. remaining : \E source \in [1 .. n -> Byte] : ReadFrom(source)
  \/ \E w \in 0 .. slice_len : WriteTo(w)

Spec == Init /\ [][Next]_vars

-----------------------------------------------------------------------------
TypeOK ==
  /\ buf \in [Slots -> Byte]
  /\ head \in Slots
  /\ tail \in Slots
  /\ sent \in Seq(Byte)

\* optimize(): an empty buffer always restarts from the left end, so that one
\* packet at a time never reaches the right end (stream_buffer.rs:103-110).
EmptyIsReset == is_empty => head = 0

\* The bytes buffered, oldest first: what the circular layout stands for.
content == [i \in 1 .. size |->
              IF tail + i - 1 < BufLen THEN buf[tail + i - 1] ELSE buf[tail + i - 1 - BufLen]]

Fifo == INSTANCE ByteFifo WITH queue <- content

\* The circular buffer implements the bounded FIFO: whatever the chunks read
\* in, and however few bytes the destination accepts at a time, write_to()
\* hands out the bytes of read_from() in order, each exactly once, also when
\* both cross the right end of the array.
ImplementsFifo == Fifo!Spec
=============================================================================
