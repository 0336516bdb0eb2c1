--------------------------- MODULE DatagramBuffer ---------------------------
(***************************************************************************)
(* relay-rust/src/relay/datagram_buffer.rs: a circular buffer of           *)
(* datagrams, each stored in one block (a length, then the payload) that   *)
(* may extend beyond the circular part; as UdpConnection uses it: datagrams *)
(* of the device are stored as they arrive, and every poll sends one.      *)
(*                                                                         *)
(* The memory is a function from the position of a block to its datagram;  *)
(* a block that is overwritten, in part or not, is lost.                   *)
(***************************************************************************)
EXTENDS Naturals, Sequences

CONSTANTS
  Capacity,       \* capacity given to new()
  HeaderLength,   \* HEADER_LENGTH
  MaxLength,      \* MAX_DATAGRAM_LENGTH
  Length,         \* lengths of the datagrams
  Payload,        \* what tells two datagrams of a length apart
  MaxFeed         \* bytes that may arrive between two polls

ASSUME DatagramAssumption ==
  /\ Capacity \in Nat /\ HeaderLength \in Nat \ {0} /\ MaxFeed \in Nat
  /\ MaxLength \in Nat /\ Length \subseteq 0 .. MaxLength

VARIABLES
  blocks,   \* the datagrams in memory, by position of their block
  head, tail,
  queue,    \* history: the datagrams accepted, not handed out yet and not overlooked
  fed       \* bytes that arrived since the last poll

vars == <<blocks, head, tail, queue, fed>>

Datagram == [length : Length, payload : Payload]

circular_buffer_length == Capacity + 1

buf_len == Capacity + HeaderLength + MaxLength

block(d) == HeaderLength + d.length

is_empty == head = tail

\* Mutant of has_enough_space_for: the extra byte is forgotten.
has_just_enough_space_for(d) ==
  IF head >= tail THEN TRUE ELSE block(d) <= tail - head

has_enough_space_for(d) ==
  IF head >= tail THEN TRUE ELSE block(d) <= (tail - head) - 1

\* Mutant of wrapped: an index one past the circular part is kept.
wrappedLate(i) == IF i > circular_buffer_length THEN 0 ELSE i

wrapped(i) == IF i >= circular_buffer_length THEN 0 ELSE i

overlaps(i, d, j, e) == i < j + block(e) /\ j < i + block(d)

\* The block of d is written at head, over whatever was there.
stored(d) ==
  LET kept == {i \in DOMAIN blocks : ~overlaps(i, blocks[i], head, d)}
  IN  [i \in kept \cup {head} |-> IF i = head THEN d ELSE blocks[i]]

\* The head comes round to a tail at 0, where no extra byte is kept: what waits is
\* still in memory, but is_empty() holds and the next block is written over it.
overlooked(d) == tail = 0 /\ head + block(d) >= circular_buffer_length

\* The device's datagrams arrive at its own pace.
Arrives(d) ==
  /\ fed + block(d) <= MaxFeed
  /\ fed' = fed + block(d)

read_from(d) ==
  /\ Arrives(d)
  /\ has_enough_space_for(d)
  /\ blocks' = stored(d)
  /\ head' = wrapped(head + block(d))
  /\ queue' = IF overlooked(d) THEN << >> ELSE Append(queue, d)
  /\ UNCHANGED tail

\* "Datagram buffer is full": the datagram is dropped.
read_from_fails(d) ==
  /\ Arrives(d)
  /\ ~has_enough_space_for(d)
  /\ UNCHANGED <<blocks, head, tail, queue>>

\* Mutant of taken: the length is stepped over, its own two bytes are not.
takenShort(d) == d.length

\* What write_to() moves the tail by.
taken(d) == block(d)

\* UdpConnection::poll_self(): write_to() takes the oldest datagram out before
\* the socket accepts or refuses it.  The poll of an empty buffer does nothing.
write_to ==
  /\ ~is_empty
  /\ tail' = wrapped(tail + taken(blocks[tail]))
  /\ blocks' = [i \in DOMAIN blocks \ {tail} |-> blocks[i]]
  /\ queue' = Tail(queue)
  /\ fed' = 0
  /\ UNCHANGED head

Init ==
  /\ blocks = << >> /\ head = 0 /\ tail = 0
  /\ queue = << >> /\ fed = 0

Next ==
  \/ \E d \in Datagram : read_from(d) \/ read_from_fails(d)
  \/ write_to

Spec == Init /\ [][Next]_vars

-----------------------------------------------------------------------------
\* The buffer looks empty exactly when nothing is left in it, so that the poll neither
\* panics in write_to() nor passes over what waits.  The extra byte of
\* has_enough_space_for() achieves that wherever the head catches up with the tail but at
\* 0: overlooked(d) is the one step that makes a full buffer look empty, and what it loses
\* is off the queue from then on, so that the buffer must be right again afterwards.
EmptyMeansEmpty == is_empty <=> queue = << >>

\* The datagram that the next poll sends is the oldest one accepted: datagrams
\* leave in order, whole, each once, although a block may have been written
\* across the end of the circular part, and although others were lost before.
OldestFirst == queue # << >> => tail \in DOMAIN blocks /\ blocks[tail] = Head(queue)

\* No block reaches beyond the memory, which would panic in copy_from_slice.
BlocksInBounds == \A i \in DOMAIN blocks : i + block(blocks[i]) <= buf_len
=============================================================================
