------------------------------ MODULE ByteFifo ------------------------------
(***************************************************************************)
(* What a byte stream buffer promises: a bounded FIFO.  Bytes are put in   *)
(* chunks, taken in chunks whose size the destination chooses, and come    *)
(* out in the order they went in, none lost, none repeated.                *)
(***************************************************************************)
EXTENDS Naturals, Sequences

CONSTANTS Byte,      \* the values a byte can take
          Capacity   \* how many bytes the buffer accepts

VARIABLES queue,     \* the bytes buffered, oldest first
          sent       \* what the last take handed to the destination

Init == queue = << >> /\ sent = << >>

Put == \E n \in 1 .. (Capacity - Len(queue)) : \E source \in [1 .. n -> Byte] :
          /\ queue' = queue \o source
          /\ UNCHANGED sent

Take == \E w \in 0 .. Len(queue) :
          /\ sent' = SubSeq(queue, 1, w)
          /\ queue' = SubSeq(queue, w + 1, Len(queue))

Next == Put \/ Take

Spec == Init /\ [][Next]_<<queue, sent>>
=============================================================================
