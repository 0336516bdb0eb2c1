--------------------------- MODULE SerialRegistry ---------------------------
(***************************************************************************)
(* relay-rust/src/relay/serial_registry.rs: the serials that are about to  *)
(* connect, in the order they were registered.  The clock is reduced to    *)
(* what the code asks of it: whether an entry is still in MATCH_WINDOW.    *)
(***************************************************************************)
EXTENDS Naturals, Sequences, SequencesExt

CONSTANT MAX_PENDING

ASSUME RegistryAssumption == MAX_PENDING \in Nat \ {0}

VARIABLE q    \* entries [serial, fresh]

\* register_pending()
register_pending(queue, serial) ==
  LET live == SelectSeq(queue, LAMBDA e : e.fresh)
      kept == IF Len(live) >= MAX_PENDING THEN Tail(live) ELSE live
  IN  Append(kept, [serial |-> serial, fresh |-> TRUE])

\* How many entries take_pending() drops from the front.
expired(queue) ==
  LET live == {i \in DOMAIN queue : queue[i].fresh}
  IN  IF live = {} THEN Len(queue) ELSE Min(live) - 1

\* take_pending(): the serial taken, or none, and the queue after it.
take_pending(queue) ==
  LET live == SubSeq(queue, expired(queue) + 1, Len(queue))
  IN  IF live = << >> THEN [label |-> << >>, rest |-> << >>]
      ELSE [label |-> <<Head(live).serial>>, rest |-> Tail(live)]

\* Time passes: the oldest entry still in the window leaves it.
Ages ==
  \E i \in DOMAIN q :
     /\ \A j \in 1..i : q[j].fresh = (j = i)
     /\ q' = [q EXCEPT ![i].fresh = FALSE]
=============================================================================
