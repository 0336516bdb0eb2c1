---------------------------- MODULE ClientOutput ----------------------------
(***************************************************************************)
(* From the connections of a client to its device: every connection writes *)
(* its packets to one shared StreamBuffer; at the end of each iteration    *)
(* run_blocking() drains the buffer to pending_outgoing and writes what    *)
(* the stream accepts of it (relay-rust/src/relay/client.rs).              *)
(***************************************************************************)
EXTENDS StreamBuffer, Framing

CONSTANT MaxPending     \* bound on the bytes in pending_outgoing

ASSUME OutputAssumption ==
  /\ MaxPending \in Nat
  /\ Packets \subseteq Seq(Byte) /\ \A p \in Packets : p # << >>

VARIABLES
  pending,   \* pending_outgoing
  owed       \* history: the bytes accepted that are not in the stream yet

outVars == <<vars, pending, owed>>

\* ClientChannel::send_to_client(), and its copies in the connections.
send_to_client(p) ==
  /\ Len(p) <= remaining
  /\ Len(pending) <= MaxPending
  /\ ReadFrom(p)
  /\ owed' = owed \o p
  /\ UNCHANGED pending

\* "Client buffer full": nothing is written.
send_to_client_fails(p) ==
  /\ Len(p) > remaining
  /\ UNCHANGED outVars

\* drain_outgoing() makes a zeroed vector of size() bytes, and one write_to()
\* fills it.
drain_outgoing ==
  IF is_empty
    THEN UNCHANGED vars
    ELSE WriteTo(slice_len)

outgoing ==
  IF is_empty THEN << >>
  ELSE [i \in 1 .. size |-> IF i <= slice_len THEN buf[(tail + i) - 1] ELSE Zero]

\* The end of an iteration; the stream accepts n bytes, possibly none.
Flush(n) ==
  LET all == pending \o outgoing
  IN  /\ n <= Len(all)
      /\ drain_outgoing
      /\ pending' = SubSeq(all, n + 1, Len(all))
      /\ owed' = SubSeq(owed, n + 1, Len(owed))

OutInit == Init /\ pending = << >> /\ owed = << >>

OutNext ==
  \/ \E p \in Packets : send_to_client(p) \/ send_to_client_fails(p)
  \/ \E n \in 0 .. (MaxPending + 2 * Capacity) : Flush(n)

OutSpec == OutInit /\ [][OutNext]_outVars

-----------------------------------------------------------------------------
\* The shared buffer never wraps around: it is drained to the end every time,
\* and an empty buffer restarts from the left.  drain_outgoing() relies on it:
\* of a buffer that wraps, one write_to() would take the first slice only.
NeverWraps == tail = 0

\* What is pending, and what is in the buffer, are the packets accepted and not
\* written yet, whole and in order, however few bytes the stream accepts: the
\* device's stream contains no other byte.
OutgoingIntact == pending \o content = owed
=============================================================================
