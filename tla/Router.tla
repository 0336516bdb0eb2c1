------------------------------- MODULE Router -------------------------------
(***************************************************************************)
(* relay-rust/src/relay/router.rs, driven by the loop of                   *)
(* Client::run_blocking(): which 4-tuples have a connection, which ones    *)
(* closed recently, and when each is created, absorbed and forgotten.      *)
(*                                                                         *)
(* A connection is reduced to what the router asks of it: whether it is    *)
(* closed, and for how long a UDP connection has been idle.  Packets the   *)
(* router answers itself (ICMP echo, QUIC) or drops as invalid change none *)
(* of this state.  Ages are capped where the code stops telling them       *)
(* apart.                                                                  *)
(***************************************************************************)
EXTENDS Naturals, FiniteSets

CONSTANTS
  TcpId, UdpId,     \* ConnectionIds, by protocol
  TTL,              \* RECENTLY_CLOSED_TTL
  IdleTimeout,      \* IDLE_TIMEOUT_SECONDS
  CleanPeriod       \* seconds between two clean_expired_connections()

ASSUME RouterAssumption ==
  /\ TcpId \cap UdpId = {}
  /\ TTL \in Nat \ {0} /\ IdleTimeout \in Nat /\ CleanPeriod \in Nat

VARIABLES
  connections,      \* the connections of the router, by id
  recently_closed,  \* the age of each entry, by id
  phase,            \* step of the loop: "read", "poll", "clean"; "ended"
  sinceClean,       \* age of last_cleanup
  sinceClosed       \* history: time since each tuple last lost its connection

vars == <<connections, recently_closed, phase, sinceClean, sinceClosed>>

Id == TcpId \cup UdpId

capped(n, bound) == IF n < bound THEN n ELSE bound

without(f, S) == [id \in DOMAIN f \ S |-> f[id]]

with(f, S, v) == [id \in DOMAIN f \cup S |-> IF id \in S THEN v ELSE f[id]]

-----------------------------------------------------------------------------
\* Mutant of purged: the entries are dropped one tick early.
purgedEarly == [id \in {i \in DOMAIN recently_closed : recently_closed[i] + 1 < TTL}
                  |-> recently_closed[id]]

purged == [id \in {i \in DOMAIN recently_closed : recently_closed[i] < TTL}
             |-> recently_closed[id]]

\* Mutant of Forget: the tuples are not recorded.
ForgetSilently(S, conns, recent) ==
  /\ connections' = without(conns, S)
  /\ recently_closed' = recent
  /\ sinceClosed' = [id \in Id |-> IF id \in S THEN 0 ELSE sinceClosed[id]]

\* Mutant of Forget: the tuples are recorded, the connections stay.
RecordOnly(S, conns, recent) ==
  /\ connections' = conns
  /\ recently_closed' = with(recent, S, 0)
  /\ sinceClosed' = [id \in Id |-> IF id \in S THEN 0 ELSE sinceClosed[id]]

\* The connections in S are removed and their tuples recorded.
Forget(S, conns, recent) ==
  /\ connections' = without(conns, S)
  /\ recently_closed' = with(recent, S, 0)
  /\ sinceClosed' = [id \in Id |-> IF id \in S THEN 0 ELSE sinceClosed[id]]

(***************************************************************************)
(* send_to_network()                                                       *)
(***************************************************************************)
Absorb(id) ==
  /\ phase = "read" /\ id \in DOMAIN purged
  /\ recently_closed' = purged
  /\ UNCHANGED <<connections, phase, sinceClean, sinceClosed>>

\* The segment may close a TCP connection; a datagram closes nothing.
Deliver(id) ==
  /\ phase = "read" /\ id \notin DOMAIN purged /\ id \in DOMAIN connections
  /\ \/ /\ ~connections[id].closed
        /\ recently_closed' = purged
        /\ UNCHANGED <<connections, sinceClosed>>
     \/ /\ connections[id].closed \/ id \in TcpId
        /\ Forget({id}, connections, purged)
  /\ UNCHANGED <<phase, sinceClean>>

\* create_connection(): the packet that creates a connection is handed to it at
\* once; a TCP connection created by anything but a SYN is closed by it, and
\* inserted all the same.
Create(id, syn) ==
  /\ phase = "read" /\ id \notin DOMAIN purged /\ id \notin DOMAIN connections
  /\ recently_closed' = purged
  /\ connections' = with(connections, {id}, [closed |-> id \in TcpId /\ ~syn, idle |-> 0])
  /\ UNCHANGED <<phase, sinceClean, sinceClosed>>

CreateFails(id) ==
  /\ phase = "read" /\ id \notin DOMAIN purged /\ id \notin DOMAIN connections
  /\ recently_closed' = purged
  /\ UNCHANGED <<connections, phase, sinceClean, sinceClosed>>

Receive(id) == Absorb(id) \/ Deliver(id) \/ CreateFails(id) \/ \E syn \in BOOLEAN : Create(id, syn)

(***************************************************************************)
(* The rest of the loop                                                    *)
(***************************************************************************)
EndRead ==
  /\ phase = "read"
  /\ phase' = "poll"
  /\ UNCHANGED <<connections, recently_closed, sinceClean, sinceClosed>>

\* poll_connections(), once or twice in a row: poll_self() of a UDP connection begins with touch(); the
\* connections in dying close during their poll.
poll_connections(dying) ==
  /\ phase = "poll"
  /\ LET polled == [id \in DOMAIN connections |-> [connections[id] EXCEPT !.idle = 0]]
     IN  Forget({id \in DOMAIN connections : connections[id].closed \/ id \in dying},
                polled, recently_closed)
  /\ phase' = "clean"
  /\ UNCHANGED sinceClean

is_expired(id) == id \in UdpId /\ connections[id].idle > IdleTimeout

clean_expired_connections ==
  /\ phase = "clean" /\ sinceClean >= CleanPeriod
  /\ Forget({id \in DOMAIN connections : is_expired(id)}, connections, recently_closed)
  /\ phase' = "read" /\ sinceClean' = 0

SkipClean ==
  /\ phase = "clean" /\ sinceClean < CleanPeriod
  /\ phase' = "read"
  /\ UNCHANGED <<connections, recently_closed, sinceClean, sinceClosed>>

\* clear(), when the device closes the tunnel.
clear ==
  /\ phase = "read"
  /\ connections' = << >> /\ recently_closed' = << >>
  /\ sinceClosed' = [id \in Id |-> TTL]
  /\ phase' = "ended"
  /\ UNCHANGED sinceClean

Tick ==
  /\ phase # "ended"
  /\ connections' = [id \in DOMAIN connections |->
       [connections[id] EXCEPT !.idle = capped(@ + 1, IdleTimeout + 1)]]
  /\ recently_closed' = [id \in DOMAIN recently_closed |-> capped(recently_closed[id] + 1, TTL)]
  /\ sinceClosed' = [id \in Id |-> capped(sinceClosed[id] + 1, TTL)]
  /\ sinceClean' = capped(sinceClean + 1, CleanPeriod)
  /\ UNCHANGED phase

Init ==
  /\ connections = << >> /\ recently_closed = << >>
  /\ phase = "read" /\ sinceClean = 0
  /\ sinceClosed = [id \in Id |-> TTL]

Loop == EndRead \/ (\E dying \in SUBSET DOMAIN connections : poll_connections(dying))
          \/ clean_expired_connections \/ SkipClean

Next == (\E id \in Id : Receive(id)) \/ Loop \/ clear \/ Tick

Spec == Init /\ [][Next]_vars

-----------------------------------------------------------------------------
\* A tuple has a connection or an entry among the recently closed, never both:
\* else send_to_network() would drop the packets of a live connection.
NeverAbsorbsLive == DOMAIN connections \cap DOMAIN recently_closed = {}

\* The tuples that closed less than TTL ago are remembered, with their age,
\* whoever closed them: a segment, a poll or the cleanup.
RemembersClosed ==
  \A id \in Id : sinceClosed[id] < TTL =>
    id \in DOMAIN recently_closed /\ recently_closed[id] = sinceClosed[id]

\* A connection that is created did not close less than TTL ago: a residual RST
\* is absorbed instead of opening a new connection (router.rs:20-26).
NoEarlyReopen ==
  [][\A id \in DOMAIN connections' \ DOMAIN connections : sinceClosed[id] >= TTL]_vars
=============================================================================
