---------------------------- MODULE RouterProofs ----------------------------
(***************************************************************************)
(* Theorems about Router, for any number of flows and any periods.         *)
(*                                                                         *)
(* NeverAbsorbsLive and RemembersClosed are inductive together with a type *)
(* invariant; NoEarlyReopen follows from RemembersClosed: a tuple that is  *)
(* not among the purged entries closed at least TTL ago.                   *)
(***************************************************************************)
EXTENDS Router, TLAPS

Typed ==
  /\ DOMAIN connections \subseteq Id /\ DOMAIN recently_closed \subseteq Id
  /\ \A id \in DOMAIN recently_closed : recently_closed[id] \in 0 .. TTL
  /\ sinceClosed \in [Id -> 0 .. TTL]

Inv == Typed /\ NeverAbsorbsLive /\ RemembersClosed

\* What purging keeps.
LEMMA Purged ==
  ASSUME Inv
  PROVE  /\ DOMAIN purged \subseteq DOMAIN recently_closed
         /\ \A id \in DOMAIN purged : purged[id] = recently_closed[id]
         /\ \A id \in Id : sinceClosed[id] < TTL => id \in DOMAIN purged
  BY DEF Inv, RemembersClosed, purged

\* Replacing the entries by the purged ones keeps the invariant.
LEMMA PurgeKeeps ==
  ASSUME Inv, recently_closed' = purged, UNCHANGED sinceClosed,
         DOMAIN connections' \subseteq Id,
         DOMAIN connections' \cap DOMAIN purged = {}
  PROVE  Inv'
<1>1. Typed'
  BY Purged DEF Inv, Typed
<1>2. RemembersClosed'
  BY Purged DEF Inv, RemembersClosed
<1>. QED
  BY <1>1, <1>2 DEF Inv, NeverAbsorbsLive

\* Removing connections and recording them keeps the invariant, whether the
\* entries were purged first or not.
LEMMA ForgetKeeps ==
  ASSUME Inv, NEW S, NEW conns, NEW recent,
         S \subseteq DOMAIN conns, DOMAIN conns = DOMAIN connections,
         DOMAIN recent \subseteq DOMAIN recently_closed,
         \A id \in DOMAIN recent : recent[id] = recently_closed[id],
         \A id \in Id : sinceClosed[id] < TTL => id \in DOMAIN recent,
         Forget(S, conns, recent)
  PROVE  Inv' /\ DOMAIN connections' \subseteq DOMAIN connections
<1>1. DOMAIN connections' = DOMAIN connections \ S
  BY DEF Forget, without
<1>2. DOMAIN recently_closed' = DOMAIN recent \cup S
  BY DEF Forget, with
<1>3. \A id \in DOMAIN recently_closed' :
        recently_closed'[id] = IF id \in S THEN 0 ELSE recent[id]
  BY DEF Forget, with
<1>4. \A id \in Id : sinceClosed'[id] = IF id \in S THEN 0 ELSE sinceClosed[id]
  BY DEF Forget
<1>5. sinceClosed' \in [Id -> 0 .. TTL]
  BY RouterAssumption DEF Forget, Inv, Typed
<1>6. Typed'
  BY <1>1, <1>2, <1>3, <1>5, RouterAssumption DEF Inv, Typed
<1>7. NeverAbsorbsLive'
  BY <1>1, <1>2 DEF Inv, NeverAbsorbsLive
<1>8. RemembersClosed'
  BY <1>2, <1>3, <1>4 DEF Inv, RemembersClosed
<1>. QED
  BY <1>1, <1>6, <1>7, <1>8 DEF Inv

\* Time only makes the entries older, in step with the history.
LEMMA TickKeeps ==
  ASSUME Inv, Tick
  PROVE  Inv' /\ DOMAIN connections' = DOMAIN connections
<1>1. DOMAIN connections' = DOMAIN connections /\ DOMAIN recently_closed' = DOMAIN recently_closed
  BY DEF Tick
<1>2. \A id \in DOMAIN recently_closed :
        /\ recently_closed'[id] = capped(recently_closed[id] + 1, TTL)
        /\ recently_closed'[id] \in 0 .. TTL
  BY RouterAssumption DEF Tick, Inv, Typed, capped
<1>3. \A id \in Id : sinceClosed'[id] = capped(sinceClosed[id] + 1, TTL)
  BY DEF Tick
<1>4. sinceClosed' \in [Id -> 0 .. TTL]
  BY RouterAssumption DEF Tick, Inv, Typed, capped
<1>5. Typed'
  BY <1>1, <1>2, <1>4 DEF Inv, Typed
<1>6. RemembersClosed'
  <2>. SUFFICES ASSUME NEW id \in Id, sinceClosed'[id] < TTL
                PROVE  id \in DOMAIN recently_closed' /\ recently_closed'[id] = sinceClosed'[id]
    BY DEF RemembersClosed
  <2>1. sinceClosed[id] < TTL
    BY <1>3, RouterAssumption DEF Inv, Typed, capped
  <2>2. id \in DOMAIN recently_closed /\ recently_closed[id] = sinceClosed[id]
    BY <2>1 DEF Inv, RemembersClosed
  <2>. QED
    BY <1>1, <1>2, <1>3, <2>2
<1>. QED
  BY <1>1, <1>5, <1>6 DEF Inv, NeverAbsorbsLive

\* What every step keeps and allows.
LEMMA Inductive ==
  ASSUME Inv, [Next]_vars
  PROVE  /\ Inv'
         /\ \A id \in DOMAIN connections' \ DOMAIN connections : sinceClosed[id] >= TTL
<1>1. CASE UNCHANGED vars
  BY <1>1 DEF vars, Inv, Typed, NeverAbsorbsLive, RemembersClosed
<1>2. ASSUME NEW id \in Id, Absorb(id) \/ CreateFails(id)
      PROVE  Inv' /\ DOMAIN connections' = DOMAIN connections
  <2>1. recently_closed' = purged /\ UNCHANGED <<connections, sinceClosed>>
    BY <1>2 DEF Absorb, CreateFails
  <2>2. DOMAIN connections' \subseteq Id /\ DOMAIN connections' \cap DOMAIN purged = {}
    BY <2>1, Purged DEF Inv, Typed, NeverAbsorbsLive
  <2>. QED
    BY <2>1, <2>2, PurgeKeeps
<1>3. ASSUME NEW id \in Id, Deliver(id)
      PROVE  Inv' /\ DOMAIN connections' \subseteq DOMAIN connections
  <2>1. CASE recently_closed' = purged /\ UNCHANGED <<connections, sinceClosed>>
    <3>1. DOMAIN connections' \subseteq Id /\ DOMAIN connections' \cap DOMAIN purged = {}
      BY <2>1, Purged DEF Inv, Typed, NeverAbsorbsLive
    <3>. QED
      BY <2>1, <3>1, PurgeKeeps
  <2>2. CASE Forget({id}, connections, purged)
    BY <1>3, <2>2, Purged, ForgetKeeps DEF Deliver
  <2>. QED
    BY <1>3, <2>1, <2>2 DEF Deliver
<1>4. ASSUME NEW id \in Id, NEW syn \in BOOLEAN, Create(id, syn)
      PROVE  Inv' /\ DOMAIN connections' = DOMAIN connections \cup {id} /\ sinceClosed[id] >= TTL
  <2>1. DOMAIN connections' = DOMAIN connections \cup {id}
    BY <1>4 DEF Create, with
  <2>2. DOMAIN connections' \subseteq Id /\ DOMAIN connections' \cap DOMAIN purged = {}
    BY <1>4, <2>1, Purged DEF Create, Inv, Typed, NeverAbsorbsLive
  <2>3. Inv'
    BY <1>4, <2>2, PurgeKeeps DEF Create
  <2>4. ~(sinceClosed[id] < TTL)
    BY <1>4, Purged DEF Create
  <2>5. sinceClosed[id] >= TTL
    BY <2>4, RouterAssumption DEF Inv, Typed
  <2>. QED
    BY <2>1, <2>3, <2>5
<1>5. CASE EndRead \/ SkipClean
  BY <1>5 DEF EndRead, SkipClean, Inv, Typed, NeverAbsorbsLive, RemembersClosed
<1>6. ASSUME NEW dying \in SUBSET DOMAIN connections, poll_connections(dying)
      PROVE  Inv' /\ DOMAIN connections' \subseteq DOMAIN connections
  <2>. DEFINE polled == [id \in DOMAIN connections |-> [connections[id] EXCEPT !.idle = 0]]
              S == {id \in DOMAIN connections : connections[id].closed \/ id \in dying}
  <2>1. Forget(S, polled, recently_closed)
    BY <1>6 DEF poll_connections
  <2>2. DOMAIN polled = DOMAIN connections /\ S \subseteq DOMAIN polled
    OBVIOUS
  <2>3. \A id \in Id : sinceClosed[id] < TTL => id \in DOMAIN recently_closed
    BY DEF Inv, RemembersClosed
  <2>. HIDE DEF polled, S
  <2>. QED
    BY <2>1, <2>2, <2>3, ForgetKeeps
<1>7. CASE clean_expired_connections
  <2>. DEFINE S == {id \in DOMAIN connections : is_expired(id)}
  <2>1. Forget(S, connections, recently_closed) /\ S \subseteq DOMAIN connections
    BY <1>7 DEF clean_expired_connections
  <2>2. \A id \in Id : sinceClosed[id] < TTL => id \in DOMAIN recently_closed
    BY DEF Inv, RemembersClosed
  <2>. HIDE DEF S
  <2>3. Inv' /\ DOMAIN connections' \subseteq DOMAIN connections
    BY <2>1, <2>2, ForgetKeeps
  <2>. QED
    BY <2>3
<1>8. CASE clear
  <2>1. DOMAIN connections' = {} /\ DOMAIN recently_closed' = {}
    BY <1>8 DEF clear
  <2>2. \A id \in Id : sinceClosed'[id] = TTL
    BY <1>8 DEF clear
  <2>3. sinceClosed' \in [Id -> 0 .. TTL]
    BY <1>8, RouterAssumption DEF clear
  <2>4. RemembersClosed'
    BY <2>2, RouterAssumption DEF RemembersClosed
  <2>. QED
    BY <2>1, <2>3, <2>4 DEF Inv, Typed, NeverAbsorbsLive
<1>9. CASE Tick
  BY <1>9, TickKeeps
<1>10. CASE \E id \in Id : Receive(id)
  <2>1. PICK id \in Id : Receive(id)
    BY <1>10
  <2>2. CASE Absorb(id) \/ CreateFails(id)
    BY <1>2, <2>2
  <2>3. CASE Deliver(id)
    BY <1>3, <2>3
  <2>4. CASE \E syn \in BOOLEAN : Create(id, syn)
    BY <1>4, <2>4
  <2>. QED
    BY <2>1, <2>2, <2>3, <2>4 DEF Receive
<1>11. CASE \E dying \in SUBSET DOMAIN connections : poll_connections(dying)
  BY <1>6, <1>11
<1>. QED
  BY <1>1, <1>5, <1>7, <1>8, <1>9, <1>10, <1>11 DEF Next, Loop

\* The empty router satisfies the invariant.
LEMMA Initial ==
  ASSUME Init
  PROVE  Inv
<1>1. DOMAIN connections = {} /\ DOMAIN recently_closed = {}
  BY DEF Init
<1>2. sinceClosed \in [Id -> 0 .. TTL] /\ \A id \in Id : sinceClosed[id] = TTL
  BY RouterAssumption DEF Init
<1>. QED
  BY <1>1, <1>2, RouterAssumption DEF Inv, Typed, NeverAbsorbsLive, RemembersClosed

\* A tuple never has a connection and a recently-closed entry at once.
THEOREM LiveOrClosed == Spec => []NeverAbsorbsLive
<1>1. Inv => NeverAbsorbsLive
  BY DEF Inv
<1>. QED
  BY <1>1, Initial, Inductive, PTL DEF Spec

\* Every tuple that lost its connection less than TTL ago is remembered.
THEOREM Remembered == Spec => []RemembersClosed
<1>1. Inv => RemembersClosed
  BY DEF Inv
<1>. QED
  BY <1>1, Initial, Inductive, PTL DEF Spec

\* No connection is created for a tuple that closed less than TTL ago.
THEOREM NoStorm == Spec => NoEarlyReopen
<1>1. Inv /\ [Next]_vars =>
        [\A id \in DOMAIN connections' \ DOMAIN connections : sinceClosed[id] >= TTL]_vars
  BY Inductive
<1>2. Inv /\ [Next]_vars => Inv'
  BY Inductive
<1>. QED
  BY <1>1, <1>2, Initial, PTL DEF Spec, NoEarlyReopen
=============================================================================
