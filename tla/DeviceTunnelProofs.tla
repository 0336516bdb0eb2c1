-------------------------- MODULE DeviceTunnelProofs --------------------------
(***************************************************************************)
(* The device has at most one live connection to the relay, the current    *)
(* one, and those of tunnels that stop() overtook: for any number of       *)
(* workers and of tunnels, in both modes, wherever the workers, stop() and *)
(* the relay are.                                                          *)
(*                                                                         *)
(* LiveIsCurrent is not inductive: a worker that finishes connecting must  *)
(* still be connecting the tunnel it has read.  It is, or finds its socket *)
(* closed, because getCurrentTunnelLock keeps the others from opening one  *)
(* (Exclusive), and because in forward mode nobody can invalidate a tunnel *)
(* that connects (Attempt).  That no worker overtakes another needs        *)
(* Untouched: a tunnel without a socket cannot have been found broken.     *)
(***************************************************************************)
EXTENDS DeviceTunnel, TLAPS

SocketState == {"none", "connecting", "open", "broken", "closed"}

Live == {"connecting", "open", "broken"}

\* Where a worker holds getCurrentTunnelLock.
Holding == {"slot", "opened", "dial", "connecting", "connected"}

Place ==
  {"loop", "enter", "slot", "opened", "dial", "connecting", "connected", "return",
   "use", "invalidate", "ended", "crashed"}

WorkerState == [pc : Place, ref : Tunnel \cup {None}, initial : BOOLEAN, interrupted : BOOLEAN]

TypeInv ==
  /\ forward \in BOOLEAN
  /\ tunnel \in Tunnel \cup {None}
  /\ sockets \in [Tunnel -> SocketState]
  /\ workers \in [Worker -> WorkerState]
  /\ first \in BOOLEAN
  /\ overtaken \subseteq Tunnel

Exclusive == \A w \in Worker : workers[w].pc \in Holding => lock = w

\* While a worker waits for its slot there is no tunnel.
Waiting == \A w \in Worker : At(w, "slot") => tunnel = None

\* The tunnel t is the current one, or stop() overtook the worker that connects it.
Owned(t) == t \in Tunnel /\ (tunnel = t \/ t \in overtaken)

\* A worker connects a tunnel that is owned, or one whose socket was closed.
Attempt ==
  \A w \in Worker :
     /\ At(w, "dial") => Owned(workers[w].ref)
     /\ At(w, "connecting") =>
          /\ workers[w].ref \in Tunnel
          /\ forward => Owned(workers[w].ref)
          /\ ~forward => \/ sockets[workers[w].ref] = "closed"
                         \/ sockets[workers[w].ref] = "connecting" /\ Owned(workers[w].ref)

\* In forward mode the shared socket is null when it is closed.
Shared == forward => \A t \in Tunnel : sockets[t] # "closed"

\* Only stop() stops.
Stopping == main # "running" => stopped

\* Until stop(), a tunnel that is about to be connected is the current one, has no
\* socket, and nobody has found it broken.
Untouched ==
  \A w \in Worker : (At(w, "opened") \/ At(w, "dial")) /\ ~stopped =>
     /\ tunnel \in Tunnel
     /\ sockets[slot(tunnel)] = "none"
     /\ \A v \in Worker : At(v, "invalidate") => workers[v].ref # tunnel

\* Only a tunnel can be reported as broken.
Reported == \A w \in Worker : At(w, "invalidate") => workers[w].ref \in Tunnel

TunnelInv ==
  /\ TypeInv /\ Exclusive /\ Waiting /\ Attempt /\ Reported
  /\ Shared /\ Stopping /\ Untouched /\ LiveIsCurrent

\* Tunnels are numbers, and null is none of them.
LEMMA TunnelFacts ==
  /\ None \notin Tunnel
  /\ 1 \in Tunnel
BY TunnelAssumption DEF Tunnel

\* The slot of a tunnel is one of the sockets.
LEMMA SlotInRange ==
  ASSUME NEW t \in Tunnel
  PROVE  slot(t) \in Tunnel
BY TunnelFacts DEF slot

\* Only worker w moves.
Moves(w) ==
  /\ workers' \in [Worker -> WorkerState]
  /\ \A v \in Worker \ {w} : workers'[v] = workers[v]

\* A worker that moves without touching sockets, tunnel or lock, and to a place where it
\* holds nothing it did not hold.
LEMMA QuietMove ==
  ASSUME TunnelInv, NEW w \in Worker,
         UNCHANGED <<forward, tunnel, sockets, first, overtaken, stopped, main>>,
         Moves(w),
         workers'[w].pc \notin Holding,
         workers'[w].pc = "invalidate" =>
           workers'[w].ref \in Tunnel /\ sockets[slot(workers'[w].ref)] # "none",
         lock' = lock \/ (lock = w /\ lock' = Free)
  PROVE  TunnelInv'
<1>1. TypeInv'
  BY DEF TunnelInv, TypeInv, Moves
<1>2. Exclusive'
  BY TunnelAssumption DEF TunnelInv, Exclusive, Moves
<1>3. Waiting'
  BY DEF TunnelInv, Waiting, At, Holding, Moves
<1>4. Attempt'
  <2>1. workers'[w].pc \notin {"dial", "connecting"}
    BY DEF Holding
  <2> QED
    BY <2>1 DEF TunnelInv, Attempt, Owned, At, Moves
<1>5. Reported'
  BY DEF TunnelInv, Reported, At, Moves
<1>6. LiveIsCurrent' /\ Shared' /\ Stopping'
  BY DEF TunnelInv, LiveIsCurrent, Shared, Stopping, slot
<1>7. Untouched'
  <2> SUFFICES ASSUME NEW v \in Worker, workers'[v].pc \in {"opened", "dial"}, ~stopped
               PROVE  /\ tunnel \in Tunnel /\ sockets[slot(tunnel)] = "none"
                      /\ \A u \in Worker : workers'[u].pc = "invalidate" => workers'[u].ref # tunnel
    BY DEF Untouched, At, slot
  <2>1. v # w
    BY DEF Holding
  <2>2. /\ tunnel \in Tunnel /\ sockets[slot(tunnel)] = "none"
        /\ \A u \in Worker : workers[u].pc = "invalidate" => workers[u].ref # tunnel
    BY <2>1 DEF TunnelInv, Untouched, At, Moves
  <2> QED
    BY <2>2 DEF Moves
<1> QED
  BY <1>1, <1>2, <1>3, <1>4, <1>5, <1>6, <1>7 DEF TunnelInv

\* The steps that only change what a worker does next.
LEMMA QuietSteps ==
  ASSUME TunnelInv, NEW w \in Worker, UNCHANGED <<forward, overtaken>>,
         \/ Loop(w) \/ GetCurrent(w) \/ Interrupted(w) \/ ConnectNull(w) \/ Notify(w)
         \/ Return(w) \/ UseNull(w) \/ UseSucceeds(w) \/ UseFails(w)
  PROVE  TunnelInv'
<1> USE DEF At
<1>0. TypeInv /\ Exclusive
  BY DEF TunnelInv
<1>1. CASE Loop(w)
  <2>1. Moves(w) /\ workers'[w].pc \in {"ended", "enter"}
    BY <1>0, <1>1 DEF Loop, go, TypeInv, Moves, WorkerState, Place
  <2>2. UNCHANGED <<tunnel, sockets, first, lock, stopped, main>>
    BY <1>1 DEF Loop
  <2> QED
    BY <2>1, <2>2, QuietMove DEF Holding
<1>2. CASE GetCurrent(w) \/ Return(w)
  <2>1. tunnel \in Tunnel \cup {None} /\ workers' = return_with(w, "use", tunnel)
    BY <1>0, <1>2 DEF GetCurrent, Return, TypeInv
  <2>2. Moves(w) /\ workers'[w].pc = "use"
    BY <1>0, <2>1 DEF return_with, TypeInv, Moves, WorkerState, Place
  <2>3. UNCHANGED <<tunnel, sockets, first, lock, stopped, main>>
    BY <1>2 DEF GetCurrent, Return
  <2> QED
    BY <2>2, <2>3, QuietMove DEF Holding
<1>3. CASE Interrupted(w)
  <2>1. lock = w /\ lock' = Free /\ UNCHANGED <<tunnel, sockets, first, stopped, main>>
    BY <1>0, <1>3 DEF Interrupted, Exclusive, Holding
  <2>2. Moves(w) /\ workers'[w].pc = "loop"
    BY <1>0, <1>3 DEF Interrupted, TypeInv, Moves, WorkerState, Place
  <2> QED
    BY <2>1, <2>2, QuietMove DEF Holding
<1>4. CASE ConnectNull(w) \/ UseNull(w)
  <2>1. crash(w)
    BY <1>4 DEF ConnectNull, UseNull
  <2>2. Moves(w) /\ workers'[w].pc = "crashed"
    BY <1>0, <2>1 DEF crash, go, TypeInv, Moves, WorkerState, Place
  <2>3. UNCHANGED <<tunnel, sockets, first, stopped, main>> /\ (lock' = lock \/ (lock = w /\ lock' = Free))
    BY <2>1 DEF crash
  <2> QED
    BY <2>2, <2>3, QuietMove DEF Holding
<1>5. CASE Notify(w)
  <2>1. lock = w /\ lock' = Free /\ UNCHANGED <<tunnel, sockets, first, stopped, main>>
    BY <1>0, <1>5 DEF Notify, Exclusive, Holding
  <2>2. Moves(w) /\ workers'[w].pc = "return"
    BY <1>0, <1>5 DEF Notify, go, TypeInv, Moves, WorkerState, Place
  <2> QED
    BY <2>1, <2>2, QuietMove DEF Holding
<1>6. CASE UseSucceeds(w)
  <2>1. Moves(w) /\ workers'[w].pc = "loop"
    BY <1>0, <1>6 DEF UseSucceeds, return_with, TypeInv, Moves, WorkerState, Place
  <2>2. UNCHANGED <<tunnel, sockets, first, lock, stopped, main>>
    BY <1>6 DEF UseSucceeds
  <2> QED
    BY <2>1, <2>2, QuietMove DEF Holding
<1>7. CASE UseFails(w)
  <2>1. workers[w].ref \in Tunnel /\ sockets[slot(workers[w].ref)] # "none"
    BY <1>0, <1>7 DEF UseFails, TypeInv, WorkerState
  <2>2. Moves(w) /\ workers'[w].pc = "invalidate" /\ workers'[w].ref = workers[w].ref
    BY <1>0, <1>7 DEF UseFails, go, TypeInv, Moves, WorkerState, Place
  <2>3. UNCHANGED <<tunnel, sockets, first, lock, stopped, main>>
    BY <1>7 DEF UseFails
  <2> QED
    BY <2>1, <2>2, <2>3, QuietMove DEF Holding
<1> QED
  BY <1>1, <1>2, <1>3, <1>4, <1>5, <1>6, <1>7

\* The lock is taken by nobody else, so it may be taken.
LEMMA WaitSlotKeeps ==
  ASSUME TunnelInv, NEW w \in Worker, UNCHANGED <<forward, overtaken>>, WaitSlot(w)
  PROVE  TunnelInv'
<1> USE DEF At
<1>0. TypeInv /\ Exclusive /\ Reported
  BY DEF TunnelInv
<1>1. Moves(w) /\ workers'[w].pc = "slot"
  BY <1>0 DEF WaitSlot, go, TypeInv, Moves, WorkerState, Place
<1>2. \A v \in Worker : workers[v].pc \notin Holding
  BY <1>0, TunnelAssumption DEF WaitSlot, Exclusive
<1>3. UNCHANGED <<forward, tunnel, sockets, first, stopped, main>> /\ tunnel = None /\ lock' = w
  BY DEF WaitSlot
<1>4. TypeInv'
  BY <1>0, <1>1, <1>3 DEF TypeInv, Moves
<1>5. Exclusive'
  BY <1>1, <1>2, <1>3 DEF Exclusive, Moves
<1>6. Waiting'
  BY <1>3 DEF Waiting
<1>7. Attempt' /\ Untouched'
  BY <1>1, <1>2 DEF Attempt, Untouched, Holding, Moves
<1>8. Reported'
  BY <1>0, <1>1 DEF Reported, Moves
<1>9. LiveIsCurrent' /\ Shared' /\ Stopping'
  BY <1>3 DEF TunnelInv, LiveIsCurrent, Shared, Stopping, slot
<1> QED
  BY <1>4, <1>5, <1>6, <1>7, <1>8, <1>9 DEF TunnelInv

\* A new tunnel becomes the current one; until stop(), no socket is live then.
LEMMA OpenKeeps ==
  ASSUME TunnelInv, NEW w \in Worker, UNCHANGED <<forward, overtaken>>, Open(w)
  PROVE  TunnelInv'
<1> USE DEF At
<1>0. /\ TypeInv /\ Exclusive /\ Attempt /\ Reported /\ Waiting
      /\ Shared /\ Stopping /\ LiveIsCurrent
  BY DEF TunnelInv
<1>1. tunnel = None /\ lock = w
  BY <1>0 DEF Open, Waiting, Exclusive, Holding
<1>2. ~stopped => \A t \in Tunnel : sockets[t] \notin Live
  BY <1>0, <1>1 DEF LiveIsCurrent, Live
<1>3. tunnel' \in Tunnel /\ ~in_memory(tunnel')
  BY DEF Open
<1>4. Moves(w) /\ workers'[w].pc = "opened"
  BY <1>0, ZenonT(60) DEF Open, TypeInv, Moves, WorkerState, Place
<1>5. /\ sockets' \in [Tunnel -> SocketState]
      /\ \A t \in Tunnel : sockets'[t] = IF ~forward /\ t = tunnel' THEN "none" ELSE sockets[t]
  <2>1. CASE forward
    BY <1>0, <2>1 DEF Open, TypeInv
  <2>2. CASE ~forward
    <3>1. sockets' = [sockets EXCEPT ![tunnel'] = "none"]
      BY <2>2 DEF Open
    <3> QED
      BY <1>0, <1>3, <2>2, <3>1 DEF TypeInv, SocketState
  <2> QED
    BY <2>1, <2>2
<1>6. \A v \in Worker \ {w} : workers[v].pc \notin Holding
  BY <1>0, <1>1 DEF Exclusive
<1>7. lock' = lock /\ first' = FALSE /\ UNCHANGED <<stopped, main>>
  BY DEF Open
<1>8. TypeInv'
  BY <1>0, <1>3, <1>4, <1>5, <1>7 DEF TypeInv, Moves
<1>9. Exclusive'
  BY <1>1, <1>4, <1>6, <1>7 DEF Exclusive, Moves
<1>10. Waiting' /\ Attempt'
  BY <1>4, <1>6 DEF Waiting, Attempt, Holding, Moves
<1>11. Reported' /\ Stopping' /\ Shared'
  BY <1>0, <1>4, <1>5, <1>7 DEF Reported, Stopping, Shared, Moves
<1>12. LiveIsCurrent'
  <2>1. \A t \in Tunnel : sockets'[t] \in Live => \E x \in overtaken : t = slot(x)
    BY <1>0, <1>1, <1>5 DEF LiveIsCurrent, Live
  <2> QED
    BY <1>0, <1>7, <2>1 DEF LiveIsCurrent, Live, slot
<1>13. Untouched'
  <2> SUFFICES ASSUME ~stopped
               PROVE  /\ sockets'[slot(tunnel')] = "none"
                      /\ \A v \in Worker : workers'[v].pc = "invalidate" => workers'[v].ref # tunnel'
    BY <1>3, <1>7 DEF Untouched, slot
  <2>1. sockets'[slot(tunnel')] = "none"
    <3>1. CASE forward
      <4>1. slot(tunnel') = 1 /\ 1 \in Tunnel
        BY <3>1, TunnelFacts DEF slot
      <4>2. sockets[1] = "none"
        BY <1>0, <1>2, <3>1, <4>1 DEF TypeInv, SocketState, Shared, Live
      <4> QED
        BY <1>5, <3>1, <4>1, <4>2
    <3>2. CASE ~forward
      BY <1>3, <1>5, <3>2 DEF slot
    <3> QED
      BY <3>1, <3>2
  <2>2. \A v \in Worker : workers[v].ref # tunnel'
    BY <1>3 DEF in_memory
  <2> QED
    BY <1>4, <2>1, <2>2 DEF Moves
<1> QED
  BY <1>8, <1>9, <1>10, <1>11, <1>12, <1>13 DEF TunnelInv

\* A worker reads the field, which holds the tunnel it has opened unless stop() came first.
LEMMA ReadKeeps ==
  ASSUME TunnelInv, NEW w \in Worker, UNCHANGED <<forward, overtaken>>, Read(w)
  PROVE  TunnelInv'
<1> USE DEF At
<1>0. TypeInv /\ Exclusive /\ Reported /\ Untouched
  BY DEF TunnelInv
<1>1. tunnel \in Tunnel /\ lock = w /\ workers[w].pc = "opened"
  BY <1>0 DEF Read, TypeInv, Exclusive, Holding
<1>2. UNCHANGED <<tunnel, first, lock, sockets, stopped, main>>
  BY DEF Read
<1>3. Moves(w) /\ workers'[w].pc = "dial" /\ workers'[w].ref = tunnel
  BY <1>0, <1>1 DEF Read, return_with, TypeInv, Moves, WorkerState, Place
<1>4. \A v \in Worker \ {w} : workers[v].pc \notin Holding
  BY <1>0, <1>1 DEF Exclusive, Holding
<1>5. TypeInv' /\ Reported'
  BY <1>0, <1>2, <1>3 DEF TypeInv, Reported, Moves
<1>6. Exclusive' /\ Waiting'
  BY <1>1, <1>2, <1>3, <1>4 DEF Exclusive, Waiting, Moves, Holding
<1>7. Attempt'
  BY <1>1, <1>2, <1>3, <1>4 DEF Attempt, Owned, Moves, Holding
<1>8. Untouched'
  <2>1. ~stopped => /\ sockets[slot(tunnel)] = "none"
                    /\ \A v \in Worker : workers[v].pc = "invalidate" => workers[v].ref # tunnel
    BY <1>0, <1>1 DEF Untouched
  <2> QED
    BY <1>1, <1>2, <1>3, <2>1 DEF Untouched, slot, Moves
<1>9. LiveIsCurrent' /\ Shared' /\ Stopping'
  BY <1>2 DEF TunnelInv, LiveIsCurrent, Shared, Stopping, slot
<1> QED
  BY <1>5, <1>6, <1>7, <1>8, <1>9 DEF TunnelInv

\* The tunnel that was read gets its socket.
LEMMA DialKeeps ==
  ASSUME TunnelInv, NEW w \in Worker, UNCHANGED <<forward, overtaken>>, Dial(w)
  PROVE  TunnelInv'
<1> USE DEF At
<1> DEFINE r == workers[w].ref
<1>0. TypeInv /\ Exclusive /\ Attempt /\ Reported /\ Shared /\ Stopping /\ LiveIsCurrent
  BY DEF TunnelInv
<1>1. Owned(r) /\ r \in Tunnel /\ lock = w /\ UNCHANGED <<tunnel, first, lock, stopped, main>>
  BY <1>0 DEF Dial, Attempt, Owned, Exclusive, Holding
<1>2. Moves(w) /\ workers'[w].pc = "connecting" /\ workers'[w].ref = r
  BY <1>0 DEF Dial, go, TypeInv, Moves, WorkerState, Place
<1>3. slot(r) \in Tunnel
  BY <1>1, SlotInRange
<1>4. /\ sockets' \in [Tunnel -> SocketState]
      /\ \A t \in Tunnel \ {slot(r)} : sockets'[t] = sockets[t]
      /\ sockets'[slot(r)] = IF forward THEN "none" ELSE "connecting"
  BY <1>0, <1>3 DEF Dial, connecting, TypeInv, SocketState
<1>5. \A v \in Worker \ {w} : workers[v].pc \notin Holding
  BY <1>0, <1>1 DEF Exclusive
<1>6. TypeInv'
  BY <1>0, <1>1, <1>2, <1>4 DEF TypeInv, Moves
<1>7. Exclusive' /\ Waiting' /\ Untouched'
  BY <1>1, <1>2, <1>5 DEF Exclusive, Waiting, Untouched, Moves, Holding
<1>8. Attempt'
  <2>1. ~forward => slot(r) = r
    BY DEF slot
  <2>2. \A v \in Worker : workers'[v].pc \in {"dial", "connecting"} => v = w
    BY <1>2, <1>5 DEF Moves, Holding
  <2> QED
    BY <1>1, <1>2, <1>4, <2>1, <2>2 DEF Attempt, Owned
<1>9. Reported' /\ Shared' /\ Stopping'
  BY <1>0, <1>1, <1>2, <1>4 DEF Reported, Shared, Stopping, Moves
<1>10. LiveIsCurrent'
  <2>1. \E x \in overtaken \cup ({tunnel} \ {None}) : slot(r) = slot(x)
    BY <1>1, TunnelFacts DEF Owned
  <2> QED
    BY <1>0, <1>1, <1>4, <2>1 DEF LiveIsCurrent, slot
<1> QED
  BY <1>6, <1>7, <1>8, <1>9, <1>10 DEF TunnelInv

\* The end of an attempt: the socket is open, or broken, and still belongs to a tunnel
\* that is owned.
LEMMA AttemptEnds ==
  ASSUME TunnelInv, NEW w \in Worker, UNCHANGED <<forward, overtaken>>,
         Connected(w) \/ ConnectFails(w)
  PROVE  TunnelInv'
<1> USE DEF At
<1> DEFINE s == slot(workers[w].ref)
<1>0. TypeInv /\ Exclusive /\ Attempt /\ Reported /\ Shared /\ Stopping /\ LiveIsCurrent
  BY DEF TunnelInv
<1>1. workers[w].pc = "connecting" /\ lock = w /\ UNCHANGED <<tunnel, first, stopped, main>>
  BY <1>0 DEF Connected, ConnectFails, Exclusive, Holding
<1>2. workers[w].ref \in Tunnel /\ s \in Tunnel
  BY <1>0, <1>1, SlotInRange DEF Attempt
<1>3. Moves(w) /\ (workers'[w].pc = "connected" \/ workers'[w].pc = "loop")
  <2>1. CASE Connected(w)
    BY <1>0, <2>1 DEF Connected, go, TypeInv, Moves, WorkerState, Place
  <2>2. CASE ConnectFails(w)
    BY <1>0, <2>2, ZenonT(60) DEF ConnectFails, return_with, TypeInv, Moves, WorkerState, Place
  <2> QED
    BY <2>1, <2>2
<1>4. \A v \in Worker \ {w} : workers[v].pc \notin Holding
  BY <1>0, <1>1 DEF Exclusive
<1>5. /\ sockets' \in [Tunnel -> SocketState]
      /\ \A t \in Tunnel \ {s} : sockets'[t] = sockets[t]
      /\ sockets'[s] \in Live => sockets[s] # "closed"
      /\ forward => sockets'[s] # "closed"
  <2>1. CASE Connected(w)
    BY <1>0, <1>2, <2>1 DEF Connected, TypeInv, SocketState
  <2>2. CASE ConnectFails(w) /\ forward
    <3>1. s = 1
      BY <2>2 DEF slot
    <3>2. PICK o \in {"none", "broken"} : sockets' = [sockets EXCEPT ![1] = o]
      BY <2>2 DEF ConnectFails, failed
    <3> QED
      BY <1>0, <1>2, <2>2, <3>1, <3>2 DEF TypeInv, SocketState, Shared
  <2>3. CASE ConnectFails(w) /\ ~forward
    <3>1. s = workers[w].ref
      BY <2>3 DEF slot
    <3>2. sockets' = [sockets EXCEPT ![s] = IF @ = "connecting" THEN "broken" ELSE @]
      BY <2>3, <3>1 DEF ConnectFails, failed
    <3> QED
      BY <1>0, <1>2, <2>3, <3>2 DEF TypeInv, SocketState, Live
  <2> QED
    BY <2>1, <2>2, <2>3
<1>6. TypeInv'
  BY <1>0, <1>1, <1>3, <1>5 DEF TypeInv, Moves
<1>7. Exclusive'
  <2>1. workers'[w].pc = "connected" => lock' = lock
    <3>1. CASE Connected(w)
      BY <3>1 DEF Connected
    <3>2. CASE ConnectFails(w)
      BY <1>0, <3>2 DEF ConnectFails, return_with, TypeInv, WorkerState
    <3> QED
      BY <3>1, <3>2
  <2> QED
    BY <1>1, <1>3, <1>4, <2>1 DEF Exclusive, Moves, Holding
<1>8. Waiting' /\ Attempt' /\ Untouched'
  BY <1>3, <1>4 DEF Waiting, Attempt, Untouched, Moves, Holding
<1>9. Reported' /\ Shared' /\ Stopping'
  BY <1>0, <1>1, <1>3, <1>5 DEF Reported, Shared, Stopping, Moves
<1>10. LiveIsCurrent'
  <2>1. sockets[s] # "closed" => Owned(workers[w].ref)
    BY <1>0, <1>1 DEF Attempt, slot
  <2>2. Owned(workers[w].ref) => \E x \in overtaken \cup ({tunnel} \ {None}) : s = slot(x)
    BY <1>2, TunnelFacts DEF Owned
  <2>3. sockets'[s] \in Live => \E x \in overtaken \cup ({tunnel} \ {None}) : s = slot(x)
    BY <1>5, <2>1, <2>2
  <2> QED
    BY <1>0, <1>1, <1>5, <2>3 DEF LiveIsCurrent, Live, slot
<1> QED
  BY <1>6, <1>7, <1>8, <1>9, <1>10 DEF TunnelInv

\* After an invalidation no socket of the tunnel is live; an attempt under way finds its
\* socket closed, and one that has not made its socket yet is overtaken, by stop() only.
LEMMA InvalidateKeeps ==
  ASSUME TunnelInv, tunnel \in Tunnel, invalidate,
         UNCHANGED <<forward, first, lock, stopped>>, main' = main \/ stopped,
         stopped \/ \E v \in Worker : At(v, "invalidate") /\ workers[v].ref = tunnel,
         workers' \in [Worker -> WorkerState],
         \A v \in Worker : \/ workers'[v].pc = workers[v].pc /\ workers'[v].ref = workers[v].ref
                           \/ workers'[v].pc = "loop"
  PROVE  TunnelInv'
<1> USE DEF At
<1>0. TypeInv /\ Exclusive /\ Attempt /\ Reported /\ Shared /\ Stopping /\ Untouched /\ LiveIsCurrent
  BY DEF TunnelInv
<1>1. slot(tunnel) \in Tunnel /\ tunnel' = None
  BY SlotInRange DEF invalidate
<1>2. /\ sockets' \in [Tunnel -> SocketState]
      /\ \A t \in Tunnel \ {slot(tunnel)} : sockets'[t] = sockets[t]
      /\ sockets'[slot(tunnel)] = IF forward \/ sockets[slot(tunnel)] = "none" THEN "none" ELSE "closed"
  BY <1>0, <1>1 DEF invalidate, closed, TypeInv, SocketState
<1>3. /\ overtaken \subseteq overtaken' /\ overtaken' \subseteq overtaken \cup {tunnel}
      /\ \A v \in Worker : workers[v].pc = "dial" /\ workers[v].ref = tunnel => tunnel \in overtaken'
      /\ tunnel \in overtaken' =>
           tunnel \in overtaken \/ \E v \in Worker : workers[v].pc = "dial" /\ workers[v].ref = tunnel
  BY DEF invalidate
<1>4. TypeInv'
  BY <1>0, <1>1, <1>2, <1>3 DEF TypeInv
<1>5. Exclusive'
  BY <1>0 DEF Exclusive, Holding
<1>6. Waiting'
  BY <1>1 DEF Waiting
<1>7. \A t \in Tunnel : Owned(t) /\ t # tunnel => t \in overtaken'
  BY <1>3 DEF Owned
<1>8. Attempt'
  <2>1. ASSUME NEW v \in Worker, workers'[v].pc = "dial"
        PROVE  workers'[v].ref \in Tunnel /\ workers'[v].ref \in overtaken'
    <3>1. workers[v].pc = "dial" /\ workers'[v].ref = workers[v].ref /\ Owned(workers[v].ref)
      BY <1>0, <2>1 DEF Attempt
    <3> QED
      BY <1>3, <1>7, <3>1 DEF Owned
  <2>2. ASSUME NEW v \in Worker, workers'[v].pc = "connecting"
        PROVE  /\ workers'[v].ref \in Tunnel /\ ~forward
               /\ \/ sockets'[workers'[v].ref] = "closed"
                  \/ sockets'[workers'[v].ref] = "connecting" /\ workers'[v].ref \in overtaken'
    <3>1. workers[v].pc = "connecting" /\ workers'[v].ref = workers[v].ref
      BY <2>2
    <3>2. ~forward /\ slot(tunnel) = tunnel
      BY <3>1 DEF invalidate, class_free, slot
    <3>3. workers[v].ref \in Tunnel
      BY <1>0, <3>1 DEF Attempt
    <3>4. \/ sockets[workers[v].ref] = "closed"
          \/ sockets[workers[v].ref] = "connecting" /\ Owned(workers[v].ref)
      BY <1>0, <3>1, <3>2 DEF Attempt
    <3>5. CASE workers[v].ref = tunnel
      BY <1>2, <3>1, <3>2, <3>3, <3>4, <3>5
    <3>6. CASE workers[v].ref # tunnel
      BY <1>2, <1>7, <3>1, <3>2, <3>3, <3>4, <3>6
    <3> QED
      BY <3>5, <3>6
  <2> QED
    BY <2>1, <2>2 DEF Attempt, Owned
<1>9. Reported' /\ Shared' /\ Stopping'
  BY <1>0, <1>1, <1>2 DEF Reported, Shared, Stopping
<1>10. ~stopped => \A v \in Worker : workers[v].pc \notin {"opened", "dial"}
  BY <1>0 DEF Untouched
<1>11. Untouched'
  <2>1. ~stopped => \A v \in Worker : workers'[v].pc \notin {"opened", "dial"}
    BY <1>10
  <2> QED
    BY <2>1 DEF Untouched
<1>12. LiveIsCurrent'
  <2>1. overtaken' # {} => stopped
    BY <1>0, <1>3, <1>10 DEF LiveIsCurrent
  <2>2. ASSUME NEW t \in Tunnel, sockets'[t] \in Live
        PROVE  \E x \in overtaken' : t = slot(x)
    <3>1. t # slot(tunnel) /\ sockets[t] \in Live
      BY <1>1, <1>2, <2>2 DEF Live
    <3>2. PICK x \in overtaken \cup ({tunnel} \ {None}) : t = slot(x)
      BY <1>0, <3>1 DEF LiveIsCurrent, Live
    <3> QED
      BY <1>3, <3>1, <3>2
  <2> QED
    BY <2>1, <2>2 DEF LiveIsCurrent, Live, slot
<1> QED
  BY <1>4, <1>5, <1>6, <1>8, <1>9, <1>11, <1>12 DEF TunnelInv

\* A step of a worker.
LEMMA WorkerStep ==
  ASSUME TunnelInv, NEW w \in Worker, Step(w)
  PROVE  TunnelInv'
<1> USE DEF At
<1>0. UNCHANGED forward /\ TypeInv /\ Reported
  BY DEF Step, TunnelInv
<1>1. ASSUME Invalidate(w) PROVE TunnelInv'
  <2>1. Moves(w) /\ workers'[w].pc = "loop" /\ UNCHANGED <<first, lock, stopped, main>>
    BY <1>0, <1>1, ZenonT(60) DEF Invalidate, return_with, TypeInv, Moves, WorkerState, Place
  <2>2. CASE tunnel = workers[w].ref
    <3>1. tunnel \in Tunnel /\ workers[w].pc = "invalidate"
      BY <1>0, <1>1, <2>2 DEF Invalidate, Reported
    <3>2. invalidate
      BY <1>1, <2>2 DEF Invalidate
    <3> QED
      BY <1>0, <2>1, <2>2, <3>1, <3>2, InvalidateKeeps DEF Moves
  <2>3. CASE tunnel # workers[w].ref
    <3>1. UNCHANGED <<tunnel, sockets, overtaken>>
      BY <1>1, <2>3 DEF Invalidate
    <3> QED
      BY <1>0, <2>1, <3>1, QuietMove DEF Holding
  <2> QED
    BY <2>2, <2>3
<1> QED
  BY <1>0, <1>1, QuietSteps, WaitSlotKeeps, OpenKeeps, ReadKeeps, DialKeeps, AttemptEnds DEF Step

\* The steps of the main thread, of the relay and of time.
LEMMA OtherSteps ==
  ASSUME TunnelInv, UNCHANGED forward,
         \/ CloseTunnel
         \/ UNCHANGED overtaken /\ (Stop \/ Cancel \/ RelayLost \/ RelayBack \/ DelayOver)
  PROVE  TunnelInv'
<1> USE DEF At
<1>0. /\ TypeInv /\ Exclusive /\ Waiting /\ Attempt /\ Reported
      /\ Shared /\ Stopping /\ Untouched /\ LiveIsCurrent
  BY DEF TunnelInv
<1>1. ASSUME UNCHANGED <<tunnel, first, lock, sockets, overtaken>>,
             stopped => stopped', main' # "running" => stopped',
             workers' \in [Worker -> WorkerState],
             \A v \in Worker : workers'[v].pc = workers[v].pc /\ workers'[v].ref = workers[v].ref
      PROVE  TunnelInv'
  <2>1. TypeInv' /\ Exclusive' /\ Waiting' /\ Reported' /\ Shared' /\ Stopping'
    BY <1>0, <1>1 DEF TypeInv, Exclusive, Waiting, Reported, Shared, Stopping
  <2>2. Attempt'
    BY <1>0, <1>1 DEF Attempt, Owned
  <2>3. Untouched'
    BY <1>0, <1>1 DEF Untouched, slot
  <2>4. LiveIsCurrent'
    BY <1>0, <1>1 DEF LiveIsCurrent, slot
  <2> QED
    BY <2>1, <2>2, <2>3, <2>4 DEF TunnelInv
<1>2. ASSUME CloseTunnel PROVE TunnelInv'
  <2>1. UNCHANGED <<first, lock, workers, stopped>> /\ stopped
    BY <1>0, <1>2 DEF CloseTunnel, Stopping
  <2>2. workers' \in [Worker -> WorkerState]
    BY <1>0, <2>1 DEF TypeInv
  <2>3. CASE tunnel = None
    BY <1>1, <1>2, <2>1, <2>2, <2>3 DEF CloseTunnel
  <2>4. CASE tunnel # None
    <3>1. tunnel \in Tunnel /\ invalidate
      BY <1>0, <1>2, <2>4 DEF CloseTunnel, TypeInv
    <3> QED
      BY <2>1, <2>2, <3>1, InvalidateKeeps
  <2> QED
    BY <2>3, <2>4
<1>3. ASSUME Cancel, UNCHANGED overtaken PROVE TunnelInv'
  <2>1. UNCHANGED <<tunnel, first, lock, sockets, stopped>> /\ stopped
    BY <1>0, <1>3 DEF Cancel, Stopping
  <2>2. /\ workers' \in [Worker -> WorkerState]
        /\ \A v \in Worker : workers'[v].pc = workers[v].pc /\ workers'[v].ref = workers[v].ref
    BY <1>0, <1>3 DEF Cancel, TypeInv, WorkerState
  <2> QED
    BY <1>1, <1>3, <2>1, <2>2
<1>4. ASSUME RelayLost, UNCHANGED overtaken PROVE TunnelInv'
  <2>1. UNCHANGED <<tunnel, first, lock, workers, stopped, main, overtaken>>
    BY <1>4 DEF RelayLost
  <2>2. /\ sockets' \in [Tunnel -> SocketState]
        /\ \A t \in Tunnel : sockets'[t] = IF sockets[t] = "open" THEN "broken" ELSE sockets[t]
    BY <1>0, <1>4 DEF RelayLost, TypeInv, SocketState
  <2>3. TypeInv' /\ Exclusive' /\ Waiting' /\ Reported' /\ Shared' /\ Stopping'
    BY <1>0, <2>1, <2>2 DEF TypeInv, Exclusive, Waiting, Reported, Shared, Stopping
  <2>4. Attempt'
    BY <1>0, <2>1, <2>2 DEF Attempt, Owned
  <2>5. Untouched'
    BY <1>0, <2>1, <2>2, SlotInRange DEF Untouched, slot
  <2>6. LiveIsCurrent'
    BY <1>0, <2>1, <2>2 DEF LiveIsCurrent, slot
  <2> QED
    BY <2>3, <2>4, <2>5, <2>6 DEF TunnelInv
<1>5. ASSUME Stop \/ RelayBack \/ DelayOver, UNCHANGED overtaken PROVE TunnelInv'
  <2>1. UNCHANGED <<tunnel, first, lock, sockets, workers>>
    BY <1>5 DEF Stop, RelayBack, DelayOver
  <2>2. (stopped => stopped') /\ (main' # "running" => stopped')
    BY <1>0, <1>5 DEF Stop, RelayBack, DelayOver, Stopping
  <2>3. workers' \in [Worker -> WorkerState]
    BY <1>0, <2>1 DEF TypeInv
  <2> QED
    BY <1>1, <1>5, <2>1, <2>2, <2>3
<1> QED
  BY <1>2, <1>3, <1>4, <1>5

\* LiveIsCurrent for every behaviour (RelayTunnelProvider, RelayTunnel): whatever the
\* workers, stop() and the relay do, no tunnel that was given up keeps a live socket,
\* except one that stop() gave up while a worker was about to connect it.
THEOREM OneLive == Spec => []LiveIsCurrent
<1>1. Init => TunnelInv
  <2> SUFFICES ASSUME Init PROVE TunnelInv
    OBVIOUS
  <2>1. TypeInv
    <3>1. forward \in BOOLEAN
      BY TunnelAssumption DEF Init
    <3>2. workers \in [Worker -> WorkerState]
      BY DEF Init, WorkerState, Place
    <3>3. sockets \in [Tunnel -> SocketState]
      BY DEF Init, SocketState
    <3> QED
      BY <3>1, <3>2, <3>3 DEF Init, TypeInv
  <2>2. \A w \in Worker : workers[w].pc = "loop"
    BY DEF Init
  <2>3. Exclusive /\ Waiting /\ Attempt /\ Reported /\ Untouched
    BY <2>2 DEF Exclusive, Waiting, Attempt, Reported, Untouched, At, Holding
  <2>4. LiveIsCurrent /\ Shared /\ Stopping
    BY DEF Init, LiveIsCurrent, Shared, Stopping
  <2> QED
    BY <2>1, <2>3, <2>4 DEF TunnelInv
<1>2. TunnelInv /\ [Next]_vars => TunnelInv'
  <2> SUFFICES ASSUME TunnelInv, [Next]_vars PROVE TunnelInv'
    OBVIOUS
  <2>1. ASSUME NEW w \in Worker, UNCHANGED <<forward, overtaken>>, UseSucceeds(w) PROVE TunnelInv'
    BY <2>1, QuietSteps
  <2>2. CASE UNCHANGED vars
    <3>1. TypeInv' /\ Exclusive' /\ Waiting' /\ Reported' /\ Shared' /\ Stopping'
      BY <2>2 DEF vars, TunnelInv, TypeInv, Exclusive, Waiting, Reported, Shared, Stopping, At
    <3>2. Attempt' /\ Untouched' /\ LiveIsCurrent'
      BY <2>2 DEF vars, TunnelInv, Attempt, Owned, Untouched, LiveIsCurrent, slot, At
    <3> QED
      BY <3>1, <3>2 DEF TunnelInv
  <2> QED
    BY <2>1, <2>2, WorkerStep, OtherSteps DEF Next
<1>3. TunnelInv => LiveIsCurrent
  BY DEF TunnelInv
<1> QED
  BY <1>1, <1>2, <1>3, PTL DEF Spec
=============================================================================
