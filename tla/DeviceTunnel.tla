---------------------------- MODULE DeviceTunnel ----------------------------
(***************************************************************************)
(* The device's end of the tunnel: Forwarder, PersistentRelayTunnel,       *)
(* RelayTunnelProvider and RelayTunnel (app/.../gnirehtet/).               *)
(*                                                                         *)
(* Two workers, one per direction, share a provider that opens a tunnel    *)
(* when there is none and drops it when a worker finds it broken; the main *)
(* thread stops them.  A step is what a thread does between two points     *)
(* where another can interfere: the locks of the code, and the reads of    *)
(* the field "tunnel" that no lock protects.  Packets are left out.        *)
(***************************************************************************)
EXTENDS Naturals

CONSTANTS
  Worker,       \* the threads of Forwarder.forward()
  Modes,        \* the modes considered: forward (TRUE), reverse (FALSE)
  MaxTunnels,   \* bound on the RelayTunnels in memory at a time
  Stops,        \* whether the service stops the forwarder
  Free, None    \* no thread; null

ASSUME TunnelAssumption ==
  /\ Modes \subseteq BOOLEAN /\ Stops \in BOOLEAN /\ MaxTunnels \in Nat \ {0}
  /\ Free \notin Worker /\ None \notin Nat

VARIABLES
  forward,   \* forwardMode: one accepted socket, shared by all tunnels
  tunnel,    \* RelayTunnelProvider.tunnel
  first,     \* RelayTunnelProvider.first
  recent,    \* the last failure is less than DELAY_BETWEEN_ATTEMPTS_MS old
  lock,      \* who holds getCurrentTunnelLock
  sockets,   \* the socket of each tunnel
  workers,   \* where each worker is, and its local variables
  stopped,   \* PersistentRelayTunnel.stopped
  main,      \* where stop() is
  up,        \* whether the relay can be reached
  shown,     \* the last event posted to the service
  overtaken  \* history: tunnels dropped after a worker had read the field to connect
             \* them, and before their socket was made

vars ==
  <<forward, tunnel, first, recent, lock, sockets, workers, stopped, main, up, shown, overtaken>>

Tunnel == 1 .. MaxTunnels

\* The field that holds the socket of t: sharedAcceptedSocket or localSocket.
\* It is "none" (null), "connecting", "open", "broken" (the relay is gone)
\* or "closed".
slot(t) == IF forward THEN 1 ELSE t

At(w, pc) == workers[w].pc = pc

\* No thread is inside "synchronized (RelayTunnel.class)", held while a tunnel
\* connects in forward mode.
class_free == forward => \A w \in Worker : ~At(w, "connecting")

go(w, pc) == [workers EXCEPT ![w].pc = pc]

return_with(w, pc, t) == [workers EXCEPT ![w].pc = pc, ![w].ref = t]

-----------------------------------------------------------------------------
(* RelayTunnel *)

connecting(t) == [sockets EXCEPT ![slot(t)] = IF forward THEN "none" ELSE "connecting"]

\* What a failed attempt may leave: accept() timed out, or the socket did not connect or
\* gave no client id.
failed(t) ==
  IF forward THEN {[sockets EXCEPT ![1] = s] : s \in {"none", "broken"}}
  ELSE {[sockets EXCEPT ![t] = IF @ = "connecting" THEN "broken" ELSE @]}

\* Mutant of closed: the socket is left open.
leftOpen(t) == sockets

closed(t) ==
  [sockets EXCEPT ![slot(t)] = IF forward \/ @ = "none" THEN "none" ELSE "closed"]

-----------------------------------------------------------------------------
(* RelayTunnelProvider *)

\* invalidateTunnel()
invalidate ==
  /\ class_free
  /\ sockets' = closed(tunnel)
  /\ tunnel' = None
  /\ overtaken' = overtaken \cup {t \in {tunnel} : \E w \in Worker : At(w, "dial") /\ workers[w].ref = t}
  /\ recent' = TRUE /\ shown' = "disconnected"

\* getCurrentTunnel(): the current tunnel, if there is one.
GetCurrent(w) ==
  /\ At(w, "enter") /\ lock = Free /\ tunnel # None
  /\ workers' = return_with(w, "use", tunnel)
  /\ UNCHANGED <<tunnel, first, recent, lock, sockets, stopped, main, up, shown>>

WaitSlot(w) ==
  /\ At(w, "enter") /\ lock = Free /\ tunnel = None
  /\ lock' = w
  /\ workers' = go(w, "slot")
  /\ UNCHANGED <<tunnel, first, recent, sockets, stopped, main, up, shown>>

\* wait() throws InterruptedException.
Interrupted(w) ==
  /\ At(w, "slot") /\ ~first /\ recent /\ workers[w].interrupted
  /\ lock' = Free
  /\ workers' = [workers EXCEPT ![w].pc = "loop", ![w].interrupted = FALSE]
  /\ UNCHANGED <<tunnel, first, recent, sockets, stopped, main, up, shown>>

\* A RelayTunnel that something still refers to, or whose socket is not closed.
in_memory(t) ==
  \/ \E w \in Worker : workers[w].ref = t
  \/ ~forward /\ sockets[t] \in {"connecting", "open", "broken"}

Open(w) ==
  /\ At(w, "slot") /\ (first \/ ~recent)
  /\ \E t \in Tunnel : ~in_memory(t)
  /\ tunnel' = CHOOSE t \in Tunnel : ~in_memory(t)
  /\ sockets' = IF forward THEN sockets ELSE [sockets EXCEPT ![tunnel'] = "none"]
  /\ first' = FALSE
  /\ workers' = [workers EXCEPT ![w].pc = "opened", ![w].initial = first]
  /\ UNCHANGED <<recent, lock, stopped, main, up, shown>>

\* An exception nobody catches ends the worker; the locks are released.
crash(w) ==
  /\ workers' = go(w, "crashed")
  /\ lock' = IF lock = w THEN Free ELSE lock
  /\ UNCHANGED <<tunnel, first, recent, sockets, stopped, main, up, shown>>

\* connectTunnel() reads the field again, without "this" ...
Read(w) ==
  /\ At(w, "opened") /\ tunnel # None
  /\ workers' = return_with(w, "dial", tunnel)
  /\ UNCHANGED <<tunnel, first, recent, lock, sockets, stopped, main, up, shown>>

\* ... and connects what it has read.
Dial(w) ==
  /\ At(w, "dial")
  /\ sockets' = connecting(workers[w].ref)
  /\ workers' = go(w, "connecting")
  /\ UNCHANGED <<tunnel, first, recent, lock, stopped, main, up, shown>>

ConnectNull(w) == At(w, "opened") /\ tunnel = None /\ crash(w)

Connected(w) ==
  /\ At(w, "connecting") /\ up
  /\ LET s == slot(workers[w].ref)
     IN  sockets[s] # "closed" /\ sockets' = [sockets EXCEPT ![s] = "open"]
  /\ workers' = go(w, "connected")
  /\ UNCHANGED <<tunnel, first, recent, lock, stopped, main, up, shown>>

\* The tunnel that could not connect stays the current one.
ConnectFails(w) ==
  /\ At(w, "connecting") /\ (~up \/ sockets[slot(workers[w].ref)] = "closed")
  /\ sockets' \in failed(workers[w].ref)
  /\ recent' = TRUE
  /\ shown' = IF workers[w].initial THEN "disconnected" ELSE shown
  /\ lock' = Free
  /\ workers' = return_with(w, "loop", None)
  /\ UNCHANGED <<tunnel, first, stopped, main, up>>

Notify(w) ==
  /\ At(w, "connected")
  /\ shown' = "connected"
  /\ lock' = Free
  /\ workers' = go(w, "return")
  /\ UNCHANGED <<tunnel, first, recent, sockets, stopped, main, up>>

\* "return tunnel" reads the field once more, without any lock.
Return(w) ==
  /\ At(w, "return")
  /\ workers' = return_with(w, "use", tunnel)
  /\ UNCHANGED <<tunnel, first, recent, lock, sockets, stopped, main, up, shown>>

-----------------------------------------------------------------------------
(* PersistentRelayTunnel: send() and receive() *)

Loop(w) ==
  /\ At(w, "loop")
  /\ workers' = go(w, IF stopped THEN "ended" ELSE "enter")
  /\ UNCHANGED <<tunnel, first, recent, lock, sockets, stopped, main, up, shown>>

\* NullPointerException: no tunnel, or a tunnel without a socket.
UseNull(w) ==
  /\ At(w, "use")
  /\ workers[w].ref # None => sockets[slot(workers[w].ref)] = "none"
  /\ crash(w)

UseSucceeds(w) ==
  /\ At(w, "use") /\ workers[w].ref # None
  /\ sockets[slot(workers[w].ref)] \in {"open", "connecting"}
  /\ workers' = return_with(w, "loop", None)
  /\ UNCHANGED <<tunnel, first, recent, lock, sockets, stopped, main, up, shown>>

\* IOException, or the end of the stream.
UseFails(w) ==
  /\ At(w, "use") /\ workers[w].ref # None
  /\ sockets[slot(workers[w].ref)] \in {"connecting", "broken", "closed"}
  /\ workers' = go(w, "invalidate")
  /\ UNCHANGED <<tunnel, first, recent, lock, sockets, stopped, main, up, shown>>

\* Mutant of Invalidate: nothing is invalidated.
InvalidateNothing(w) ==
  /\ At(w, "invalidate")
  /\ workers' = return_with(w, "loop", None)
  /\ UNCHANGED <<tunnel, recent, sockets, shown, overtaken, first, lock, stopped, main, up>>

Invalidate(w) ==
  /\ At(w, "invalidate")
  /\ IF tunnel = workers[w].ref THEN invalidate
     ELSE UNCHANGED <<tunnel, recent, sockets, shown, overtaken>>
  /\ workers' = return_with(w, "loop", None)
  /\ UNCHANGED <<first, lock, stopped, main, up>>

-----------------------------------------------------------------------------
(* Forwarder.stop(), on the main thread *)

Stop ==
  /\ main = "running" /\ Stops
  /\ stopped' = TRUE /\ main' = "close"
  /\ UNCHANGED <<tunnel, first, recent, lock, sockets, workers, up, shown>>

CloseTunnel ==
  /\ main = "close"
  /\ IF tunnel # None THEN invalidate
     ELSE UNCHANGED <<tunnel, recent, sockets, shown, overtaken>>
  /\ main' = "cancel"
  /\ UNCHANGED <<first, lock, workers, stopped, up>>

Cancel ==
  /\ main = "cancel"
  /\ workers' = [w \in Worker |-> [workers[w] EXCEPT !.interrupted = TRUE]]
  /\ main' = "stopped"
  /\ UNCHANGED <<tunnel, first, recent, lock, sockets, stopped, up, shown>>

-----------------------------------------------------------------------------
(* The relay, and time *)

RelayLost ==
  /\ up
  /\ up' = FALSE
  /\ sockets' = [t \in Tunnel |-> IF sockets[t] = "open" THEN "broken" ELSE sockets[t]]
  /\ UNCHANGED <<tunnel, first, recent, lock, workers, stopped, main, shown>>

RelayBack ==
  /\ ~up
  /\ up' = TRUE
  /\ UNCHANGED <<tunnel, first, recent, lock, sockets, workers, stopped, main, shown>>

DelayOver ==
  /\ recent
  /\ recent' = FALSE
  /\ UNCHANGED <<tunnel, first, lock, sockets, workers, stopped, main, up, shown>>

Init ==
  /\ forward \in Modes
  /\ tunnel = None /\ first = TRUE /\ recent = FALSE /\ lock = Free
  /\ sockets = [t \in Tunnel |-> "none"]
  /\ workers = [w \in Worker |->
                  [pc |-> "loop", ref |-> None, initial |-> FALSE, interrupted |-> FALSE]]
  /\ stopped = FALSE /\ main = "running" /\ up = TRUE /\ shown = "nothing" /\ overtaken = {}

\* What a worker does when it is not waiting for somebody else.
Step(w) ==
  /\ UNCHANGED forward
  /\ \/ Invalidate(w)
     \/ /\ UNCHANGED overtaken
        /\ \/ Loop(w) \/ GetCurrent(w) \/ WaitSlot(w) \/ Interrupted(w) \/ Open(w) \/ Read(w)
           \/ Dial(w) \/ ConnectNull(w) \/ Connected(w) \/ ConnectFails(w) \/ Notify(w)
           \/ Return(w) \/ UseNull(w) \/ UseFails(w)

Next ==
  \/ \E w \in Worker : Step(w)
  \/ UNCHANGED forward /\ CloseTunnel
  \/ /\ UNCHANGED <<forward, overtaken>>
     /\ \/ \E w \in Worker : UseSucceeds(w)
        \/ Stop \/ Cancel \/ RelayLost \/ RelayBack \/ DelayOver

Spec == Init /\ [][Next]_vars

\* No thread stops for ever at a step it can take, waits end, and a monitor
\* that is free again and again is obtained in the end.
FairSpec ==
  Spec /\ WF_vars(DelayOver /\ UNCHANGED <<forward, overtaken>>) /\ \A w \in Worker : SF_vars(Step(w))

-----------------------------------------------------------------------------
\* Every socket that is not closed belongs to the current tunnel: whatever a worker
\* finds broken, and whenever it finds out, the relay never sees two connections of one
\* device, and no worker waits on a tunnel that the other one has given up
\* (getCurrentTunnel, invalidateTunnel).  The one exception is a tunnel that stop()
\* drops while a worker is about to connect it; no worker can do that to the other.
LiveIsCurrent ==
  /\ \A t \in Tunnel : sockets[t] \in {"connecting", "open", "broken"} =>
       \E x \in overtaken \cup ({tunnel} \ {None}) : t = slot(x)
  /\ overtaken # {} => stopped

\* Once the relay stays reachable, the device is connected again and again, as
\* long as no worker has died: no failed attempt leaves a tunnel behind that can
\* neither be used nor replaced.  (That it stays connected does not follow: the
\* value Return reads may be a tunnel that is still connecting, which the worker
\* then drops.)
Recovers ==
  <>[](up /\ ~stopped /\ \A w \in Worker : ~At(w, "crashed"))
    => []<>(\E t \in Tunnel : sockets[t] = "open")
=============================================================================
