---------------------------- MODULE RelayServer ----------------------------
(***************************************************************************)
(* relay-rust/src/relay/relay.rs: how the relay and the devices find each  *)
(* other.  In reverse mode the relay accepts the connections that come out *)
(* of the tunnels and labels each with a serial of the registry.  In       *)
(* forward mode it connects through the tunnel itself, again and again;    *)
(* time is counted in periods of 500 ms.                                   *)
(***************************************************************************)
EXTENDS AdbMonitor

CONSTANT
  ConnectTicks    \* periods connect_forward() insists for (40 in the code)

ASSUME RelayAssumption == ConnectTicks \in Nat

VARIABLES
  relay,    \* "off", "binding", "listening", "connecting", "session", "sleeping" or "ended"
  linked,   \* the connection of each device in reverse mode: none, or <<its label>>
  left,     \* periods until the deadline, or until the end of the sleep
  waited,   \* whether the body of the loop has taken 500 ms
  consecutive_probes,
  ages      \* history: periods since each of the last connections that adb closed at once,
            \* without a session or a wait for the rule in between; the latest is first

forwardVars == <<left, waited, consecutive_probes, ages>>
relayVars == <<relay, linked, forwardVars>>
hostVars == <<adbVars, q, commandVars, monVars>>

-----------------------------------------------------------------------------
(* Reverse mode *)

\* run_async(): the port may be taken.
Bind ==
  /\ relay = "binding"
  /\ \/ relay' = "listening" /\ UNCHANGED faults
     \/ relay' = "ended" /\ faults > 0 /\ faults' = faults - 1
  /\ UNCHANGED <<up, dev, client, q, commandVars, monVars, linked, forwardVars>>

reaching(d) == client[d].vpn /\ client[d].tunnel = "reverse"

\* A device whose client runs connects through its tunnel, and is given the oldest serial.
Accept(d) ==
  /\ relay = "listening" /\ reaching(d) /\ linked[d] = << >>
  /\ linked' = [linked EXCEPT ![d] = <<take_pending(q).label>>]
  /\ q' = take_pending(q).rest
  /\ UNCHANGED <<adbVars, commandVars, monVars, relay, forwardVars>>

\* The client stops, or its device leaves.
Disconnect(d) ==
  /\ linked[d] # << >> /\ ~reaching(d)
  /\ linked' = [linked EXCEPT ![d] = << >>]
  /\ UNCHANGED <<hostVars, relay, forwardVars>>

-----------------------------------------------------------------------------
(* Forward mode *)

forwarded == \E d \in Serial : client[d].tunnel = "forward"
answering == \E d \in Serial : client[d].tunnel = "forward" /\ client[d].vpn

\* Mutant of backoff: every retry is at the normal cadence.
backoff_none(probes) == 1

\* 500u64 << shift
backoff(probes) == 2 ^ probes

\* The end of the loop's body.  The probes are counted up to 3, more make no difference.
retry ==
  LET probes == IF consecutive_probes < 3 THEN consecutive_probes + 1 ELSE 3
  IN  /\ relay' = "sleeping"
      /\ consecutive_probes' = IF waited THEN 0 ELSE probes
      /\ left' = IF waited THEN 1 ELSE backoff(probes)

\* connect_forward() succeeds, since adb listens for the rule: the client answers, or adb
\* closes the connection.
Connected ==
  /\ relay = "connecting" /\ forwarded
  /\ \/ answering /\ relay' = "session" /\ ages' = << >>
        /\ UNCHANGED <<left, consecutive_probes>>
     \/ ~answering /\ retry /\ ages' = <<0>> \o ages
  /\ UNCHANGED <<hostVars, linked, waited>>

SessionEnds ==
  /\ relay = "session" /\ ~answering
  /\ retry
  /\ UNCHANGED <<hostVars, linked, waited, ages>>

\* connect_forward() gives up at the deadline, and run_forward() with it.
TimedOut ==
  /\ relay = "connecting" /\ ~forwarded /\ left = 0
  /\ relay' = "ended"
  /\ UNCHANGED <<hostVars, linked, forwardVars>>

StormTicks == 16    \* 8 s

\* Those of the last 8 s.
recent(s) ==
  LET old == {i \in DOMAIN s : s[i] > StormTicks}
  IN  IF old = {} THEN s ELSE SubSeq(s, 1, Min(old) - 1)

\* 500 ms pass, asleep, in a session or before the next attempt to connect.
Tick ==
  /\ relay \in {"connecting", "session", "sleeping"}
  /\ relay = "connecting" => ~forwarded /\ left > 0
  /\ relay = "session" => answering
  /\ IF relay = "sleeping" /\ left = 1
     THEN relay' = "connecting" /\ left' = ConnectTicks /\ waited' = FALSE
     ELSE /\ left' = IF relay = "session" THEN left ELSE left - 1
          /\ waited' = TRUE
          /\ UNCHANGED relay
  /\ ages' = IF relay = "connecting" THEN << >> ELSE recent([i \in DOMAIN ages |-> ages[i] + 1])
  /\ UNCHANGED <<hostVars, linked, consecutive_probes>>

Relay ==
  \/ Bind \/ Connected \/ SessionEnds \/ TimedOut \/ Tick
  \/ \E d \in Serial : Accept(d) \/ Disconnect(d)
=============================================================================
