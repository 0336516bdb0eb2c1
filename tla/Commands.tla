------------------------------ MODULE Commands ------------------------------
(***************************************************************************)
(* relay-rust/src/commands.rs and cli.rs: a command of gnirehtet that acts *)
(* on a device is a sequence of adb calls which ends at the first one that *)
(* fails.  Any number of them run at once: async_start() gives each its    *)
(* thread, and the user may run others from another terminal, in processes *)
(* whose serial registry is not that of the relay.                         *)
(***************************************************************************)
EXTENDS Adb, SerialRegistry

VARIABLES
  threads,   \* the commands started, in order; one that has ended is Ended
  spoiled    \* history: the devices whose last start was ended by a failure of adb

commandVars == <<threads, spoiled>>

-----------------------------------------------------------------------------
(* The commands *)

\* cmd_start()
start_steps == <<"check", "grant", "register", "tunnel", "launch">>

\* Commands::execute()
execute(cmd) ==
  CASE cmd = "install"   -> <<"install">>
    [] cmd = "uninstall" -> <<"uninstall">>
    [] cmd = "reinstall" -> <<"uninstall", "install">>
    [] cmd = "stop"      -> <<"stop">>
    [] cmd = "tunnel"    -> <<"tunnel">>
    [] cmd = "start"     -> start_steps
    [] cmd = "restart"   -> <<"stop">> \o start_steps

Ended == [serial |-> None, todo |-> << >>, sdk |-> 0, transport |-> None, ssid |-> None, local |-> TRUE]

thread(serial, cmd, transport, ssid, local) ==
  [serial |-> serial, todo |-> execute(cmd), sdk |-> 0, transport |-> transport,
   ssid |-> ssid, local |-> local]

\* async_start(): in a thread of the relay's process.
async_start(serial, transport, ssid) ==
  /\ threads' = Append(threads, thread(serial, "start", transport, ssid, TRUE))
  /\ spoiled' = spoiled \ {serial}

-----------------------------------------------------------------------------
(* Their steps *)

\* "adb reverse" came with API 21; what is not installed cannot be removed, stopped
\* or started.
possible(t, d) ==
  CASE Head(t.todo) = "tunnel" -> t.transport = "forward" \/ Sdk[d] >= 21
    [] Head(t.todo) \in {"uninstall", "stop", "launch"} -> client[d].version # "none"
    [] OTHER -> TRUE

effects(t, d) ==
  CASE Head(t.todo) = "check"     -> {client[d]}
    [] Head(t.todo) = "install"   -> cmd_install(client[d])
    [] Head(t.todo) = "uninstall" -> {uninstalled(client[d])}
    [] Head(t.todo) = "grant"     -> {grant_permissions(client[d], Sdk[d])}
    [] Head(t.todo) = "tunnel"    -> {cmd_tunnel(client[d], t.transport)}
    [] Head(t.todo) = "launch"    -> launched(client[d], t.sdk, t.ssid)
    [] OTHER                      -> {cmd_stop(client[d])}    \* "stop"

\* What a call that fails has done before: the rule is removed before it is added, and
\* portal detection is off before the START intent.
leavings(t, d) ==
  CASE Head(t.todo) = "install" -> cmd_install_fails(client[d])
    [] Head(t.todo) = "tunnel" /\ t.transport = "forward" -> {disconnected(client[d])}
    [] Head(t.todo) = "launch" -> {client[d], without_portal(client[d], t.sdk)}
    [] OTHER -> {client[d]}

after(t, todo) == IF todo = << >> THEN Ended ELSE [t EXCEPT !.todo = todo]

proceed(t, d) ==
  CASE Head(t.todo) = "check" /\ must_install_client(client[d]) ->
         after(t, <<"install">> \o Tail(t.todo))
    [] Head(t.todo) = "grant" -> after([t EXCEPT !.sdk = Sdk[d]], Tail(t.todo))
    [] OTHER -> after(t, Tail(t.todo))

\* The failures of "grant" are only logged.
abort(t) == IF Head(t.todo) = "grant" THEN after(t, Tail(t.todo)) ELSE Ended

calling(i) == threads[i].todo # << >> /\ Head(threads[i].todo) # "register"

\* The next call of a command, on its device.
Call(i) ==
  /\ calling(i)
  /\ \E d \in target(threads[i].serial) :
        /\ possible(threads[i], d)
        /\ \E c \in effects(threads[i], d) : client' = [client EXCEPT ![d] = c]
        /\ threads' = [threads EXCEPT ![i] = proceed(threads[i], d)]
  /\ UNCHANGED <<up, dev, faults, q, spoiled>>

\* The call fails, for want of a device or of what it needs there.
CallRefused(i) ==
  /\ calling(i)
  /\ \A d \in target(threads[i].serial) : ~possible(threads[i], d)
  /\ \/ target(threads[i].serial) = {} /\ UNCHANGED client
     \/ \E d \in target(threads[i].serial) : \E c \in leavings(threads[i], d) :
           client' = [client EXCEPT ![d] = c]
  /\ threads' = [threads EXCEPT ![i] = abort(threads[i])]
  /\ up' = TRUE
  /\ UNCHANGED <<dev, faults, q, spoiled>>

\* The call fails although the device is there.
CallFails(i) ==
  /\ calling(i) /\ faults > 0
  /\ \E d \in target(threads[i].serial) :
        /\ \E c \in leavings(threads[i], d) : client' = [client EXCEPT ![d] = c]
        /\ spoiled' = spoiled \cup {d}
  /\ threads' = [threads EXCEPT ![i] = abort(threads[i])]
  /\ faults' = faults - 1
  /\ UNCHANGED <<up, dev, q>>

\* effective_serial(): the device named, or the only one that adb lists.
effective_serial(serial) ==
  IF serial # None THEN {serial} ELSE IF Cardinality(Ready) = 1 THEN Ready ELSE {}

\* register_pending() of a start, in the registry of its own process.  When no device is
\* named, "adb devices" may fail, and nothing is registered.
Register(i) ==
  /\ threads[i].todo # << >> /\ Head(threads[i].todo) = "register"
  /\ LET serials == effective_serial(threads[i].serial)
     IN  \/ /\ threads[i].local
            /\ \E s \in serials : q' = register_pending(q, s)
            /\ UNCHANGED faults
         \/ /\ ~threads[i].local \/ serials = {}
            /\ UNCHANGED <<q, faults>>
         \/ /\ threads[i].serial = None
            /\ faults > 0 /\ faults' = faults - 1
            /\ UNCHANGED q
  /\ threads' = [threads EXCEPT ![i] = after(threads[i], Tail(threads[i].todo))]
  /\ UNCHANGED <<up, dev, client, spoiled>>

Step(i) == Call(i) \/ CallRefused(i) \/ CallFails(i) \/ Register(i)
=============================================================================
