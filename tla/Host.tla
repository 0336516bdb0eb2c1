-------------------------------- MODULE Host --------------------------------
(***************************************************************************)
(* A run of gnirehtet on the host: cmd_run(), cmd_autorun(),               *)
(* cmd_autostart() and cmd_relay() of commands.rs.  The process sets up    *)
(* the dummy Wi-Fi, then runs the relay, the start of one client or the    *)
(* monitor that starts one on every device, each in a thread; Ctrl+C stops *)
(* the clients and takes the Wi-Fi down.  It may be killed at any time,    *)
(* and run again.                                                          *)
(***************************************************************************)
EXTENDS RelayServer, Hotspot

CONSTANTS
  Plans,       \* the command lines and surroundings followed, as records
  MaxThreads   \* bound on the commands started

\* At first every interface has a connection of the user's or none.
ASSUME PlansAssumption ==
  \A p \in Plans :
     /\ "transport" \in DOMAIN p /\ p.dev \in [Serial -> {"absent", "unauthorized", "device"}]
     /\ \A a \in p.active : a \in [ToSet(Interfaces) -> UserProfiles \cup Unsettled \cup {Nothing}]

VARIABLES
  main,      \* where the main thread is
  plan,      \* the command line, with the budgets of plugs and of faults
  plugs,     \* bound: how often a device may still come
  to_stop,   \* the devices stop_all_connected_devices() has still to stop
  late       \* history: devices not to be stopped, or with news after the list was made

mainVars == <<main, plan, plugs, to_stop, late>>
allVars == <<hostVars, relayVars, wifiVars, mainVars>>

\* A process that is gone takes its threads, the registry and its connections with it.
process_ends ==
  /\ threads' = [i \in DOMAIN threads |-> IF threads[i].local THEN Ended ELSE threads[i]]
  /\ q' = << >> /\ mon' = "off"
  /\ relay' = "off" /\ linked' = [d \in Serial |-> << >>]
  /\ stream' = << >> /\ open' = FALSE /\ bytes' = << >> /\ lists' = << >>
  /\ connected_devices' = << >>
  /\ left' = 0 /\ waited' = FALSE /\ consecutive_probes' = 0 /\ ages' = << >>

-----------------------------------------------------------------------------
(* Starting *)

\* The first steps of the command: the transport, which autorun wants to be "reverse".
Begin ==
  /\ main = "begin"
  /\ \E transport \in resolve(plan.transport, plan.serial) :
        IF plan.cmd = "autorun" /\ transport = "forward"
        THEN main' = "exited" /\ late' = Serial /\ UNCHANGED plan
        ELSE /\ plan' = [plan EXCEPT !.transport = transport]
             /\ main' = IF plan.wifi THEN "wifi" ELSE "launch"
             /\ UNCHANGED late
  /\ UNCHANGED <<hostVars, relayVars, wifiVars, plugs, to_stop>>

SetUpWifi ==
  /\ main = "wifi" /\ setup_dummy_wifi
  /\ main' = IF pc' = "done" THEN "launch" ELSE "wifi"
  /\ UNCHANGED <<hostVars, relayVars, plan, plugs, to_stop, late>>

\* The threads of the command; cmd_relay() starts no client, and
\* cmd_autostart() no relay.
Launch ==
  /\ main = "launch" /\ main' = "running"
  /\ IF plan.cmd = "run" THEN async_start(plan.serial, plan.transport, told)
     ELSE UNCHANGED commandVars
  /\ mon' = IF plan.cmd \in {"autorun", "autostart"} THEN "connect" ELSE "off"
  /\ relay' = CASE plan.cmd = "autostart" -> "off"
                [] plan.transport = "reverse" -> "binding"
                [] OTHER -> "connecting"
  /\ left' = ConnectTicks
  /\ UNCHANGED <<adbVars, q, streamVars, connected_devices, torn, missed, linked,
                 waited, consecutive_probes, ages, wifiVars, plan, plugs, to_stop, late>>

-----------------------------------------------------------------------------
(* Ending *)

\* Mutant of Interrupt: autorun is as run, and stops only the device it was given.
InterruptOne ==
  /\ main = "running" /\ plan.interrupt
  /\ to_stop' = effective_serial(plan.serial)
  /\ late' = Serial \ Ready
  /\ main' = "stopping"
  /\ UNCHANGED <<hostVars, relayVars, wifiVars, plan, plugs>>

\* Ctrl+C: run stops its device, autorun every device that adb lists, if it does; relay
\* does not wait for it.
Interrupt ==
  /\ main = "running" /\ plan.interrupt
  /\ \/ to_stop' = (IF plan.cmd = "run" THEN target(plan.serial) ELSE Ready)
        /\ late' = Serial \ to_stop' /\ UNCHANGED faults
     \/ /\ plan.cmd = "autorun" /\ faults > 0 /\ faults' = faults - 1
        /\ to_stop' = {} /\ late' = Serial
  /\ main' = "stopping"
  /\ UNCHANGED <<up, dev, client, q, commandVars, monVars, relayVars, wifiVars, plan, plugs>>

\* cmd_stop() of one device; a failure is logged.
StopClient(d) ==
  /\ main = "stopping" /\ d \in to_stop
  /\ to_stop' = to_stop \ {d}
  /\ \/ /\ d \in Ready /\ client[d].version # "none"
        /\ client' = [client EXCEPT ![d] = cmd_stop(@)]
        /\ UNCHANGED <<faults, late>>
     \/ /\ d \notin Ready \/ client[d].version = "none"
        /\ UNCHANGED <<client, faults, late>>
     \/ /\ faults > 0 /\ faults' = faults - 1
        /\ late' = late \cup {d}
        /\ UNCHANGED client
  /\ UNCHANGED <<up, dev, q, commandVars, monVars, relayVars, wifiVars, main, plan, plugs>>

\* The relay's thread has ended: no client is stopped.
RelayEnded ==
  /\ main = "running" /\ relay = "ended"
  /\ main' = "teardown" /\ late' = Serial
  /\ UNCHANGED <<hostVars, relayVars, wifiVars, plan, plugs, to_stop>>

\* The teardown, and std::process::exit().
Exit ==
  /\ main = "teardown" \/ (main = "stopping" /\ to_stop = {})
  /\ main' = "exited"
  /\ stop /\ process_ends
  /\ UNCHANGED <<adbVars, spoiled, torn, missed,
                 runs, asked, pc, iface, ssid, told, plan, plugs, to_stop, late>>

\* The process is killed: a signal, or Ctrl+C where nothing waits for it.
Kill ==
  /\ main \in {"wifi", "running", "stopping", "teardown"} /\ plan.kill
  /\ main' = "killed" /\ hotspot' = FALSE
  /\ process_ends
  /\ UNCHANGED <<adbVars, spoiled, torn, missed, runs, profiles, active,
                 asked, pc, iface, ssid, told, excuse, plan, plugs, to_stop, late>>

\* The user runs the command again.
Again ==
  /\ main \in {"exited", "killed"} /\ runs < Len(Pids) /\ plan.kill
  /\ runs' = runs + 1 /\ main' = "begin"
  /\ pc' = "select" /\ told' = Nothing /\ excuse' = excuse \cap {"failed"}
  /\ UNCHANGED <<adbVars, q, commandVars, monVars, relayVars, profiles, active, asked, iface, ssid, hotspot,
                 plan, plugs, to_stop, late>>

-----------------------------------------------------------------------------
(* Everything else *)

\* The other commands, from another terminal.
OtherCommand(cmd, d) ==
  /\ Len(threads) < plan.others
  /\ \E transport \in resolve("auto", d) :
        threads' = Append(threads, thread(d, cmd, transport, None, FALSE))
  /\ UNCHANGED <<adbVars, q, spoiled, monVars, relayVars, wifiVars, mainVars>>

\* What happens after Ctrl+C is unknown to the process.
noted(devices) == late' = IF main \in {"stopping", "exited"} THEN late \cup devices ELSE late

ThreadStep(i) ==
  /\ i \in DOMAIN threads /\ Step(i)
  /\ noted({d \in Serial : client'[d].vpn /\ ~client[d].vpn})
  /\ UNCHANGED <<monVars, relayVars, wifiVars, main, plan, plugs, to_stop>>

DeviceComes(d) ==
  /\ d \in plan.devices /\ plugs > 0 /\ plugs' = plugs - 1
  /\ Plug(d) /\ noted({d})
  /\ UNCHANGED <<relayVars, wifiVars, main, plan, to_stop>>

DeviceLeaves(d) ==
  /\ plan.leave /\ Unplug(d)
  /\ UNCHANGED <<relayVars, wifiVars, mainVars>>

AdbDies ==
  /\ plan.leave
  /\ \E n \in 0..Len(stream) : ServerDies(n)
  /\ UNCHANGED <<relayVars, wifiVars, mainVars>>

MonitorStep ==
  /\ \/ Monitor(told)
     \/ \E n \in 1..Len(stream) :
           read_from(n) /\ (plan.chunks \/ n = Len(stream) \/ Len(bytes) + n = BUFFER_SIZE)
  /\ UNCHANGED <<relayVars, wifiVars, mainVars>>

RelayStep ==
  /\ Relay
  /\ UNCHANGED <<wifiVars, mainVars>>

TimePasses ==
  /\ plan.slow /\ Ages
  /\ UNCHANGED <<adbVars, commandVars, monVars, relayVars, wifiVars, mainVars>>

-----------------------------------------------------------------------------
HostInit ==
  /\ plan \in Plans
  /\ main = "begin" /\ plugs = plan.plugs /\ to_stop = {} /\ late = {}
  /\ up = TRUE /\ dev = plan.dev /\ faults = plan.faults
  /\ client = [d \in Serial |->
       [version |-> plan.version, granted |-> FALSE, tunnel |-> "none", vpn |-> FALSE,
        portal |-> TRUE, ssid |-> None]]
  /\ q = << >> /\ threads = << >> /\ spoiled = {}
  /\ mon = "off" /\ stream = << >> /\ open = FALSE /\ bytes = << >> /\ lists = << >>
  /\ connected_devices = << >> /\ torn = FALSE /\ missed = {}
  /\ relay = "off" /\ linked = [d \in Serial |-> << >>]
  /\ left = 0 /\ waited = FALSE /\ consecutive_probes = 0 /\ ages = << >>
  /\ runs = 1 /\ profiles = {} /\ excuse = {} /\ hotspot = FALSE /\ told = Nothing
  /\ active \in plan.active
  /\ asked \in plan.asked
  /\ pc = "select" /\ iface = Nothing /\ ssid = Nothing

HostNext ==
  \/ Begin \/ SetUpWifi \/ Launch
  \/ Interrupt \/ RelayEnded \/ Exit \/ Kill \/ Again
  \/ \E d \in Serial : StopClient(d) \/ DeviceComes(d) \/ DeviceLeaves(d)
  \/ \E d \in plan.devices, cmd \in {"install", "uninstall", "reinstall", "stop", "tunnel", "start", "restart"} :
        OtherCommand(cmd, d)
  \/ \E i \in 1..MaxThreads : ThreadStep(i)
  \/ AdbDies \/ MonitorStep \/ RelayStep \/ TimePasses

\* The commands and the monitor go on as long as they can: each is a thread of its own.
HostSpec ==
  /\ HostInit /\ [][HostNext]_allVars
  /\ WF_allVars(MonitorStep)
  /\ \A i \in 1..MaxThreads : WF_allVars(ThreadStep(i))

-----------------------------------------------------------------------------
(* Properties *)

\* However the reads cut the stream, what the monitor has still to read is exactly the
\* lists the server sent and it has not handled: none is split, joined or skipped by
\* read_packet(), unless a connection ended within one, which reconnecting does not repair.
ListsWhole ==
  mon = "track" /\ ~torn =>
     IF open THEN bytes \o stream = FlattenSeq(lists) ELSE bytes \o stream \in wholes

\* The client is there, or waits for the user to authorise the VPN.
served(d) == client[d].tunnel = "reverse" /\ (client[d].vpn \/ ~client[d].granted)

\* "Start a client on every detected device" (cli.rs): under autorun and autostart, a device that stays
\* has its tunnel and its client in the end, whatever came and went before, over ends of
\* the adb server and its repair.  Not so after a torn list, for a device the monitor
\* knew and that came back while it was not connected, and after a start that adb failed.
EveryDeviceStarted ==
  \A d \in Serial \ OverTcp :
     <>[](plan.cmd \in {"autorun", "autostart"} /\ main = "running" /\ dev[d] = "device" /\ Sdk[d] >= 21
           /\ ~torn /\ d \notin missed \cup spoiled => served(d))

\* run_forward(): "a storm of ~10-16 probe connections during the 5-8 seconds that KitKat
\* typically takes" is avoided: while the rule of "adb forward" stays, at most 5 connections
\* are closed at once within 8 s, also when the first of them was not counted as a probe.
NoProbeStorm == Len(ages) <= 5

\* setup_dummy_wifi(): a connection of the host's own Wi-Fi that is up is taken over only on
\* an explicit interface, by force, with the user's consent, or when nmcli could not list
\* the interfaces.
UsersWifiKept ==
  "dropped" \in excuse => excuse \cap {"explicit", "forced", "confirmed", "unlisted"} # {}

\* After an orderly exit nothing of a hotspot is up, be it this run's or that of a run
\* that was killed before, unless nmcli failed or did not list the interfaces.
NoHotspotLeft ==
  main = "exited" /\ plan.wifi /\ excuse \cap {"failed", "unlisted"} = {} =>
     /\ \A i \in DOMAIN active : active[i] \notin ToSet(Pids)
     /\ pid \notin pids

\* The SSID the client is told to prefer is on the air: that of the relay's hotspot, which
\* nobody else in range uses when it was generated from a scan; or an open network that
\* is neither a relay's nor the one the interface is on, when its profile has its name.
SsidReachable ==
  told # Nothing /\ main \in {"launch", "running"} =>
     \/ /\ hotspot /\ active[iface] = pid /\ [pid |-> pid, ssid |-> told] \in profiles
        /\ told \notin {ap.ssid : ap \in Air} \/ asked.ssid # Nothing \/ "unscanned" \in excuse
     \/ /\ ~hotspot /\ told \in {ap.ssid : ap \in open_aps} \ Ours
        /\ SsidOf[active[iface]] = active[iface] => told # active[iface]

\* Ctrl+C: when the process has gone no client runs on a device that is there and is its to
\* stop (that of run, all of autorun), except where a command failed, or where a device or
\* the START of a thread came after the devices were listed.
StoppedOnExit ==
  main = "exited" => \A d \in Ready : client[d].vpn => d \in late
=============================================================================
