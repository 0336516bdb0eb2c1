------------------------------- MODULE MCHost -------------------------------
(* Small instances of Host.                                                *)
EXTENDS Host, TLC

MCPids == <<"p1", "p2">>
MCInterfaces == <<"w0", "w1">>
MCSdk == [d \in Serial |-> IF d = "kitkat" THEN 19 ELSE 23]
MCHexa == ("0" :> 0) @@ ("2" :> 2) @@ ("4" :> 4) @@ ("6" :> 6)
MCSsidOf == ("home" :> "home") @@ ("work 1" :> "work")
MCAir == {[ssid |-> "home", signal |-> 3, open |-> TRUE],
          [ssid |-> "work", signal |-> 1, open |-> TRUE],
          [ssid |-> "cafe", signal |-> 2, open |-> TRUE],
          [ssid |-> "gnirehtet-1", signal |-> 4, open |-> TRUE]}

Gone == [d \in Serial |-> "absent"]
Only(d) == [Gone EXCEPT ![d] = "device"]
NoWifi == [ssid |-> None, interface |-> None, force |-> FALSE, tty |-> FALSE]
Idle == {[i \in {"w0", "w1"} |-> None]}

Base == [cmd |-> "run", transport |-> "auto", serial |-> None, wifi |-> FALSE, kill |-> FALSE,
         interrupt |-> FALSE, leave |-> FALSE, others |-> 0, chunks |-> FALSE, slow |-> FALSE, plugs |-> 0, faults |-> 0,
         devices |-> {"4", "s"}, dev |-> Gone, version |-> "2603",
         active |-> Idle, asked |-> {NoWifi}]

\* Devices come and go, and the adb server ends, under autorun.
Autorun == [Base EXCEPT !.cmd = "autorun", !.leave = TRUE, !.chunks = TRUE,
         !.devices = {"4"}, !.plugs = 2, !.faults = 1]

\* Ctrl+C, with devices at various stages.
Stopped == [Base EXCEPT !.cmd = "autorun", !.interrupt = TRUE, !.dev = Only("4"), !.plugs = 1, !.leave = TRUE]

\* Two devices, one of which takes longer than the window of the registry.
Slow == [Base EXCEPT !.cmd = "autorun", !.dev = Only("4"), !.plugs = 1, !.slow = TRUE,
         !.interrupt = TRUE, !.faults = 1]

\* The hotspot, without a device; the relay is killed and run again.
WithWifi == [Base EXCEPT !.wifi = TRUE, !.kill = TRUE,
         !.interrupt = TRUE,
         !.active = [{"w0", "w1"} -> {"home", "work 1", "coming up", None}],
         !.asked = {NoWifi, [NoWifi EXCEPT !.tty = TRUE], [NoWifi EXCEPT !.force = TRUE],
                    [NoWifi EXCEPT !.ssid = "cafe", !.tty = TRUE, !.force = TRUE],
                    [NoWifi EXCEPT !.interface = "w1"]}]

\* A KitKat device, which the relay connects to.
Forward == [Base EXCEPT !.serial = "kitkat", !.dev = Only("kitkat"), !.leave = TRUE,
         !.interrupt = TRUE, !.version = "old", !.faults = 1]

\* One device, which the command line does not name, and another that comes later.
Unnamed == [Base EXCEPT !.dev = Only("4"), !.plugs = 1, !.interrupt = TRUE, !.faults = 1]

\* The relay alone, and the other commands in another terminal.
RelayOnly == [Base EXCEPT !.cmd = "relay", !.transport = "reverse", !.dev = Only("4"),
         !.devices = {"4"}, !.others = 2, !.version = "none", !.faults = 1]

\* The clients alone, for a relay elsewhere; the process is killed and run again.
Autostart == [Base EXCEPT !.cmd = "autostart", !.transport = "reverse", !.kill = TRUE,
         !.dev = Only("4"), !.plugs = 1]

MCPlans == {Autorun, Autostart, Stopped, Slow, WithWifi, Forward, Unnamed, RelayOnly}
=============================================================================
