-------------------------------- MODULE Adb --------------------------------
(***************************************************************************)
(* The adb server, the devices it sees and the gnirehtet client on each of *)
(* them, as the host's commands see and change them: relay-rust/src/adb.rs *)
(* and the adb commands of commands.rs and transport.rs.  adb itself and   *)
(* Android are external.  An adb command starts the server if it is not    *)
(* running, and it may fail for a reason of its own at any time.           *)
(***************************************************************************)
EXTENDS Naturals, Sequences, FiniteSets

CONSTANTS
  Serial,   \* the devices, by their serials
  Sdk,      \* the API level of each device
  None      \* an absent option, of any type

ASSUME AdbAssumption == Sdk \in [Serial -> Nat] /\ None \notin Serial /\ IsFiniteSet(Serial)

VARIABLES
  up,       \* whether the adb server runs
  dev,      \* state of each device for the server: "absent", "unauthorized" or "device"
  client,   \* what is on each device
  faults    \* bound: the failures still to come, of adb and of the host

adbVars == <<up, dev, client, faults>>

Ready == {d \in Serial : dev[d] = "device"}
Present == {d \in Serial : dev[d] # "absent"}

\* create_adb_args(): without -s, adb wants exactly one device.
target(serial) ==
  IF serial # None THEN Ready \cap {serial}
  ELSE IF Cardinality(Present) = 1 THEN Ready ELSE {}

-----------------------------------------------------------------------------
(* What each adb command does to the client of a device *)

\* must_install_client(): the version in the package manager is not this one's.
must_install_client(c) == c.version # "2603"

uninstalled(c) == [c EXCEPT !.version = "none", !.granted = FALSE, !.vpn = FALSE]

\* cmd_install(): install -r, and if it fails uninstall and install again.
cmd_install(c) ==
  {[x EXCEPT !.version = "2603", !.vpn = FALSE] : x \in {c, uninstalled(c)}}

\* What the same sequence leaves when the second install fails too.
cmd_install_fails(c) == {c, uninstalled(c)}

\* grant_runtime_permissions(), grant_vpn_permission(): there is no appops below API 23.
grant_permissions(c, sdk) == IF sdk >= 23 THEN [c EXCEPT !.granted = TRUE] ELSE c

\* cmd_tunnel(): "reverse" and "forward" rules live in the connection to the device.
cmd_tunnel(c, transport) == [c EXCEPT !.tunnel = transport]

\* Portal detection is turned off, if the API level is known, and never on again.
without_portal(c, sdk) == [c EXCEPT !.portal = @ /\ sdk < 19]

\* The last calls of cmd_start(): portal detection off, and the START intent, which
\* shows a dialog to the user when the VPN is not authorised.
launched(c, sdk, ssid) ==
  LET asked == [without_portal(c, sdk) EXCEPT !.ssid = ssid]
  IN  IF c.granted THEN {[asked EXCEPT !.vpn = TRUE]}
      ELSE {asked, [asked EXCEPT !.vpn = TRUE, !.granted = TRUE]}

cmd_stop(c) == [c EXCEPT !.vpn = FALSE]

\* resolve(): the answers of a preference, given that the query may fail.
resolve(preference, serial) ==
  IF preference # "auto" THEN {preference}
  ELSE {"reverse"} \cup {"forward" : d \in {e \in target(serial) : Sdk[e] < 21}}

\* A device that leaves takes its tunnel with it; the client goes on.
disconnected(c) == [c EXCEPT !.tunnel = "none"]
=============================================================================
