------------------------------ MODULE Hotspot ------------------------------
(***************************************************************************)
(* The dummy Wi-Fi network of the host: setup_dummy_wifi() of commands.rs, *)
(* wifi.rs and the Linux part of hotspot.rs.  NetworkManager, the networks *)
(* in range and the user at the terminal are external.  Each nmcli command *)
(* may fail, and the relay may be killed between any two.                  *)
(***************************************************************************)
EXTENDS Naturals, Sequences, SequencesExt

CONSTANTS
  Interfaces,   \* the Wi-Fi interfaces, in the order of nmcli
  Air,          \* the networks in range, as records [ssid, signal, open]
  Ours,         \* the SSIDs that start with "gnirehtet-"
  BaseSsid,     \* the one derived from the host's name
  SsidOf,       \* the SSID of each connection profile of the user
  Unsettled,    \* the user's connections that do not make an interface taken: those on
                \* their way up or down, and those named as a relay's
  Pids,         \* the processes of the relay, in the order they are run
  Nothing       \* an absent option, or no connection

UserProfiles == DOMAIN SsidOf

ASSUME HotspotAssumption ==
  /\ BaseSsid \in Ours
  /\ Nothing \notin UserProfiles /\ UserProfiles \cap Ours = {}
  /\ Nothing \notin Unsettled /\ Unsettled \cap (UserProfiles \cup ToSet(Pids)) = {}
  /\ Pids \in Seq(ToSet(Pids)) /\ Pids # << >>
  /\ ToSet(Pids) \cap UserProfiles = {} /\ Nothing \notin ToSet(Pids)
  /\ \A i, j \in DOMAIN Pids : Pids[i] = Pids[j] => i = j

VARIABLES
  runs,      \* how many times the relay was run
  profiles,  \* the profiles gnirehtet-dummy-*, as records [pid, ssid]
  active,    \* the connection of each interface: one of the user's, a pid or Nothing
  asked,     \* the options: [ssid, interface, force, tty]
  pc,        \* where setup_dummy_wifi() is
  iface,     \* the interface it selected
  ssid,      \* the SSID of the profile it makes
  hotspot,   \* whether the hotspot is up for the relay
  told,      \* ssid_for_client
  excuse     \* history: why the user's connection may be dropped in this run, and that nmcli failed

wifiVars == <<runs, profiles, active, asked, pc, iface, ssid, hotspot, told, excuse>>

\* The process of the relay; its profile is named gnirehtet-dummy-<pid>.
pid == Pids[runs]

\* One exit of setup_dummy_wifi(): no hotspot, and the SSID of an existing network or none.
without_hotspot(name) ==
  /\ pc' = "done" /\ told' = name
  /\ UNCHANGED <<profiles, active, iface, ssid, hotspot>>

use(i, next) ==
  /\ iface' = i /\ pc' = next
  /\ UNCHANGED <<profiles, active, ssid, hotspot, told>>

-----------------------------------------------------------------------------
(* commands.rs, wifi.rs: which interface, or which network *)

\* Mutant of is_free: the interface of another network is free too.
is_always_free(i) == TRUE

\* is_free(): in any state of nmcli's but "connected", or connected to a network named as
\* a relay's, which an earlier one may have left.
is_free(i) == active[i] \notin UserProfiles

first_free(k) == is_free(Interfaces[k]) /\ \A j \in 1 .. (k - 1) : ~is_free(Interfaces[j])

\* setup_dummy_wifi(), list_wifi_interfaces() and select_interface_for_hotspot().  When
\* nmcli cannot list the interfaces, Hotspot::start() takes the first it finds.
select_interface ==
  /\ pc = "select"
  /\ \/ /\ asked.interface # Nothing
        /\ use(asked.interface, "cleanup")
        /\ excuse' = excuse \cup {"explicit"}
     \/ /\ asked.interface = Nothing
        /\ \/ Interfaces = << >> /\ without_hotspot(Nothing)
           \/ \E k \in DOMAIN Interfaces : first_free(k) /\ use(Interfaces[k], "cleanup")
           \/ /\ Interfaces # << >> /\ \A k \in DOMAIN Interfaces : ~is_free(Interfaces[k])
              /\ use(Head(Interfaces), "scan")
        /\ UNCHANGED excuse
     \/ /\ asked.interface = Nothing
        /\ IF Interfaces = << >> THEN without_hotspot(Nothing)
           ELSE without_hotspot(Nothing) \/ use(Head(Interfaces), "cleanup")
        /\ excuse' = excuse \cup {"unlisted"}
  /\ UNCHANGED <<runs, asked>>

\* scan_open_aps()
open_aps == {ap \in Air : ap.open}

\* Mutant of reusable: networks of other relays are offered too.
reusable_ours == {ap \in open_aps : ap.ssid # active[iface]}

\* Those that are neither the network of the interface, by the name of its profile, nor
\* one of a relay.
reusable == {ap \in open_aps : ap.ssid # active[iface] /\ ap.ssid \notin Ours}

\* The first of those sorted by their signal.
strongest(aps) == {ap \in aps : \A other \in aps : other.signal <= ap.signal}

\* The answers of offer_open_ap(): without a terminal, the strongest network.
offered(aps) ==
  IF aps = {} THEN {Nothing}
  ELSE IF asked.tty THEN {ap.ssid : ap \in aps} \cup {Nothing}
  ELSE {ap.ssid : ap \in strongest(aps)}

\* The rest of setup_dummy_wifi(), when every interface is taken.
take_over ==
  /\ pc = "scan"
  /\ \E aps \in {reusable, {}} :
        IF \E ap \in aps : ap.ssid = asked.ssid
        THEN without_hotspot(asked.ssid) /\ UNCHANGED excuse
        ELSE \E choice \in offered(aps) :
               \/ choice # Nothing /\ without_hotspot(choice) /\ UNCHANGED excuse
               \/ /\ choice = Nothing /\ asked.force
                  /\ use(iface, "cleanup") /\ excuse' = excuse \cup {"forced"}
               \/ /\ choice = Nothing /\ ~asked.force /\ asked.tty
                  /\ use(iface, "cleanup") /\ excuse' = excuse \cup {"confirmed"}
               \/ /\ choice = Nothing /\ ~asked.force
                  /\ without_hotspot(Nothing) /\ UNCHANGED excuse
  /\ UNCHANGED <<runs, asked>>

-----------------------------------------------------------------------------
(* hotspot.rs: Hotspot::start() *)

pids == {p.pid : p \in profiles}

\* A profile is deleted; some versions of NetworkManager leave the interface as it is.
released(gone) == [i \in DOMAIN active |-> IF active[i] \in gone THEN Nothing ELSE active[i]]

\* Mutant of cleanup_stale_profiles: the interfaces are not disconnected first.
cleanup_profiles_only ==
  /\ pc = "cleanup" /\ pc' = "name"
  /\ \E dropped \in SUBSET pids :
        /\ profiles' = {p \in profiles : p.pid \notin dropped}
        /\ active' \in {active, released(dropped)}
        /\ excuse' = IF dropped = pids THEN excuse ELSE excuse \cup {"failed"}
  /\ UNCHANGED <<runs, asked, iface, ssid, hotspot, told>>

\* cleanup_stale_profiles(): every gnirehtet-dummy-*, its interface disconnected first.
cleanup_stale_profiles ==
  /\ pc = "cleanup" /\ pc' = "name"
  /\ \E freed \in SUBSET pids, dropped \in SUBSET pids :
        /\ profiles' = {p \in profiles : p.pid \notin dropped}
        /\ active' \in {released(freed), released(freed \cup dropped)}
        /\ excuse' = IF freed = pids /\ dropped = pids THEN excuse ELSE excuse \cup {"failed"}
  /\ UNCHANGED <<runs, asked, iface, ssid, hotspot, told>>

\* scan_nearby_gnirehtet_ssids()
taken_ssids == {ap.ssid : ap \in Air} \cap Ours

\* The SSID asked for, or generate_unique_ssid(): after a collision a random one, which
\* may collide at every attempt.
choose_ssid ==
  /\ pc = "name"
  /\ \/ /\ asked.ssid # Nothing
        /\ ssid' = asked.ssid /\ pc' = "add" /\ UNCHANGED <<told, excuse>>
     \/ /\ asked.ssid = Nothing
        /\ \E existing \in {taken_ssids, {}} :
              /\ excuse' = IF existing = taken_ssids THEN excuse ELSE excuse \cup {"unscanned"}
              /\ \/ BaseSsid \notin existing /\ ssid' = BaseSsid /\ pc' = "add" /\ UNCHANGED told
                 \/ /\ BaseSsid \in existing
                    /\ ssid' \in Ours \ existing /\ pc' = "add" /\ UNCHANGED told
                 \/ /\ BaseSsid \in existing
                    /\ pc' = "done" /\ told' = Nothing /\ UNCHANGED ssid
  /\ UNCHANGED <<runs, profiles, active, asked, iface, hotspot>>

\* The profile is added; a failure from then on leaves it.
add_profile ==
  /\ pc = "add"
  /\ \/ profiles' = profiles \cup {[pid |-> pid, ssid |-> ssid]} /\ pc' = "up" /\ UNCHANGED excuse
     \/ pc' = "done" /\ excuse' = excuse \cup {"failed"} /\ UNCHANGED profiles
  /\ UNCHANGED <<runs, active, asked, iface, ssid, hotspot, told>>

\* The profile is completed and brought up, in place of what the interface was connected
\* to; after a delay create_hotspot() returns.  nmcli fails for an interface it does not have.
bring_up ==
  /\ pc = "up" /\ pc' = "done"
  /\ \/ /\ iface \in DOMAIN active
        /\ active' = [active EXCEPT ![iface] = pid]
        /\ hotspot' = TRUE /\ told' = ssid
        /\ excuse' = IF active[iface] \in UserProfiles THEN excuse \cup {"dropped"} ELSE excuse
     \/ excuse' = excuse \cup {"failed"} /\ UNCHANGED <<active, hotspot, told>>
  /\ UNCHANGED <<runs, profiles, asked, iface, ssid>>

setup_dummy_wifi ==
  select_interface \/ take_over \/ cleanup_stale_profiles \/ choose_ssid \/ add_profile \/ bring_up

\* Hotspot::stop(): the failures of both commands are ignored.
stop ==
  IF ~hotspot THEN UNCHANGED <<profiles, active, hotspot, excuse>>
  ELSE /\ hotspot' = FALSE
       /\ \E down \in BOOLEAN, delete \in BOOLEAN :
             /\ profiles' = {p \in profiles : p.pid = pid => ~delete}
             /\ \/ (down \/ delete) /\ active' = released({pid})
                \/ ~down /\ UNCHANGED active
             /\ excuse' = IF down /\ delete THEN excuse ELSE excuse \cup {"failed"}
=============================================================================
