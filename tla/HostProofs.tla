------------------------------ MODULE HostProofs ------------------------------
(***************************************************************************)
(* What the host's commands promise of the user's own Wi-Fi, of the        *)
(* hotspot, of the clients and of the monitor that starts them, for every  *)
(* set of interfaces, networks, devices and command lines, any number of   *)
(* runs, and whatever devices, the adb server, nmcli and the user do.      *)
(***************************************************************************)
EXTENDS Host, SequenceLemmas, FiniteSetTheorems, FunctionTheorems

Excused == excuse \cap {"explicit", "forced", "confirmed", "unlisted"} # {}

\* Between the choice of an interface and its takeover.
Taking == pc \in {"cleanup", "name", "add", "up"}

\* The interface was free when it was chosen, and nothing since has connected it.
WifiInv ==
  /\ DOMAIN active = ToSet(Interfaces)
  /\ Taking => Excused \/ (iface \in DOMAIN active /\ active[iface] \notin UserProfiles)
  /\ "dropped" \in excuse => Excused

\* A larger history excuses no less.
LEMMA ExcusedGrows ==
  ASSUME excuse \subseteq excuse'
  PROVE  Excused => Excused'
BY DEF Excused

\* Taking profiles down connects no interface.
LEMMA ReleasedFree ==
  ASSUME NEW gone
  PROVE  /\ DOMAIN released(gone) = DOMAIN active
         /\ \A i \in DOMAIN active :
               active[i] \notin UserProfiles => released(gone)[i] \notin UserProfiles
<1>1. \A i \in DOMAIN active : released(gone)[i] = IF active[i] \in gone THEN Nothing ELSE active[i]
  BY DEF released
<1>2. Nothing \notin UserProfiles
  BY HotspotAssumption
<1>3. DOMAIN released(gone) = DOMAIN active
  BY DEF released
<1> QED
  BY <1>1, <1>2, <1>3

\* The interface selected is free, or there is an excuse.
LEMMA SelectKeeps ==
  ASSUME WifiInv, select_interface
  PROVE  WifiInv'
<1>1. active' = active
  BY DEF select_interface, use, without_hotspot
<1>2. CASE excuse' = excuse \cup {"explicit"}
  BY <1>1, <1>2 DEF WifiInv, Excused
<1>3. CASE excuse' = excuse \cup {"unlisted"}
  BY <1>1, <1>3 DEF WifiInv, Excused
<1>4. ASSUME excuse' = excuse, without_hotspot(Nothing)
      PROVE  WifiInv'
  BY <1>1, <1>4 DEF WifiInv, Excused, Taking, without_hotspot
<1>5. ASSUME excuse' = excuse, NEW k \in DOMAIN Interfaces, first_free(k), use(Interfaces[k], "cleanup")
      PROVE  WifiInv'
  <2>1. Interfaces[k] \in ToSet(Interfaces)
    BY DEF ToSet
  <2>2. iface' = Interfaces[k] /\ active[Interfaces[k]] \notin UserProfiles
    BY <1>5 DEF use, first_free, is_free
  <2> QED
    BY <1>1, <1>5, <2>1, <2>2 DEF WifiInv, Excused
<1>6. ASSUME excuse' = excuse, use(Head(Interfaces), "scan")
      PROVE  WifiInv'
  BY <1>1, <1>6 DEF WifiInv, Excused, Taking, use
<1> QED
  BY <1>2, <1>3, <1>4, <1>5, <1>6 DEF select_interface

\* Taking over an interface in use needs force or consent.
LEMMA TakeOverKeeps ==
  ASSUME WifiInv, take_over
  PROVE  WifiInv'
<1>1. active' = active
  BY DEF take_over, use, without_hotspot
<1>2. \/ pc' = "done" /\ excuse' = excuse
      \/ excuse' = excuse \cup {"forced"}
      \/ excuse' = excuse \cup {"confirmed"}
  BY DEF take_over, use, without_hotspot
<1>3. CASE pc' = "done" /\ excuse' = excuse
  BY <1>1, <1>3 DEF WifiInv, Excused, Taking
<1>4. CASE excuse' = excuse \cup {"forced"}
  BY <1>1, <1>4 DEF WifiInv, Excused
<1>5. CASE excuse' = excuse \cup {"confirmed"}
  BY <1>1, <1>5 DEF WifiInv, Excused
<1> QED
  BY <1>2, <1>3, <1>4, <1>5

\* The cleanup of stale profiles disconnects only interfaces of a relay.
LEMMA CleanupKeeps ==
  ASSUME WifiInv, cleanup_stale_profiles
  PROVE  WifiInv'
<1>1. PICK gone : active' = released(gone)
  BY DEF cleanup_stale_profiles
<1>2. excuse \subseteq excuse' /\ ("dropped" \in excuse' => "dropped" \in excuse)
  <2>1. CASE excuse' = excuse
    BY <2>1
  <2>2. CASE excuse' = excuse \cup {"failed"}
    BY <2>2
  <2> QED
    BY <2>1, <2>2 DEF cleanup_stale_profiles
<1>3. Taking /\ iface' = iface
  BY DEF cleanup_stale_profiles, Taking
<1>4. Excused => Excused'
  BY <1>2, ExcusedGrows
<1>5. DOMAIN active' = ToSet(Interfaces)
  BY <1>1, ReleasedFree DEF WifiInv
<1>6. Excused' \/ (iface' \in DOMAIN active' /\ active'[iface'] \notin UserProfiles)
  BY <1>1, <1>3, <1>4, ReleasedFree DEF WifiInv
<1>7. "dropped" \in excuse' => Excused'
  BY <1>2, <1>4 DEF WifiInv
<1> QED
  BY <1>5, <1>6, <1>7 DEF WifiInv

\* Naming and adding the profile leave the interfaces alone.
LEMMA NameKeeps ==
  ASSUME WifiInv, choose_ssid \/ add_profile
  PROVE  WifiInv'
<1>1. Taking /\ iface' = iface /\ active' = active
  BY DEF choose_ssid, add_profile, Taking
<1>2. excuse \subseteq excuse' /\ ("dropped" \in excuse' => "dropped" \in excuse)
  <2>1. CASE excuse' = excuse
    BY <2>1
  <2>2. CASE excuse' = excuse \cup {"failed"}
    BY <2>2
  <2>3. CASE excuse' = excuse \cup {"unscanned"}
    BY <2>3
  <2> QED
    BY <2>1, <2>2, <2>3 DEF choose_ssid, add_profile
<1>3. Excused => Excused'
  BY <1>2, ExcusedGrows
<1> QED
  BY <1>1, <1>2, <1>3 DEF WifiInv

\* Only here may a connection of the user be dropped.
LEMMA BringUpKeeps ==
  ASSUME WifiInv, bring_up
  PROVE  WifiInv'
<1>1. Taking /\ ~Taking'
  BY DEF bring_up, Taking
<1>2. DOMAIN active' = DOMAIN active
  BY DEF bring_up
<1>3. CASE active[iface] \in UserProfiles
  <2>1. Excused
    BY <1>1, <1>3 DEF WifiInv
  <2>2. excuse \subseteq excuse'
    BY <1>3 DEF bring_up
  <2> QED
    BY <1>1, <1>2, <2>1, <2>2, ExcusedGrows DEF WifiInv
<1>4. CASE active[iface] \notin UserProfiles
  <2>1. excuse \subseteq excuse' /\ ("dropped" \in excuse' => "dropped" \in excuse)
    <3>1. CASE excuse' = excuse
      BY <3>1
    <3>2. CASE excuse' = excuse \cup {"failed"}
      BY <3>2
    <3> QED
      BY <1>4, <3>1, <3>2 DEF bring_up
  <2>2. Excused => Excused'
    BY <2>1, ExcusedGrows
  <2> QED
    BY <1>1, <1>2, <2>1, <2>2 DEF WifiInv
<1> QED
  BY <1>3, <1>4
\* The teardown disconnects only the relay's own interface.
LEMMA StopKeeps ==
  ASSUME WifiInv, stop, pc' = pc, iface' = iface
  PROVE  WifiInv'
<1>1. active' = active \/ active' = released({pid})
  BY DEF stop
<1>2. excuse \subseteq excuse' /\ ("dropped" \in excuse' => "dropped" \in excuse)
  <2>1. CASE excuse' = excuse
    BY <2>1
  <2>2. CASE excuse' = excuse \cup {"failed"}
    BY <2>2
  <2> QED
    BY <2>1, <2>2 DEF stop
<1>3. Excused => Excused'
  BY <1>2, ExcusedGrows
<1>4. DOMAIN active' = DOMAIN active
  BY <1>1, ReleasedFree
<1>5. \A i \in DOMAIN active : active[i] \notin UserProfiles => active'[i] \notin UserProfiles
  BY <1>1, ReleasedFree
<1>6. Taking' => Taking
  BY DEF Taking
<1> QED
  BY <1>2, <1>3, <1>4, <1>5, <1>6 DEF WifiInv

\* The other actions leave the Wi-Fi as it is, and a new run starts from nothing.
LEMMA StepKeeps ==
  ASSUME WifiInv, [HostNext]_allVars
  PROVE  WifiInv'
<1>1. ASSUME UNCHANGED wifiVars PROVE WifiInv'
  BY <1>1 DEF WifiInv, wifiVars, Taking, Excused
<1>2. ASSUME SetUpWifi PROVE WifiInv'
  BY <1>2, SelectKeeps, TakeOverKeeps, CleanupKeeps, NameKeeps, BringUpKeeps
     DEF SetUpWifi, setup_dummy_wifi
<1>3. ASSUME Exit PROVE WifiInv'
  BY <1>3, StopKeeps DEF Exit
<1>4. ASSUME Kill PROVE WifiInv'
  <2>1. UNCHANGED <<active, pc, iface, excuse>>
    BY <1>4 DEF Kill
  <2> QED
    BY <2>1 DEF WifiInv, Taking, Excused
<1>5. ASSUME Again PROVE WifiInv'
  <2>1. active' = active /\ pc' = "select" /\ excuse' = excuse \cap {"failed"}
    BY <1>5 DEF Again
  <2> QED
    BY <2>1 DEF WifiInv, Taking
<1>6. ASSUME Begin \/ Launch \/ Interrupt \/ RelayEnded PROVE WifiInv'
  BY <1>1, <1>6 DEF Begin, Launch, Interrupt, RelayEnded
<1>7. ASSUME NEW d \in Serial, StopClient(d) \/ DeviceComes(d) \/ DeviceLeaves(d) PROVE WifiInv'
  BY <1>1, <1>7 DEF StopClient, DeviceComes, DeviceLeaves
<1>8. ASSUME NEW d, NEW cmd, OtherCommand(cmd, d) PROVE WifiInv'
  BY <1>1, <1>8 DEF OtherCommand
<1>9. ASSUME NEW i, ThreadStep(i) PROVE WifiInv'
  BY <1>1, <1>9 DEF ThreadStep
<1>10. ASSUME AdbDies \/ MonitorStep \/ RelayStep \/ TimePasses PROVE WifiInv'
  BY <1>1, <1>10 DEF AdbDies, MonitorStep, RelayStep, TimePasses
<1>11. ASSUME UNCHANGED allVars PROVE WifiInv'
  BY <1>1, <1>11 DEF allVars
<1> QED
  BY <1>2, <1>3, <1>4, <1>5, <1>6, <1>7, <1>8, <1>9, <1>10, <1>11 DEF HostNext

\* UsersWifiKept for every run of the host's commands (setup_dummy_wifi(),
\* Hotspot::start()): the user's own connection goes only where it was agreed to.
THEOREM WifiKept == HostSpec => []UsersWifiKept
<1>1. HostInit => WifiInv
  <2> SUFFICES ASSUME HostInit PROVE WifiInv
    OBVIOUS
  <2>1. plan \in Plans /\ active \in plan.active /\ pc = "select" /\ excuse = {}
    BY DEF HostInit
  <2>2. DOMAIN active = ToSet(Interfaces)
    BY <2>1, PlansAssumption
  <2> QED
    BY <2>1, <2>2 DEF WifiInv, Taking
<1>2. WifiInv /\ [HostNext]_allVars => WifiInv'
  BY StepKeeps
<1>3. WifiInv => UsersWifiKept
  BY DEF WifiInv, Excused, UsersWifiKept
<1> QED
  BY <1>1, <1>2, <1>3, PTL DEF HostSpec

-----------------------------------------------------------------------------
(* The hotspot *)

\* The transport is not settled, or refused: no run has come past its first step.
Unresolved == plan.transport = "auto" \/ (plan.cmd = "autorun" /\ plan.transport = "forward")

\* The Wi-Fi is set up, as far as it will be.
AtWork == main \in {"launch", "running", "stopping", "teardown"}

\* No interface is on a relay's hotspot.
Vacant == \A i \in DOMAIN active : active[i] \notin ToSet(Pids)

SsidIsOurs ==
  ssid \notin {ap.ssid : ap \in Air} \/ asked.ssid # Nothing \/ "unscanned" \in excuse

\* How far the setup is, and what no failure of nmcli changes: profiles are of this run
\* and of earlier ones, and what another relay left is met on the way to a takeover.
SetupInv ==
  /\ runs \in DOMAIN Pids /\ "transport" \in DOMAIN plan
  /\ DOMAIN active = ToSet(Interfaces)
  /\ Unresolved => main \in {"begin", "exited"} /\ profiles = {} /\ Vacant
  /\ main = "begin" => pc = "select" /\ told = Nothing
  /\ main = "wifi" => plan.wifi /\ pc # "done" /\ told = Nothing
  /\ AtWork => IF plan.wifi THEN pc = "done" ELSE told = Nothing
  /\ hotspot => AtWork /\ plan.wifi
  /\ \A p \in profiles : \E j \in 1 .. runs : p.pid = Pids[j]
  /\ main = "begin" \/ (main = "wifi" /\ pc \in {"select", "scan"}) => pid \notin pids
  /\ main = "wifi" /\ pc = "scan" => \A i \in DOMAIN active : active[i] \in UserProfiles

\* Unless nmcli failed: a connected hotspot has a profile, so that the cleanup finds it,
\* and from the cleanup on the only profile is that of this run.
LeftInv ==
  "failed" \notin excuse =>
     /\ \A i \in DOMAIN active : active[i] \in ToSet(Pids) => active[i] \in pids
     /\ main = "wifi" /\ pc \in {"name", "add"} => pids = {}
     /\ main = "wifi" /\ pc = "up" => pids = {pid} /\ Vacant
     /\ AtWork /\ hotspot => pids = {pid}
     /\ AtWork /\ plan.wifi /\ "unlisted" \notin excuse /\ ~hotspot => Vacant /\ pid \notin pids
     /\ main = "exited" /\ plan.wifi /\ "unlisted" \notin excuse => Vacant /\ pid \notin pids

\* The name of the profile to come is unused, and the profile has it.
NameInv ==
  /\ main = "wifi" /\ pc \in {"add", "up"} => SsidIsOurs
  /\ main = "wifi" /\ pc = "up" => [pid |-> pid, ssid |-> ssid] \in profiles
  /\ SsidReachable

HotspotInv == SetupInv /\ LeftInv /\ NameInv

\* A step of setup_dummy_wifi(); at its end the relay is launched.
Setting ==
  /\ main = "wifi" /\ main' = (IF pc' = "done" THEN "launch" ELSE "wifi")
  /\ UNCHANGED <<plan, runs, asked>>

\* Nothing is up yet while the setup goes on.
LEMMA WhileSetting ==
  ASSUME HotspotInv, Setting
  PROVE  /\ ~hotspot /\ plan.wifi /\ plan'.wifi /\ ~Unresolved' /\ told = Nothing
         /\ pid' = pid /\ runs' = runs /\ asked' = asked /\ runs \in DOMAIN Pids
         /\ "transport" \in DOMAIN plan'
         /\ DOMAIN active = ToSet(Interfaces)
         /\ pc' = "done" => main' = "launch" /\ AtWork'
         /\ pc' # "done" => main' = "wifi" /\ ~AtWork'
<1>1. ~AtWork /\ main = "wifi" /\ plan' = plan /\ runs' = runs /\ asked' = asked
  BY DEF Setting, AtWork
<1>2. ~hotspot /\ plan.wifi /\ told = Nothing /\ ~Unresolved /\ "transport" \in DOMAIN plan
      /\ runs \in DOMAIN Pids /\ DOMAIN active = ToSet(Interfaces)
  BY <1>1 DEF HotspotInv, SetupInv
<1>3. pid' = pid /\ ~Unresolved'
  BY <1>1, <1>2 DEF pid, Unresolved
<1>4. /\ pc' = "done" => main' = "launch" /\ AtWork'
      /\ pc' # "done" => main' = "wifi" /\ ~AtWork'
  BY DEF Setting, AtWork
<1>. QED
  BY <1>1, <1>2, <1>3, <1>4

\* A step that selects an interface touches neither profiles nor connections.
LEMMA UseKeeps ==
  ASSUME HotspotInv, Setting, NEW i, NEW next \in {"cleanup", "scan"}, use(i, next),
         excuse \subseteq excuse', pc \in {"select", "scan"},
         next = "scan" => \A j \in DOMAIN active : active[j] \in UserProfiles
  PROVE  HotspotInv'
<1>1. /\ pc' = next /\ pc' # "done" /\ profiles' = profiles /\ active' = active
      /\ hotspot' = hotspot /\ told' = told
  BY DEF use
<1>2. main' = "wifi" /\ ~AtWork' /\ main = "wifi"
  BY <1>1, WhileSetting DEF Setting
<1>3. pids' = pids
  BY <1>1 DEF pids
<1>4. SetupInv'
  BY <1>1, <1>2, <1>3, WhileSetting DEF HotspotInv, SetupInv
<1>5. LeftInv'
  BY <1>1, <1>2, <1>3 DEF HotspotInv, LeftInv
<1>6. NameInv'
  BY <1>1, <1>2 DEF NameInv, SsidReachable
<1>. QED
  BY <1>4, <1>5, <1>6 DEF HotspotInv

\* An exit without a hotspot, before the cleanup.
LEMMA WithoutKeeps ==
  ASSUME HotspotInv, Setting, NEW name, without_hotspot(name), pc \in {"select", "scan"},
         excuse \subseteq excuse', Vacant \/ "unlisted" \in excuse',
         \/ name = Nothing
         \/ /\ name \in {ap.ssid : ap \in open_aps} \ Ours
            /\ name # active[iface]
  PROVE  HotspotInv'
<1>1. /\ pc' = "done" /\ told' = name /\ profiles' = profiles /\ active' = active
      /\ hotspot' = hotspot /\ iface' = iface
  BY DEF without_hotspot
<1>2. main' = "launch" /\ AtWork' /\ main = "wifi" /\ ~hotspot'
  BY <1>1, WhileSetting DEF Setting
<1>3. pids' = pids /\ (Vacant' <=> Vacant) /\ pid \notin pids
  <2>1. pid \notin pids
    BY <1>2 DEF HotspotInv, SetupInv
  <2>. QED
    BY <1>1, <2>1 DEF pids, Vacant
<1>4. SetupInv'
  BY <1>1, <1>2, <1>3, WhileSetting DEF HotspotInv, SetupInv
<1>5. LeftInv'
  BY <1>1, <1>2, <1>3, WhileSetting DEF HotspotInv, LeftInv
<1>6. NameInv'
  BY <1>1, <1>2 DEF NameInv, SsidReachable
<1>. QED
  BY <1>4, <1>5, <1>6 DEF HotspotInv

\* Only a selection from the list leads to the scan, and then every interface is taken.
LEMMA SelectHotspot ==
  ASSUME HotspotInv, Setting, select_interface
  PROVE  HotspotInv'
<1>0. pc = "select"
  BY DEF select_interface
<1>1. ASSUME NEW i, use(i, "cleanup"), excuse \subseteq excuse'
      PROVE  HotspotInv'
  BY <1>0, <1>1, UseKeeps
<1>2. ASSUME without_hotspot(Nothing), excuse' = excuse \cup {"unlisted"}
      PROVE  HotspotInv'
  BY <1>0, <1>2, WithoutKeeps
<1>3. ASSUME Interfaces = << >>, without_hotspot(Nothing), excuse' = excuse
      PROVE  HotspotInv'
  <2>1. Vacant
    BY <1>3, WhileSetting DEF Vacant, ToSet
  <2>. QED
    BY <1>0, <1>3, <2>1, WithoutKeeps
<1>4. ASSUME \A k \in DOMAIN Interfaces : ~is_free(Interfaces[k]), use(Head(Interfaces), "scan"),
             excuse' = excuse
      PROVE  HotspotInv'
  <2>1. \A j \in DOMAIN active : active[j] \in UserProfiles
    BY <1>4, WhileSetting DEF is_free, ToSet
  <2>. QED
    BY <1>0, <1>4, <2>1, UseKeeps
<1>. QED
  BY <1>1, <1>2, <1>3, <1>4 DEF select_interface

\* A network that is reused is in range and not a relay's.
LEMMA TakeOverHotspot ==
  ASSUME HotspotInv, Setting, take_over
  PROVE  HotspotInv'
<1>0. pc = "scan" /\ main = "wifi"
  BY DEF take_over, Setting
<1>1. Vacant
  <2>1. \A i \in DOMAIN active : active[i] \in UserProfiles
    BY <1>0 DEF HotspotInv, SetupInv
  <2>. QED
    BY <2>1, HotspotAssumption DEF Vacant
<1>2. ASSUME NEW i, use(i, "cleanup"), excuse \subseteq excuse'
      PROVE  HotspotInv'
  BY <1>0, <1>2, UseKeeps
<1>3. ASSUME NEW ap \in reusable, without_hotspot(ap.ssid), excuse' = excuse
      PROVE  HotspotInv'
  <2>1. ap.ssid \in {x.ssid : x \in open_aps} \ Ours /\ ap.ssid # active[iface]
    BY <1>3 DEF reusable
  <2>. QED
    BY <1>0, <1>1, <1>3, <2>1, WithoutKeeps
<1>4. ASSUME without_hotspot(Nothing), excuse' = excuse
      PROVE  HotspotInv'
  BY <1>0, <1>1, <1>4, WithoutKeeps
<1>5. PICK aps \in {reusable, {}} :
        IF \E ap \in aps : ap.ssid = asked.ssid
        THEN without_hotspot(asked.ssid) /\ UNCHANGED excuse
        ELSE \E choice \in offered(aps) :
               \/ choice # Nothing /\ without_hotspot(choice) /\ UNCHANGED excuse
               \/ /\ choice = Nothing /\ asked.force
                  /\ use(iface, "cleanup") /\ excuse' = excuse \cup {"forced"}
               \/ /\ choice = Nothing /\ ~asked.force /\ asked.tty
                  /\ use(iface, "cleanup") /\ excuse' = excuse \cup {"confirmed"}
               \/ /\ choice = Nothing /\ ~asked.force
                  /\ without_hotspot(Nothing) /\ UNCHANGED excuse
  BY DEF take_over
<1>6. CASE \E ap \in aps : ap.ssid = asked.ssid
  <2>1. PICK ap \in reusable : ap.ssid = asked.ssid
    BY <1>6
  <2>. QED
    BY <1>3, <1>5, <1>6, <2>1
<1>7. CASE ~(\E ap \in aps : ap.ssid = asked.ssid)
  <2>1. PICK choice \in offered(aps) :
               \/ choice # Nothing /\ without_hotspot(choice) /\ UNCHANGED excuse
               \/ use(iface, "cleanup") /\ excuse \subseteq excuse'
               \/ without_hotspot(Nothing) /\ UNCHANGED excuse
    BY <1>5, <1>7
  <2>2. ASSUME choice # Nothing, without_hotspot(choice), UNCHANGED excuse
        PROVE  HotspotInv'
    <3>1. PICK ap \in aps : choice = ap.ssid
      BY <2>2 DEF offered, strongest
    <3>. QED
      BY <1>3, <2>2, <3>1
  <2>. QED
    BY <1>2, <1>4, <2>1, <2>2
<1>. QED
  BY <1>6, <1>7

\* After a cleanup that did not fail there is neither a profile nor a connection of a relay.
LEMMA CleanupHotspot ==
  ASSUME HotspotInv, Setting, cleanup_stale_profiles
  PROVE  HotspotInv'
<1>1. PICK freed \in SUBSET pids, dropped \in SUBSET pids :
        /\ profiles' = {p \in profiles : p.pid \notin dropped}
        /\ active' \in {released(freed), released(freed \cup dropped)}
        /\ excuse' = IF freed = pids /\ dropped = pids THEN excuse ELSE excuse \cup {"failed"}
  BY DEF cleanup_stale_profiles
<1>2. pc' = "name" /\ pc' # "done" /\ hotspot' = hotspot /\ told' = told
  BY DEF cleanup_stale_profiles
<1>3. main' = "wifi" /\ ~AtWork' /\ main = "wifi"
  BY <1>2, WhileSetting DEF Setting
<1>4. DOMAIN active' = DOMAIN active /\ profiles' \subseteq profiles
  BY <1>1, ReleasedFree
<1>5. SetupInv'
  BY <1>2, <1>3, <1>4, WhileSetting DEF HotspotInv, SetupInv
<1>6. ASSUME "failed" \notin excuse'
      PROVE  pids' = {} /\ Vacant'
  <2>1. freed = pids /\ dropped = pids /\ "failed" \notin excuse
    BY <1>1, <1>6
  <2>2. active' = released(pids)
    <3>1. freed \cup dropped = pids
      BY <2>1
    <3>. QED
      BY <1>1, <2>1, <3>1
  <2>3. \A i \in DOMAIN active : active[i] \in ToSet(Pids) => active[i] \in pids
    BY <2>1 DEF HotspotInv, LeftInv
  <2>4. Vacant'
    <3>1. \A i \in DOMAIN active : active'[i] = IF active[i] \in pids THEN Nothing ELSE active[i]
      BY <2>2 DEF released
    <3>. QED
      BY <1>4, <2>3, <3>1, HotspotAssumption DEF Vacant
  <2>5. pids' = {}
    BY <1>1, <2>1 DEF pids
  <2>. QED
    BY <2>4, <2>5
<1>7. LeftInv'
  BY <1>2, <1>3, <1>6 DEF LeftInv, Vacant
<1>8. NameInv'
  BY <1>2, <1>3 DEF NameInv, SsidReachable
<1>. QED
  BY <1>5, <1>7, <1>8 DEF HotspotInv

\* The SSID is the one asked for, or one that no network in range has.
LEMMA NameHotspot ==
  ASSUME HotspotInv, Setting, choose_ssid
  PROVE  HotspotInv'
<1>1. /\ pc = "name" /\ main = "wifi" /\ profiles' = profiles /\ active' = active
      /\ hotspot' = hotspot /\ excuse \subseteq excuse'
  BY DEF choose_ssid, Setting
<1>2. pids' = pids /\ (Vacant' <=> Vacant)
  BY <1>1 DEF pids, Vacant
<1>3. ("failed" \in excuse' => "failed" \in excuse)
  <2>1. excuse' = excuse \/ excuse' = excuse \cup {"unscanned"}
    BY DEF choose_ssid
  <2>. QED
    BY <2>1
<1>4. CASE pc' = "add"
  <2>1. main' = "wifi" /\ ~AtWork' /\ pc' # "done" /\ told' = Nothing
    BY <1>4, WhileSetting DEF choose_ssid
  <2>2. SetupInv'
    BY <1>1, <1>2, <1>4, <2>1, WhileSetting DEF HotspotInv, SetupInv
  <2>3. LeftInv'
    BY <1>1, <1>2, <1>3, <1>4, <2>1, WhileSetting DEF HotspotInv, LeftInv
  <2>4. SsidIsOurs'
    <3>1. asked' = asked
      BY WhileSetting
    <3>2. CASE asked.ssid # Nothing
      BY <3>1, <3>2 DEF SsidIsOurs
    <3>3. CASE asked.ssid = Nothing
      <4>1. PICK existing \in {taken_ssids, {}} :
              /\ excuse' = IF existing = taken_ssids THEN excuse ELSE excuse \cup {"unscanned"}
              /\ ssid' \in Ours \ existing
        BY <1>4, <3>3, HotspotAssumption DEF choose_ssid
      <4>2. CASE existing = taken_ssids
        <5>1. ssid' \notin {ap.ssid : ap \in Air}
          BY <4>1, <4>2 DEF taken_ssids
        <5>. QED
          BY <5>1 DEF SsidIsOurs
      <4>3. CASE existing # taken_ssids
        BY <4>1, <4>3 DEF SsidIsOurs
      <4>. QED
        BY <4>2, <4>3
    <3>. QED
      BY <3>2, <3>3
  <2>5. NameInv'
    BY <1>4, <2>1, <2>4 DEF NameInv, SsidReachable
  <2>. QED
    BY <2>2, <2>3, <2>5 DEF HotspotInv
<1>5. CASE pc' = "done"
  <2>1. main' = "launch" /\ AtWork' /\ told' = Nothing
    BY <1>5, WhileSetting DEF choose_ssid
  <2>2. SetupInv'
    BY <1>1, <1>2, <1>5, <2>1, WhileSetting DEF HotspotInv, SetupInv
  <2>3. ASSUME "failed" \notin excuse
        PROVE  pids = {} /\ Vacant
    BY <1>1, <2>3 DEF HotspotInv, LeftInv, Vacant
  <2>4. LeftInv'
    BY <1>1, <1>2, <1>3, <1>5, <2>1, <2>3, WhileSetting DEF LeftInv, Vacant
  <2>5. NameInv'
    BY <2>1 DEF NameInv, SsidReachable
  <2>. QED
    BY <2>2, <2>4, <2>5 DEF HotspotInv
<1>. QED
  BY <1>4, <1>5 DEF choose_ssid

\* A profile of this run is added, or nmcli failed.
LEMMA AddHotspot ==
  ASSUME HotspotInv, Setting, add_profile
  PROVE  HotspotInv'
<1>1. /\ pc = "add" /\ main = "wifi" /\ active' = active /\ hotspot' = hotspot /\ told' = told
      /\ ssid' = ssid /\ Vacant' = Vacant
  BY DEF add_profile, Setting, Vacant
<1>2. CASE pc' = "up"
  <2>1. main' = "wifi" /\ ~AtWork' /\ pc' # "done"
    BY <1>2, WhileSetting
  <2>2. profiles' = profiles \cup {[pid |-> pid, ssid |-> ssid]} /\ excuse' = excuse
    BY <1>2 DEF add_profile
  <2>3. pids' = pids \cup {pid}
    <3>. DEFINE r == [pid |-> pid, ssid |-> ssid]
    <3>1. r.pid = pid /\ profiles' = profiles \cup {r}
      BY <2>2
    <3>. HIDE DEF r
    <3>. QED
      BY <3>1 DEF pids
  <2>4. SetupInv'
    <3>1. \A p \in profiles' : \E j \in 1 .. runs' : p.pid = Pids[j]
      <4>1. runs' = runs /\ runs \in 1 .. runs
        BY WhileSetting, HotspotAssumption
      <4>2. \A p \in profiles : \E j \in 1 .. runs : p.pid = Pids[j]
        BY DEF HotspotInv, SetupInv
      <4>. QED
        BY <2>2, <4>1, <4>2 DEF pid
    <3>. QED
      BY <1>1, <1>2, <2>1, <3>1, WhileSetting DEF SetupInv
  <2>5. LeftInv'
    <3>1. ASSUME "failed" \notin excuse
          PROVE  pids = {} /\ Vacant
      BY <1>1, <3>1 DEF HotspotInv, LeftInv, Vacant
    <3>. QED
      BY <1>1, <1>2, <2>1, <2>2, <2>3, <3>1, WhileSetting DEF LeftInv, Vacant
  <2>6. NameInv'
    <3>1. SsidIsOurs
      BY <1>1 DEF HotspotInv, NameInv
    <3>2. SsidIsOurs'
      BY <1>1, <2>2, <3>1, WhileSetting DEF SsidIsOurs
    <3>. QED
      BY <1>1, <2>1, <2>2, <3>2, WhileSetting DEF NameInv, SsidReachable
  <2>. QED
    BY <2>4, <2>5, <2>6 DEF HotspotInv
<1>3. CASE pc' = "done"
  <2>1. main' = "launch" /\ AtWork'
    BY <1>3, WhileSetting
  <2>2. profiles' = profiles /\ "failed" \in excuse'
    BY <1>3 DEF add_profile
  <2>3. SetupInv'
    BY <1>1, <1>3, <2>1, <2>2, WhileSetting DEF HotspotInv, SetupInv
  <2>4. LeftInv'
    BY <2>2 DEF LeftInv
  <2>5. NameInv'
    BY <1>1, <2>1, WhileSetting DEF NameInv, SsidReachable
  <2>. QED
    BY <2>3, <2>4, <2>5 DEF HotspotInv
<1>. QED
  BY <1>2, <1>3 DEF add_profile

\* The hotspot comes up under the only profile there is.
LEMMA BringUpHotspot ==
  ASSUME HotspotInv, Setting, bring_up
  PROVE  HotspotInv'
<1>1. /\ pc = "up" /\ main = "wifi" /\ pc' = "done" /\ profiles' = profiles
      /\ ssid' = ssid /\ iface' = iface
  BY DEF bring_up, Setting
<1>2. main' = "launch" /\ AtWork' /\ pids' = pids
  BY <1>1, WhileSetting DEF pids
<1>3. CASE "failed" \in excuse' /\ UNCHANGED <<active, hotspot, told>>
  <2>1. SetupInv'
    BY <1>1, <1>2, <1>3, WhileSetting DEF HotspotInv, SetupInv
  <2>2. LeftInv'
    BY <1>3 DEF LeftInv
  <2>3. NameInv'
    BY <1>2, <1>3, WhileSetting DEF NameInv, SsidReachable
  <2>. QED
    BY <2>1, <2>2, <2>3 DEF HotspotInv
<1>4. ASSUME iface \in DOMAIN active, active' = [active EXCEPT ![iface] = pid], hotspot',
             told' = ssid, excuse \subseteq excuse'
      PROVE  HotspotInv'
  <2>1. DOMAIN active' = DOMAIN active /\ active'[iface] = pid
        /\ \A i \in DOMAIN active : active'[i] = IF i = iface THEN pid ELSE active[i]
    BY <1>4
  <2>2. SetupInv'
    BY <1>1, <1>2, <1>4, <2>1, WhileSetting DEF HotspotInv, SetupInv
  <2>3. LeftInv'
    <3>1. ASSUME "failed" \notin excuse
          PROVE  pids = {pid} /\ Vacant
      BY <1>1, <3>1 DEF HotspotInv, LeftInv
    <3>2. \A i \in DOMAIN active' :
             "failed" \notin excuse /\ active'[i] \in ToSet(Pids) => active'[i] \in pids
      BY <2>1, <3>1 DEF Vacant
    <3>. QED
      BY <1>2, <1>4, <2>1, <3>1, <3>2, WhileSetting DEF LeftInv
  <2>4. NameInv'
    <3>1. SsidIsOurs /\ [pid |-> pid, ssid |-> ssid] \in profiles
      BY <1>1 DEF HotspotInv, NameInv
    <3>2. told' \notin {ap.ssid : ap \in Air} \/ asked'.ssid # Nothing \/ "unscanned" \in excuse'
      BY <1>4, <3>1, WhileSetting DEF SsidIsOurs
    <3>3. hotspot' /\ active'[iface'] = pid' /\ [pid |-> pid', ssid |-> told'] \in profiles'
      BY <1>1, <1>4, <2>1, <3>1, WhileSetting
    <3>. QED
      BY <1>2, <3>2, <3>3 DEF NameInv, SsidReachable
  <2>. QED
    BY <2>2, <2>3, <2>4 DEF HotspotInv
<1>. QED
  BY <1>3, <1>4 DEF bring_up

\* The transport, once settled, stays, and is not refused.
LEMMA BeginHotspot ==
  ASSUME HotspotInv, Begin
  PROVE  HotspotInv'
<1>1. PICK transport \in resolve(plan.transport, plan.serial) :
        IF plan.cmd = "autorun" /\ transport = "forward"
        THEN main' = "exited" /\ late' = Serial /\ UNCHANGED plan
        ELSE /\ plan' = [plan EXCEPT !.transport = transport]
             /\ main' = IF plan.wifi THEN "wifi" ELSE "launch"
             /\ UNCHANGED late
  BY DEF Begin
<1>2. main = "begin" /\ UNCHANGED wifiVars
  BY DEF Begin
<1>3. UNCHANGED <<runs, profiles, active, asked, pc, iface, ssid, hotspot, told, excuse>>
  BY <1>2 DEF wifiVars
<1>4. /\ pids' = pids /\ pid' = pid /\ Vacant' = Vacant /\ ~hotspot /\ told = Nothing
      /\ pc = "select" /\ pid \notin pids
  <2>1. ~AtWork
    BY <1>2 DEF AtWork
  <2>. QED
    BY <1>2, <1>3, <2>1 DEF HotspotInv, SetupInv, pids, pid, Vacant
<1>5. CASE plan.cmd = "autorun" /\ transport = "forward"
  <2>1. main' = "exited" /\ plan' = plan /\ ~AtWork'
    BY <1>1, <1>5 DEF AtWork
  <2>2. Unresolved /\ Unresolved'
    BY <1>5, <2>1 DEF resolve, Unresolved
  <2>3. profiles = {} /\ Vacant
    BY <2>2 DEF HotspotInv, SetupInv
  <2>4. SetupInv'
    BY <1>3, <1>4, <2>1, <2>2, <2>3 DEF HotspotInv, SetupInv
  <2>5. LeftInv'
    BY <1>3, <1>4, <2>1, <2>3 DEF LeftInv, Vacant
  <2>6. NameInv'
    BY <2>1 DEF NameInv, SsidReachable
  <2>. QED
    BY <2>4, <2>5, <2>6 DEF HotspotInv
<1>6. CASE ~(plan.cmd = "autorun" /\ transport = "forward")
  <2>1. plan' = [plan EXCEPT !.transport = transport]
        /\ main' = IF plan.wifi THEN "wifi" ELSE "launch"
    BY <1>1, <1>6
  <2>2. plan'.wifi = plan.wifi /\ plan'.cmd = plan.cmd /\ DOMAIN plan' = DOMAIN plan
    BY <2>1
  <2>3. ~Unresolved'
    <3>1. transport # "auto"
      BY DEF resolve
    <3>2. plan'.transport = transport
      BY <2>1 DEF HotspotInv, SetupInv
    <3>. QED
      BY <1>6, <2>2, <3>1, <3>2 DEF Unresolved
  <2>4. SetupInv'
    BY <1>2, <1>3, <1>4, <2>1, <2>2, <2>3 DEF HotspotInv, SetupInv, AtWork
  <2>5. LeftInv'
    BY <1>2, <1>3, <1>4, <2>1, <2>2 DEF HotspotInv, LeftInv, AtWork
  <2>6. NameInv'
    BY <1>3, <1>4, <2>1 DEF NameInv, SsidReachable
  <2>. QED
    BY <2>4, <2>5, <2>6 DEF HotspotInv
<1>. QED
  BY <1>5, <1>6

\* The teardown leaves nothing up and deletes the profile of this run, unless nmcli failed.
LEMMA ExitHotspot ==
  ASSUME HotspotInv, Exit
  PROVE  HotspotInv'
<1>1. /\ main' = "exited" /\ AtWork /\ ~AtWork' /\ stop
      /\ UNCHANGED <<runs, asked, pc, iface, ssid, told, plan>>
  BY DEF Exit, AtWork
<1>2. pid' = pid /\ Unresolved' = Unresolved /\ ~Unresolved
  BY <1>1 DEF pid, Unresolved, HotspotInv, SetupInv, AtWork
<1>3. ~hotspot' /\ profiles' \subseteq profiles /\ DOMAIN active' = DOMAIN active
      /\ excuse \subseteq excuse'
  <2>1. active' = active \/ active' = released({pid})
    BY <1>1 DEF stop
  <2>2. DOMAIN active' = DOMAIN active
    BY <2>1, ReleasedFree
  <2>3. ~hotspot' /\ profiles' \subseteq profiles /\ excuse \subseteq excuse'
    BY <1>1 DEF stop
  <2>. QED
    BY <2>2, <2>3
<1>4. SetupInv'
  BY <1>1, <1>2, <1>3 DEF HotspotInv, SetupInv
<1>5. NameInv'
  BY <1>1 DEF NameInv, SsidReachable
<1>6. LeftInv'
  <2>1. CASE ~hotspot
    <3>1. UNCHANGED <<profiles, active, excuse>>
      BY <1>1, <2>1 DEF stop
    <3>2. pids' = pids /\ Vacant' = Vacant
      BY <3>1 DEF pids, Vacant
    <3>. QED
      BY <1>1, <1>2, <2>1, <3>1, <3>2 DEF HotspotInv, LeftInv
  <2>2. CASE hotspot /\ "failed" \notin excuse'
    <3>1. profiles' = {p \in profiles : p.pid # pid} /\ active' = released({pid})
      BY <1>1, <2>2 DEF stop
    <3>2. pids = {pid} /\ \A i \in DOMAIN active : active[i] \in ToSet(Pids) => active[i] \in pids
      BY <1>1, <1>3, <2>2 DEF HotspotInv, LeftInv
    <3>3. Vacant'
      <4>1. \A i \in DOMAIN active : active'[i] = IF active[i] \in {pid} THEN Nothing ELSE active[i]
        BY <3>1 DEF released
      <4>. QED
        BY <1>3, <3>2, <4>1, HotspotAssumption DEF Vacant
    <3>4. pid \notin pids'
      BY <3>1 DEF pids
    <3>. QED
      BY <1>1, <1>2, <3>3, <3>4 DEF LeftInv, Vacant
  <2>3. CASE "failed" \in excuse'
    BY <2>3 DEF LeftInv
  <2>. QED
    BY <2>1, <2>2, <2>3
<1>. QED
  BY <1>4, <1>5, <1>6 DEF HotspotInv

\* A process that is killed leaves its profile, under which its hotspot stays up.
LEMMA KillHotspot ==
  ASSUME HotspotInv, Kill
  PROVE  HotspotInv'
<1>1. /\ main' = "killed" /\ ~AtWork' /\ ~hotspot' /\ main \notin {"begin", "exited"}
      /\ UNCHANGED <<runs, profiles, active, excuse, plan>>
  BY DEF Kill, AtWork
<1>2. pids' = pids /\ Unresolved' = Unresolved /\ ~Unresolved
  BY <1>1 DEF pids, Unresolved, HotspotInv, SetupInv
<1>3. SetupInv'
  BY <1>1, <1>2 DEF HotspotInv, SetupInv
<1>4. LeftInv'
  BY <1>1, <1>2 DEF HotspotInv, LeftInv
<1>5. NameInv'
  BY <1>1 DEF NameInv, SsidReachable
<1>. QED
  BY <1>3, <1>4, <1>5 DEF HotspotInv

\* No profile is of a run to come.
LEMMA AgainHotspot ==
  ASSUME HotspotInv, Again
  PROVE  HotspotInv'
<1>1. /\ main' = "begin" /\ ~AtWork' /\ runs' = runs + 1 /\ runs < Len(Pids)
      /\ pc' = "select" /\ told' = Nothing /\ excuse' = excuse \cap {"failed"} /\ ~AtWork
      /\ UNCHANGED <<profiles, active, hotspot, plan>>
  BY DEF Again, AtWork
<1>2. runs \in DOMAIN Pids /\ \A p \in profiles : \E j \in 1 .. runs : p.pid = Pids[j]
  BY DEF HotspotInv, SetupInv
<1>3. /\ runs \in Nat /\ runs' \in DOMAIN Pids
      /\ \A j \in 1 .. runs : j \in 1 .. runs' /\ j \in DOMAIN Pids /\ j # runs'
  BY <1>1, <1>2, HotspotAssumption
<1>4. pids' = pids /\ Vacant' = Vacant /\ Unresolved' = Unresolved
  BY <1>1 DEF pids, Vacant, Unresolved
<1>5. pid' \notin pids
  BY <1>2, <1>3, HotspotAssumption DEF pid, pids
<1>6. SetupInv'
  BY <1>1, <1>2, <1>3, <1>4, <1>5 DEF HotspotInv, SetupInv
<1>7. LeftInv'
  BY <1>1, <1>4 DEF HotspotInv, LeftInv
<1>8. NameInv'
  BY <1>1 DEF NameInv, SsidReachable
<1>. QED
  BY <1>6, <1>7, <1>8 DEF HotspotInv

\* A step that leaves the Wi-Fi and the command line alone.
LEMMA AsideHotspot ==
  ASSUME HotspotInv, UNCHANGED wifiVars, plan' = plan,
         \/ main' = main
         \/ main = "launch" /\ main' = "running"
         \/ AtWork /\ main' \in {"stopping", "teardown"}
  PROVE  HotspotInv'
<1>1. UNCHANGED <<runs, profiles, active, asked, pc, iface, ssid, hotspot, told, excuse>>
  BY DEF wifiVars
<1>2. /\ pids' = pids /\ pid' = pid /\ Vacant' = Vacant /\ Unresolved' = Unresolved
      /\ SsidIsOurs' = SsidIsOurs
  BY <1>1 DEF pids, pid, Vacant, Unresolved, SsidIsOurs
<1>3. CASE main' = main
  <2>1. AtWork' = AtWork
    BY <1>3 DEF AtWork
  <2>2. SetupInv'
    BY <1>1, <1>2, <1>3, <2>1 DEF HotspotInv, SetupInv
  <2>3. LeftInv'
    BY <1>1, <1>2, <1>3, <2>1 DEF HotspotInv, LeftInv
  <2>4. SsidReachable'
    BY <1>1, <1>2, <1>3 DEF HotspotInv, NameInv, SsidReachable
  <2>5. NameInv'
    BY <1>1, <1>2, <1>3, <2>4 DEF HotspotInv, NameInv
  <2>. QED
    BY <2>2, <2>3, <2>5 DEF HotspotInv
<1>4. CASE AtWork /\ AtWork' /\ main' # "launch" /\ (main' = "running" => main = "launch")
  <2>1. main \notin {"wifi", "begin", "exited"} /\ main' \notin {"wifi", "begin", "exited"}
    BY <1>4 DEF AtWork
  <2>2. SetupInv'
    BY <1>1, <1>2, <1>4, <2>1 DEF HotspotInv, SetupInv
  <2>3. LeftInv'
    BY <1>1, <1>2, <1>4, <2>1 DEF HotspotInv, LeftInv
  <2>4. SsidReachable'
    BY <1>1, <1>2, <1>4 DEF HotspotInv, NameInv, SsidReachable
  <2>5. NameInv'
    BY <2>1, <2>4 DEF NameInv
  <2>. QED
    BY <2>2, <2>3, <2>5 DEF HotspotInv
<1>. QED
  BY <1>3, <1>4 DEF AtWork

\* Every step of the host keeps what is known of the hotspot.
LEMMA StepHotspot ==
  ASSUME HotspotInv, [HostNext]_allVars
  PROVE  HotspotInv'
<1>1. ASSUME UNCHANGED wifiVars, UNCHANGED <<main, plan>> PROVE HotspotInv'
  BY <1>1, AsideHotspot
<1>2. ASSUME SetUpWifi PROVE HotspotInv'
  <2>1. Setting /\ setup_dummy_wifi
    BY <1>2 DEF SetUpWifi, Setting, setup_dummy_wifi, select_interface, take_over,
                cleanup_stale_profiles, choose_ssid, add_profile, bring_up
  <2>. QED
    BY <2>1, SelectHotspot, TakeOverHotspot, CleanupHotspot, NameHotspot, AddHotspot,
       BringUpHotspot DEF setup_dummy_wifi
<1>3. ASSUME Begin \/ Exit \/ Kill \/ Again PROVE HotspotInv'
  BY <1>3, BeginHotspot, ExitHotspot, KillHotspot, AgainHotspot
<1>4. ASSUME Launch PROVE HotspotInv'
  BY <1>4, AsideHotspot DEF Launch
<1>5. ASSUME Interrupt \/ RelayEnded PROVE HotspotInv'
  BY <1>5, AsideHotspot DEF Interrupt, RelayEnded, AtWork
<1>7. ASSUME NEW d \in Serial, StopClient(d) \/ DeviceComes(d) \/ DeviceLeaves(d) PROVE HotspotInv'
  BY <1>1, <1>7 DEF StopClient, DeviceComes, DeviceLeaves, mainVars
<1>8. ASSUME NEW d, NEW cmd, OtherCommand(cmd, d) PROVE HotspotInv'
  BY <1>1, <1>8 DEF OtherCommand, mainVars
<1>9. ASSUME NEW i, ThreadStep(i) PROVE HotspotInv'
  BY <1>1, <1>9 DEF ThreadStep
<1>10. ASSUME AdbDies \/ MonitorStep \/ RelayStep \/ TimePasses PROVE HotspotInv'
  BY <1>1, <1>10 DEF AdbDies, MonitorStep, RelayStep, TimePasses, mainVars
<1>11. ASSUME UNCHANGED allVars PROVE HotspotInv'
  BY <1>1, <1>11 DEF allVars, mainVars
<1>. QED
  BY <1>2, <1>3, <1>4, <1>5, <1>7, <1>8, <1>9, <1>10, <1>11 DEF HostNext

\* Nothing of a relay is there before its first run.
LEMMA InitHotspot ==
  ASSUME HostInit
  PROVE  HotspotInv
<1>1. /\ plan \in Plans /\ active \in plan.active /\ main = "begin" /\ pc = "select"
      /\ runs = 1 /\ profiles = {} /\ excuse = {} /\ ~hotspot /\ told = Nothing
  BY DEF HostInit
<1>2. DOMAIN active = ToSet(Interfaces) /\ Vacant /\ "transport" \in DOMAIN plan
  <2>. DEFINE Users == UserProfiles \cup Unsettled \cup {Nothing}
  <2>1. active \in [ToSet(Interfaces) -> Users] /\ "transport" \in DOMAIN plan
    BY <1>1, PlansAssumption, Zenon
  <2>2. \A x \in Users : x \notin ToSet(Pids)
    BY HotspotAssumption
  <2>. HIDE DEF Users
  <2>. QED
    BY <2>1, <2>2 DEF Vacant
<1>3. runs \in DOMAIN Pids /\ pids = {} /\ ~AtWork
  BY <1>1, HotspotAssumption DEF pids, AtWork
<1>. QED
  BY <1>1, <1>2, <1>3 DEF HotspotInv, SetupInv, LeftInv, NameInv, SsidReachable, Vacant

\* HotspotInv holds throughout.
LEMMA HotspotAlways == HostSpec => []HotspotInv
<1>1. HostInit => HotspotInv
  BY InitHotspot
<1>2. HotspotInv /\ [HostNext]_allVars => HotspotInv'
  BY StepHotspot
<1>. QED
  BY <1>1, <1>2, PTL DEF HostSpec

\* NoHotspotLeft for every run (Hotspot::start(), cleanup_stale_profiles(), Hotspot::stop()),
\* however often the relay was killed before, at whatever point.
THEOREM HotspotIsRemoved == HostSpec => []NoHotspotLeft
<1>1. HotspotInv => NoHotspotLeft
  <2>. SUFFICES ASSUME HotspotInv, main = "exited", plan.wifi, excuse \cap {"failed", "unlisted"} = {}
                PROVE  Vacant /\ pid \notin pids
    BY DEF NoHotspotLeft, Vacant
  <2>1. "failed" \notin excuse /\ "unlisted" \notin excuse
    OBVIOUS
  <2>. QED
    BY <2>1 DEF HotspotInv, LeftInv
<1>. QED
  BY <1>1, HotspotAlways, PTL

\* SsidReachable for every run (setup_dummy_wifi(), generate_unique_ssid()): the client is
\* sent to a network that is on the air, and to no other relay's.
THEOREM SsidIsReachable == HostSpec => []SsidReachable
<1>1. HotspotInv => SsidReachable
  BY DEF HotspotInv, NameInv
<1>. QED
  BY <1>1, HotspotAlways, PTL

-----------------------------------------------------------------------------
(* Ctrl+C *)

\* What is known of the client on a device: one that is not installed does not run.
Whole(x) ==
  /\ "version" \in DOMAIN x /\ "vpn" \in DOMAIN x /\ x.vpn \in BOOLEAN
  /\ x.version = "none" => x.vpn = FALSE

\* While the clients are stopped, one that runs is known to be left, or will be stopped.
StopInv ==
  /\ DOMAIN client = Serial /\ DOMAIN dev = Serial
  /\ \A d \in Serial : Whole(client[d])
  /\ main = "stopping" => \A d \in Ready : client[d].vpn => d \in late \cup to_stop
  /\ main = "teardown" => late = Serial
  /\ main = "exited" => \A d \in Ready : client[d].vpn => d \in late

\* What adb does to a client leaves it whole.
LEMMA ClientWhole ==
  ASSUME NEW x, Whole(x)
  PROVE  /\ Whole(uninstalled(x)) /\ Whole(cmd_stop(x)) /\ Whole(disconnected(x))
         /\ disconnected(x).vpn = x.vpn /\ cmd_stop(x).vpn = FALSE
         /\ \A s : Whole(grant_permissions(x, s)) /\ Whole(without_portal(x, s))
         /\ \A t : Whole(cmd_tunnel(x, t))
         /\ \A y \in cmd_install(x) : Whole(y)
         /\ \A y \in cmd_install_fails(x) : Whole(y)
         /\ x.version # "none" => \A s, t : \A y \in launched(x, s, t) : Whole(y)
<1>1. Whole(uninstalled(x)) /\ Whole(cmd_stop(x)) /\ Whole(disconnected(x))
  BY DEF Whole, uninstalled, cmd_stop, disconnected
<1>2. disconnected(x).vpn = x.vpn /\ cmd_stop(x).vpn = FALSE
  BY DEF Whole, disconnected, cmd_stop
<1>3. \A s : Whole(grant_permissions(x, s)) /\ Whole(without_portal(x, s))
  BY DEF Whole, grant_permissions, without_portal
<1>4. \A t : Whole(cmd_tunnel(x, t))
  BY DEF Whole, cmd_tunnel
<1>5. \A y \in cmd_install(x) : Whole(y)
  <2>1. \A z : Whole(z) => Whole([z EXCEPT !.version = "2603", !.vpn = FALSE])
    BY DEF Whole
  <2>. QED
    BY <1>1, <2>1 DEF cmd_install
<1>6. \A y \in cmd_install_fails(x) : Whole(y)
  BY <1>1 DEF cmd_install_fails
<1>7. ASSUME x.version # "none", NEW s, NEW t, NEW y \in launched(x, s, t)
      PROVE  Whole(y)
  <2>. DEFINE z == [without_portal(x, s) EXCEPT !.ssid = t]
  <2>1. Whole(z) /\ z.version # "none"
    BY <1>7 DEF Whole, without_portal
  <2>2. y \in {z, [z EXCEPT !.vpn = TRUE], [z EXCEPT !.vpn = TRUE, !.granted = TRUE]}
    BY <1>7 DEF launched
  <2>. HIDE DEF z
  <2>3. Whole([z EXCEPT !.vpn = TRUE]) /\ Whole([z EXCEPT !.vpn = TRUE, !.granted = TRUE])
    BY <2>1 DEF Whole
  <2>. QED
    BY <2>1, <2>2, <2>3
<1>. QED
  BY <1>1, <1>2, <1>3, <1>4, <1>5, <1>6, <1>7

\* A change of one client.
LEMMA OneClient ==
  ASSUME DOMAIN client = Serial, \A e \in Serial : Whole(client[e]), NEW d \in Serial,
         NEW x, Whole(x), client' = [client EXCEPT ![d] = x]
  PROVE  DOMAIN client' = Serial /\ \A e \in Serial : Whole(client'[e])
OBVIOUS

\* A call of a command leaves the clients whole.
LEMMA StepWhole ==
  ASSUME DOMAIN client = Serial, \A d \in Serial : Whole(client[d]), NEW i, Step(i)
  PROVE  /\ DOMAIN client' = Serial /\ \A d \in Serial : Whole(client'[d])
         /\ dev' = dev
<1>0. dev' = dev
  BY DEF Step, Call, CallRefused, CallFails, Register, adbVars
<1>1. target(threads[i].serial) \subseteq Serial
  BY DEF target, Ready
<1>2. ASSUME NEW d \in target(threads[i].serial), possible(threads[i], d),
             NEW x \in effects(threads[i], d)
      PROVE  Whole(x)
  <2>. DEFINE c == client[d]
              t == threads[i]
  <2>1. Whole(c)
    BY <1>1
  <2>2. Head(t.todo) = "launch" => c.version # "none"
    BY <1>2 DEF possible
  <2>3. \/ x = c \/ x \in cmd_install(c) \/ x = uninstalled(c) \/ x = grant_permissions(c, Sdk[d])
        \/ x = cmd_tunnel(c, t.transport) \/ x = cmd_stop(c)
        \/ Head(t.todo) = "launch" /\ x \in launched(c, t.sdk, t.ssid)
    BY <1>2 DEF effects
  <2>. HIDE DEF c, t
  <2>4. /\ Whole(c) /\ Whole(uninstalled(c)) /\ Whole(grant_permissions(c, Sdk[d]))
        /\ Whole(cmd_tunnel(c, t.transport)) /\ Whole(cmd_stop(c))
    BY <2>1, ClientWhole
  <2>5. /\ \A y \in cmd_install(c) : Whole(y)
        /\ c.version # "none" => \A y \in launched(c, t.sdk, t.ssid) : Whole(y)
    BY <2>1, ClientWhole
  <2>. QED
    BY <2>2, <2>3, <2>4, <2>5
<1>3. ASSUME NEW d \in target(threads[i].serial), NEW x \in leavings(threads[i], d)
      PROVE  Whole(x)
  <2>. DEFINE c == client[d]
              t == threads[i]
  <2>1. Whole(c)
    BY <1>1
  <2>2. \/ x = c \/ x \in cmd_install_fails(c) \/ x = disconnected(c) \/ x = without_portal(c, t.sdk)
    BY <1>3 DEF leavings
  <2>. HIDE DEF c, t
  <2>3. /\ Whole(c) /\ Whole(disconnected(c)) /\ Whole(without_portal(c, t.sdk))
        /\ \A y \in cmd_install_fails(c) : Whole(y)
    BY <2>1, ClientWhole
  <2>. QED
    BY <2>2, <2>3
<1>4. CASE Call(i)
  <2>1. PICK d \in target(threads[i].serial) : possible(threads[i], d)
             /\ \E x \in effects(threads[i], d) : client' = [client EXCEPT ![d] = x]
    BY <1>4 DEF Call
  <2>. QED
    BY <1>0, <1>1, <1>2, <2>1, OneClient
<1>5. CASE CallRefused(i) \/ CallFails(i)
  <2>1. CASE client' = client
    BY <1>0, <2>1
  <2>2. CASE \E d \in target(threads[i].serial) : \E x \in leavings(threads[i], d) :
                client' = [client EXCEPT ![d] = x]
    BY <1>0, <1>1, <1>3, <2>2, OneClient
  <2>. QED
    BY <1>5, <2>1, <2>2 DEF CallRefused, CallFails
<1>6. CASE Register(i)
  BY <1>0, <1>6 DEF Register, adbVars
<1>. QED
  BY <1>4, <1>5, <1>6 DEF Step

\* While the devices and their clients stay, so does what is known of them.
LEMMA SameDevices ==
  ASSUME StopInv, UNCHANGED <<dev, client, main, to_stop, late>>
  PROVE  StopInv'
BY DEF StopInv, Ready

\* A thread that starts a client during the stop is noted.
LEMMA ThreadStop ==
  ASSUME StopInv, NEW i, ThreadStep(i)
  PROVE  StopInv'
<1>1. /\ DOMAIN client' = Serial /\ \A d \in Serial : Whole(client'[d])
      /\ dev' = dev
  BY StepWhole DEF StopInv, ThreadStep
<1>2. main' = main /\ to_stop' = to_stop /\ Ready' = Ready /\ Ready \subseteq Serial
  BY <1>1 DEF ThreadStep, Ready
<1>3. late' = IF main \in {"stopping", "exited"}
              THEN late \cup {d \in Serial : client'[d].vpn /\ ~client[d].vpn} ELSE late
  BY DEF ThreadStep, noted
<1>4. \A d \in Ready : client'[d].vpn => client[d].vpn \/ main \notin {"stopping", "exited"} \/ d \in late'
  BY <1>2, <1>3
<1>5. late \subseteq late'
  BY <1>3
<1>. QED
  BY <1>1, <1>2, <1>3, <1>4, <1>5 DEF StopInv

\* A device that comes during the stop is noted.
LEMMA PlugStop ==
  ASSUME StopInv, NEW d \in Serial, DeviceComes(d)
  PROVE  StopInv'
<1>1. client' = client /\ main' = main /\ to_stop' = to_stop /\ DOMAIN dev' = Serial
  BY DEF StopInv, DeviceComes, Plug
<1>2. Ready' \subseteq Ready \cup {d}
  BY DEF StopInv, DeviceComes, Plug, Ready
<1>3. late' = IF main \in {"stopping", "exited"} THEN late \cup {d} ELSE late
  BY DEF DeviceComes, noted
<1>. QED
  BY <1>1, <1>2, <1>3 DEF StopInv

\* A device that leaves, alone or with the server, takes nothing from the others.
LEMMA LeaveStop ==
  ASSUME StopInv, AdbDies \/ \E d \in Serial : DeviceLeaves(d)
  PROVE  StopInv'
<1>1. main' = main /\ to_stop' = to_stop /\ late' = late
  BY DEF AdbDies, DeviceLeaves, mainVars
<1>2. /\ DOMAIN client' = Serial /\ DOMAIN dev' = Serial /\ Ready' \subseteq Ready
      /\ \A d \in Serial : client'[d] \in {client[d], disconnected(client[d])}
  <2>1. CASE AdbDies
    BY <2>1 DEF StopInv, AdbDies, ServerDies, Ready
  <2>2. CASE \E d \in Serial : DeviceLeaves(d)
    BY <2>2 DEF StopInv, DeviceLeaves, Unplug, Ready
  <2>. QED
    BY <2>1, <2>2
<1>3. \A d \in Serial : Whole(client'[d]) /\ client'[d].vpn = client[d].vpn
  BY <1>2, ClientWhole DEF StopInv
<1>4. Ready \subseteq Serial
  BY DEF Ready
<1>. QED
  BY <1>1, <1>2, <1>3, <1>4 DEF StopInv

\* One client is stopped, or is known to be left.
LEMMA ClientStop ==
  ASSUME StopInv, NEW d \in Serial, StopClient(d)
  PROVE  StopInv'
<1>1. main = "stopping" /\ main' = main /\ dev' = dev /\ Ready' = Ready /\ to_stop' = to_stop \ {d}
      /\ late \subseteq late' /\ Ready \subseteq Serial
  BY DEF StopClient, Ready
<1>2. CASE client' = [client EXCEPT ![d] = cmd_stop(@)]
  <2>1. DOMAIN client' = Serial /\ \A e \in Serial : Whole(client'[e])
    BY <1>2, ClientWhole, OneClient DEF StopInv
  <2>2. \A e \in Serial : client'[e].vpn => e # d /\ client[e].vpn
    BY <1>2, ClientWhole DEF StopInv
  <2>. QED
    BY <1>1, <2>1, <2>2 DEF StopInv
<1>3. CASE client' = client /\ (d \in late' \/ d \notin Ready \/ client[d].version = "none")
  <2>1. d \in Ready /\ client[d].vpn => d \in late'
    BY <1>3 DEF StopInv, Whole
  <2>. QED
    BY <1>1, <1>3, <2>1 DEF StopInv
<1>. QED
  BY <1>2, <1>3 DEF StopClient

\* The list of Ctrl+C has every client that is to be stopped.
LEMMA InterruptStop ==
  ASSUME StopInv, Interrupt
  PROVE  StopInv'
<1>1. main' = "stopping" /\ dev' = dev /\ client' = client /\ Ready' = Ready /\ Ready \subseteq Serial
  BY DEF Interrupt, Ready
<1>2. late' = Serial \ to_stop' \/ late' = Serial
  BY DEF Interrupt
<1>. QED
  BY <1>1, <1>2 DEF StopInv

\* Every step of the host keeps what is known of the stop.
LEMMA StepStop ==
  ASSUME StopInv, [HostNext]_allVars
  PROVE  StopInv'
<1>1. ASSUME UNCHANGED <<dev, client>>, main' \notin {"stopping", "teardown", "exited"}
      PROVE  StopInv'
  BY <1>1 DEF StopInv
<1>2. ASSUME UNCHANGED <<dev, client>>, main' \in {"teardown", "exited"}, late' = Serial
      PROVE  StopInv'
  <2>1. Ready' \subseteq Serial
    BY DEF Ready
  <2>. QED
    BY <1>2, <2>1 DEF StopInv
<1>3. CASE Begin
  BY <1>1, <1>2, <1>3 DEF Begin, hostVars, adbVars
<1>4. CASE SetUpWifi \/ Launch \/ Kill \/ Again
  BY <1>1, <1>4 DEF SetUpWifi, Launch, Kill, Again, hostVars, adbVars
<1>5. CASE RelayEnded
  BY <1>2, <1>5 DEF RelayEnded, hostVars, adbVars
<1>6. CASE Exit
  <2>1. UNCHANGED <<dev, client, late>> /\ main' = "exited" /\ Ready' = Ready
    BY <1>6 DEF Exit, adbVars, Ready
  <2>2. \A d \in Ready : client[d].vpn => d \in late
    BY <1>6 DEF Exit, StopInv, Ready
  <2>. QED
    BY <2>1, <2>2 DEF StopInv
<1>7. CASE Interrupt \/ AdbDies \/ \E d \in Serial : StopClient(d) \/ DeviceComes(d) \/ DeviceLeaves(d)
  BY <1>7, InterruptStop, LeaveStop, ClientStop, PlugStop
<1>8. CASE \E i \in 1 .. MaxThreads : ThreadStep(i)
  BY <1>8, ThreadStop
<1>9. ASSUME NEW d, NEW cmd, OtherCommand(cmd, d) PROVE StopInv'
  BY <1>9, SameDevices DEF OtherCommand, adbVars, mainVars
<1>10. CASE MonitorStep
  <2>1. UNCHANGED <<dev, client>>
    BY <1>10 DEF MonitorStep, Monitor, read_from, track_devices, consume_okay, next_packet_fails,
                 repair_adb_daemon, Handle, adbVars
  <2>. QED
    BY <1>10, <2>1, SameDevices DEF MonitorStep, mainVars
<1>11. CASE RelayStep
  <2>1. UNCHANGED <<dev, client>>
    BY <1>11 DEF RelayStep, Relay, Bind, Connected, SessionEnds, TimedOut, Tick, Accept, Disconnect,
                 hostVars, adbVars
  <2>. QED
    BY <1>11, <2>1, SameDevices DEF RelayStep, mainVars
<1>12. CASE TimePasses \/ UNCHANGED allVars
  BY <1>12, SameDevices DEF TimePasses, allVars, hostVars, adbVars, mainVars
<1>. QED
  BY <1>3, <1>4, <1>5, <1>6, <1>7, <1>8, <1>9, <1>10, <1>11, <1>12 DEF HostNext

\* StoppedOnExit for every run (stop_all_connected_devices(), cmd_stop()): an orderly exit
\* leaves no client running unnoticed.
THEOREM ClientsAreStopped == HostSpec => []StoppedOnExit
<1>1. HostInit => StopInv
  <2>. SUFFICES ASSUME HostInit PROVE StopInv
    OBVIOUS
  <2>1. /\ plan \in Plans /\ main = "begin" /\ dev = plan.dev
        /\ client = [d \in Serial |->
             [version |-> plan.version, granted |-> FALSE, tunnel |-> "none", vpn |-> FALSE,
              portal |-> TRUE, ssid |-> None]]
    BY DEF HostInit
  <2>2. \A d \in Serial : Whole(client[d])
    BY <2>1 DEF Whole
  <2>. QED
    BY <2>1, <2>2, PlansAssumption DEF StopInv
<1>2. StopInv /\ [HostNext]_allVars => StopInv'
  BY StepStop
<1>3. StopInv => StoppedOnExit
  BY DEF StopInv, StoppedOnExit
<1>. QED
  BY <1>1, <1>2, <1>3, PTL DEF HostSpec

-----------------------------------------------------------------------------
(* Probes *)

\* How long run_forward() sleeps after its probe number k, or after what it took for a session.
Gap(k) == IF k = 0 THEN 1 ELSE IF k = 1 THEN 2 ELSE IF k = 2 THEN 4 ELSE 8

\* The last probe was number k in a row: the ones before it are at least as far from it as
\* the sleeps in between.
Spaced(k, a) ==
  /\ k = 0 => Len(a) <= 1
  /\ k = 1 => Len(a) <= 2 /\ (Len(a) >= 2 => a[2] >= a[1] + 1)
  /\ k = 2 => Len(a) <= 3 /\ (Len(a) >= 2 => a[2] >= a[1] + 2) /\ (Len(a) >= 3 => a[3] >= a[1] + 3)
  /\ k = 3 => /\ Len(a) <= 5
              /\ Len(a) >= 2 => a[2] >= a[1] + 4
              /\ Len(a) >= 3 => a[3] >= a[1] + 6
              /\ Len(a) >= 4 => a[4] >= a[1] + 7
              /\ Len(a) >= 5 => a[5] >= a[1] + 15

\* Where the relay sleeps after a probe, and when it ends, is known to the period.
ProbeInv ==
  /\ consecutive_probes \in 0 .. 3 /\ left \in Nat
  /\ ages \in Seq(Nat) /\ \A i \in 1 .. Len(ages) : ages[i] <= StormTicks
  /\ Spaced(consecutive_probes, ages)
  /\ relay = "sleeping" => left >= 1 /\ (ages # << >> => ages[1] + left = Gap(consecutive_probes))
  /\ relay = "connecting" /\ ages # << >> => ~waited /\ ages[1] = Gap(consecutive_probes)
  /\ relay \in {"off", "binding", "listening", "session"} => ages = << >>
  /\ main \notin {"running", "stopping", "teardown"} => relay = "off"

\* recent() keeps a beginning, in which nothing is old.
LEMMA RecentIs ==
  ASSUME NEW s \in Seq(Nat)
  PROVE  /\ recent(s) \in Seq(Nat) /\ Len(recent(s)) <= Len(s)
         /\ \A i \in 1 .. Len(recent(s)) : recent(s)[i] = s[i] /\ s[i] <= StormTicks
<1>. DEFINE old == {i \in DOMAIN s : s[i] > StormTicks}
<1>1. DOMAIN s = 1 .. Len(s) /\ Len(s) \in Nat
  OBVIOUS
<1>2. CASE old = {}
  <2>1. recent(s) = s
    BY <1>2 DEF recent
  <2>2. \A i \in 1 .. Len(s) : s[i] <= StormTicks
    BY <1>1, <1>2 DEF StormTicks
  <2>. QED
    BY <2>1, <2>2
<1>3. CASE old # {}
  <2>1. PICK n \in old : \A m \in old : n <= m
    <3>1. old \subseteq Nat
      BY <1>1
    <3>. QED
      BY <1>3, <3>1, LeastNumber
  <2>2. Min(old) \in old /\ \A m \in old : Min(old) <= m
    BY <2>1 DEF Min
  <2>3. PICK k \in Nat : k + 1 \in old /\ Min(old) = k + 1 /\ \A m \in old : k + 1 <= m
    <3>1. \A m \in old : m - 1 \in Nat /\ (m - 1) + 1 = m
      BY <1>1
    <3>. HIDE DEF old
    <3>. QED
      BY <2>2, <3>1
  <2>4. recent(s) = SubSeq(s, 1, k)
    <3>1. recent(s) = SubSeq(s, 1, Min(old) - 1)
      BY <1>3 DEF recent
    <3>. HIDE DEF old
    <3>2. Min(old) - 1 = k
      BY <2>3
    <3>. QED
      BY <3>1, <3>2
  <2>5. k < Len(s) /\ \A i \in 1 .. k : i \in 1 .. Len(s) /\ i \notin old
    BY <1>1, <2>3
  <2>6. \A i \in 1 .. k : s[i] \in Nat /\ ~(s[i] > StormTicks)
    BY <1>1, <2>5
  <2>7. \A i \in 1 .. k : s[i] <= StormTicks
    BY <2>6 DEF StormTicks
  <2>8. SubSeq(s, 1, k) \in Seq(Nat) /\ Len(SubSeq(s, 1, k)) = k
        /\ \A i \in 1 .. k : SubSeq(s, 1, k)[i] = s[i]
    BY <1>1, <2>5
  <2>. QED
    BY <2>4, <2>5, <2>7, <2>8
<1>. QED
  BY <1>2, <1>3

\* One more connection that was closed at once, k being the probes before it.
LEMMA OneMore ==
  ASSUME NEW s \in Seq(Nat), \A i \in 1 .. Len(s) : s[i] <= StormTicks,
         NEW k \in 0 .. 3, Spaced(k, s), s # << >> => s[1] = Gap(k)
  PROVE  /\ <<0>> \o s \in Seq(Nat) /\ (<<0>> \o s)[1] = 0 /\ <<0>> \o s # << >>
         /\ \A i \in 1 .. Len(<<0>> \o s) : (<<0>> \o s)[i] <= StormTicks
         /\ Spaced(IF k < 3 THEN k + 1 ELSE 3, <<0>> \o s)
<1>. DEFINE t == <<0>> \o s
<1>1. t \in Seq(Nat) /\ Len(t) = Len(s) + 1 /\ t[1] = 0 /\ t # << >> /\ Len(s) \in Nat
      /\ \A i \in 1 .. Len(s) : t[i + 1] = s[i] /\ s[i] \in Nat
  OBVIOUS
<1>. HIDE DEF t
<1>2. \A i \in 1 .. Len(t) : t[i] <= StormTicks
  <2>. SUFFICES ASSUME NEW i \in 1 .. Len(t), i # 1
                PROVE  t[i] <= StormTicks
    BY <1>1 DEF StormTicks
  <2>1. i - 1 \in 1 .. Len(s) /\ (i - 1) + 1 = i
    BY <1>1
  <2>2. t[i] = s[i - 1]
    BY <1>1, <2>1
  <2>. QED
    BY <2>1, <2>2
<1>3. Len(s) >= 1 => s[1] = Gap(k)
  BY <1>1
<1>4. /\ Len(s) >= 1 => t[2] = s[1] /\ s[1] \in Nat
      /\ Len(s) >= 2 => t[3] = s[2] /\ s[2] \in Nat
      /\ Len(s) >= 3 => t[4] = s[3] /\ s[3] \in Nat
      /\ Len(s) >= 4 => t[5] = s[4] /\ s[4] \in Nat
      /\ Len(s) >= 5 => s[5] <= 16 /\ s[5] \in Nat
  <2>1. \A i \in 1 .. Len(s) : t[i + 1] = s[i] /\ s[i] \in Nat /\ s[i] <= 16
    BY <1>1 DEF StormTicks
  <2>2. Len(s) >= 1 => 1 \in 1 .. Len(s) /\ 1 + 1 = 2
    BY <1>1
  <2>3. Len(s) >= 2 => 2 \in 1 .. Len(s) /\ 2 + 1 = 3
    BY <1>1
  <2>4. Len(s) >= 3 => 3 \in 1 .. Len(s) /\ 3 + 1 = 4
    BY <1>1
  <2>5. Len(s) >= 4 => 4 \in 1 .. Len(s) /\ 4 + 1 = 5
    BY <1>1
  <2>6. Len(s) >= 5 => 5 \in 1 .. Len(s)
    BY <1>1
  <2>. QED
    BY <2>1, <2>2, <2>3, <2>4, <2>5, <2>6
<1>5. Spaced(IF k < 3 THEN k + 1 ELSE 3, t)
  <2>1. CASE k = 0
    BY <1>1, <1>3, <1>4, <2>1 DEF Spaced, Gap
  <2>2. CASE k = 1
    BY <1>1, <1>3, <1>4, <2>2 DEF Spaced, Gap
  <2>3. CASE k = 2
    BY <1>1, <1>3, <1>4, <2>3, SMTT(30) DEF Spaced, Gap
  <2>4. CASE k = 3
    <3>1. Len(s) >= 1 => s[1] = 8
      BY <1>3, <2>4 DEF Gap
    <3>2. /\ Len(s) <= 5
          /\ Len(s) >= 2 => s[2] >= 12
          /\ Len(s) >= 3 => s[3] >= 14
          /\ Len(s) >= 4 => s[4] >= 15
          /\ Len(s) >= 5 => s[5] >= 23
      <4>1. /\ Len(s) <= 5
            /\ Len(s) >= 2 => s[2] >= s[1] + 4
            /\ Len(s) >= 3 => s[3] >= s[1] + 6
            /\ Len(s) >= 4 => s[4] >= s[1] + 7
            /\ Len(s) >= 5 => s[5] >= s[1] + 15
        BY <2>4, Zenon DEF Spaced
      <4>2. ASSUME Len(s) >= 2 PROVE s[2] >= 12
        <5>1. Len(s) >= 1
          BY <1>1, <4>2
        <5>2. s[1] = 8 /\ s[2] \in Nat /\ s[2] >= s[1] + 4
          BY <1>4, <3>1, <4>1, <4>2, <5>1, Zenon
        <5>. QED
          BY <5>2
      <4>3. ASSUME Len(s) >= 3 PROVE s[3] >= 14
        <5>1. Len(s) >= 1
          BY <1>1, <4>3
        <5>2. s[1] = 8 /\ s[3] \in Nat /\ s[3] >= s[1] + 6
          BY <1>4, <3>1, <4>1, <4>3, <5>1, Zenon
        <5>. QED
          BY <5>2
      <4>4. ASSUME Len(s) >= 4 PROVE s[4] >= 15
        <5>1. Len(s) >= 1
          BY <1>1, <4>4
        <5>2. s[1] = 8 /\ s[4] \in Nat /\ s[4] >= s[1] + 7
          BY <1>4, <3>1, <4>1, <4>4, <5>1, Zenon
        <5>. QED
          BY <5>2
      <4>5. ASSUME Len(s) >= 5 PROVE s[5] >= 23
        <5>1. Len(s) >= 1
          BY <1>1, <4>5
        <5>2. s[1] = 8 /\ s[5] \in Nat /\ s[5] >= s[1] + 15
          BY <1>4, <3>1, <4>1, <4>5, <5>1, Zenon
        <5>. QED
          BY <5>2
      <4>. QED
        BY <4>1, <4>2, <4>3, <4>4, <4>5
    <3>3. Len(s) <= 4
      BY <1>1, <1>4, <3>2
    <3>4. /\ Len(t) <= 5
          /\ Len(t) >= 2 => t[2] >= t[1] + 4
          /\ Len(t) >= 3 => t[3] >= t[1] + 6
          /\ Len(t) >= 4 => t[4] >= t[1] + 7
          /\ Len(t) >= 5 => t[5] >= t[1] + 15
      <4>1. ASSUME Len(t) >= 2 PROVE t[2] >= t[1] + 4
        BY <1>1, <1>4, <3>1, <3>2, <3>3, <4>1
      <4>2. ASSUME Len(t) >= 3 PROVE t[3] >= t[1] + 6
        BY <1>1, <1>4, <3>1, <3>2, <3>3, <4>2, SMTT(30)
      <4>3. ASSUME Len(t) >= 4 PROVE t[4] >= t[1] + 7
        BY <1>1, <1>4, <3>1, <3>2, <3>3, <4>3
      <4>4. ASSUME Len(t) >= 5 PROVE t[5] >= t[1] + 15
        BY <1>1, <1>4, <3>1, <3>2, <3>3, <4>4
      <4>5. Len(t) <= 5
        BY <1>1, <3>3
      <4>. QED
        BY <4>1, <4>2, <4>3, <4>4, <4>5
    <3>5. Spaced(3, t)
      BY <3>4 DEF Spaced
    <3>. QED
      BY <2>4, <3>5
  <2>. QED
    BY <2>1, <2>2, <2>3, <2>4
<1>. QED
  BY <1>1, <1>2, <1>5 DEF t

\* The lengths of the sleeps.
LEMMA RetryIs ==
  ASSUME consecutive_probes \in 0 .. 3, retry
  PROVE  /\ relay' = "sleeping" /\ consecutive_probes' \in 0 .. 3
         /\ consecutive_probes' = (IF waited THEN 0 ELSE IF consecutive_probes < 3 THEN consecutive_probes + 1 ELSE 3)
         /\ left' = Gap(consecutive_probes') /\ left' \in Nat /\ left' >= 1
<1>1. 2 ^ 1 = 2 /\ 2 ^ 2 = 4 /\ 2 ^ 3 = 8
  OBVIOUS
<1>2. CASE waited
  BY <1>2 DEF retry, Gap
<1>3. CASE ~waited
  <2>. DEFINE probes == IF consecutive_probes < 3 THEN consecutive_probes + 1 ELSE 3
  <2>1. probes \in 1 .. 3 /\ consecutive_probes' = probes /\ left' = 2 ^ probes /\ relay' = "sleeping"
    BY <1>3 DEF retry, backoff
  <2>. HIDE DEF probes
  <2>2. 2 ^ probes = Gap(probes) /\ Gap(probes) \in Nat /\ Gap(probes) >= 1
    <3>1. CASE probes = 1
      BY <1>1, <3>1 DEF Gap
    <3>2. CASE probes = 2
      BY <1>1, <3>2 DEF Gap
    <3>3. CASE probes = 3
      BY <1>1, <3>3 DEF Gap
    <3>. QED
      BY <2>1, <3>1, <3>2, <3>3
  <2>. QED
    BY <1>3, <2>1, <2>2 DEF probes
<1>. QED
  BY <1>2, <1>3

\* The steps of the relay's thread.
LEMMA RelayProbe ==
  ASSUME ProbeInv, RelayStep
  PROVE  ProbeInv'
<1>1. main' = main
  BY DEF RelayStep, mainVars
<1>. DEFINE k == consecutive_probes
<1>2. CASE Connected
  <2>1. main \in {"running", "stopping", "teardown"} /\ relay = "connecting"
    BY <1>2 DEF ProbeInv, Connected
  <2>2. CASE relay' = "session" /\ ages' = << >> /\ UNCHANGED <<left, consecutive_probes>>
    <3>1. Spaced(k, << >>) /\ << >> \in Seq(Nat) /\ Len(<< >>) = 0
      BY DEF Spaced
    <3>. QED
      BY <1>1, <2>1, <2>2, <3>1 DEF ProbeInv
  <2>3. CASE retry /\ ages' = <<0>> \o ages
    <3>1. /\ relay' = "sleeping" /\ k' \in 0 .. 3
          /\ k' = (IF waited THEN 0 ELSE IF k < 3 THEN k + 1 ELSE 3)
          /\ left' = Gap(k') /\ left' \in Nat /\ left' >= 1
      BY <2>3, RetryIs DEF ProbeInv
    <3>2. CASE ages = << >>
      <4>1. ages' = <<0>>
        BY <2>3, <3>2
      <4>2. Spaced(k', <<0>>) /\ <<0>> \in Seq(Nat) /\ Len(<<0>>) = 1 /\ <<0>>[1] = 0 /\ <<0>> # << >>
        BY <3>1 DEF Spaced
      <4>. HIDE DEF k
      <4>. QED
        BY <1>1, <2>1, <3>1, <4>1, <4>2 DEF ProbeInv, StormTicks, k
    <3>3. CASE ages # << >>
      <4>1. ~waited /\ ages[1] = Gap(k) /\ k \in 0 .. 3
        BY <2>1, <3>3 DEF ProbeInv
      <4>2. /\ ages' \in Seq(Nat) /\ ages'[1] = 0 /\ ages' # << >>
            /\ \A i \in 1 .. Len(ages') : ages'[i] <= StormTicks
            /\ Spaced(k', ages')
        BY <2>3, <3>1, <4>1, OneMore DEF ProbeInv
      <4>3. Gap(k') \in Nat
        BY <3>1
      <4>. QED
        BY <1>1, <2>1, <3>1, <4>2, <4>3 DEF ProbeInv
    <3>. QED
      BY <3>2, <3>3
  <2>. QED
    BY <1>2, <2>2, <2>3 DEF Connected
<1>3. CASE SessionEnds
  <2>1. main \in {"running", "stopping", "teardown"} /\ ages' = << >>
    BY <1>3 DEF ProbeInv, SessionEnds
  <2>2. relay' = "sleeping" /\ k' \in 0 .. 3 /\ left' \in Nat /\ left' >= 1
    BY <1>3, RetryIs DEF ProbeInv, SessionEnds
  <2>3. Spaced(k', << >>) /\ << >> \in Seq(Nat) /\ Len(<< >>) = 0
    BY <2>2 DEF Spaced
  <2>. QED
    BY <1>1, <2>1, <2>2, <2>3 DEF ProbeInv
<1>4. CASE Tick
  <2>1. main \in {"running", "stopping", "teardown"} /\ k' = k /\ k \in 0 .. 3 /\ left' \in Nat
    <3>1. relay = "sleeping" /\ left = 1 => left' = ConnectTicks
      BY <1>4 DEF Tick
    <3>2. ~(relay = "sleeping" /\ left = 1) => left' = left \/ (left' = left - 1 /\ left >= 1)
      BY <1>4 DEF Tick, ProbeInv
    <3>3. left \in Nat
      BY DEF ProbeInv
    <3>4. main \in {"running", "stopping", "teardown"} /\ k' = k /\ k \in 0 .. 3
      BY <1>4 DEF Tick, ProbeInv
    <3>. QED
      BY <3>1, <3>2, <3>3, <3>4, RelayAssumption
  <2>2. CASE relay # "sleeping"
    <3>1. relay' = relay /\ relay \in {"connecting", "session"}
      BY <1>4, <2>2 DEF Tick
    <3>2. ages' = << >>
      <4>1. CASE relay = "connecting"
        BY <1>4, <4>1 DEF Tick
      <4>2. CASE relay = "session"
        <5>1. ages = << >>
          BY <4>2 DEF ProbeInv
        <5>2. [i \in DOMAIN ages |-> ages[i] + 1] = << >>
          BY <5>1
        <5>3. recent(<< >>) = << >>
          BY DEF recent
        <5>. QED
          BY <1>4, <4>2, <5>2, <5>3 DEF Tick
      <4>. QED
        BY <3>1, <4>1, <4>2
    <3>3. Spaced(k', << >>) /\ << >> \in Seq(Nat) /\ Len(<< >>) = 0
      BY <2>1 DEF Spaced
    <3>. QED
      BY <1>1, <2>1, <3>1, <3>2, <3>3 DEF ProbeInv
  <2>3. CASE relay = "sleeping"
    <3>. DEFINE s == [i \in DOMAIN ages |-> ages[i] + 1]
    <3>1. s \in Seq(Nat) /\ Len(s) = Len(ages) /\ \A i \in 1 .. Len(ages) : s[i] = ages[i] + 1 /\ ages[i] \in Nat
      BY DEF ProbeInv
    <3>2. ages' = recent(s)
      BY <1>4, <2>3 DEF Tick
    <3>. HIDE DEF s
    <3>3. /\ ages' \in Seq(Nat) /\ Len(ages') <= Len(ages)
          /\ \A i \in 1 .. Len(ages') : ages'[i] = ages[i] + 1 /\ ages[i] \in Nat /\ ages'[i] <= StormTicks
      <4>1. /\ ages' \in Seq(Nat) /\ Len(ages') <= Len(s)
            /\ \A i \in 1 .. Len(ages') : ages'[i] = s[i] /\ s[i] <= StormTicks
        BY <3>1, <3>2, RecentIs
      <4>2. Len(ages') \in Nat /\ Len(ages) \in Nat
        BY <4>1 DEF ProbeInv
      <4>. QED
        BY <3>1, <4>1, <4>2, SMTT(30)
    <3>4. Spaced(k, ages')
      <4>1. Len(ages') \in Nat /\ Len(ages) \in Nat
        BY <3>3 DEF ProbeInv
      <4>2. /\ Len(ages') >= 1 => ages'[1] = ages[1] + 1 /\ ages[1] \in Nat
            /\ Len(ages') >= 2 => ages'[2] = ages[2] + 1 /\ ages[2] \in Nat
            /\ Len(ages') >= 3 => ages'[3] = ages[3] + 1 /\ ages[3] \in Nat
            /\ Len(ages') >= 4 => ages'[4] = ages[4] + 1 /\ ages[4] \in Nat
            /\ Len(ages') >= 5 => ages'[5] = ages[5] + 1 /\ ages[5] \in Nat
        BY <3>3, <4>1
      <4>3. Spaced(k, ages)
        BY DEF ProbeInv
      <4>4. CASE k = 0
        BY <3>3, <4>1, <4>3, <4>4 DEF Spaced
      <4>5. CASE k = 1
        BY <3>3, <4>1, <4>2, <4>3, <4>5 DEF Spaced
      <4>. DEFINE a == ages
                  b == ages'
      <4>. HIDE DEF a, b
      <4>6. CASE k = 2
        <5>1. Len(a) <= 3 /\ (Len(a) >= 2 => a[2] >= a[1] + 2) /\ (Len(a) >= 3 => a[3] >= a[1] + 3)
          BY <4>3, <4>6, Zenon DEF Spaced, a
        <5>2. Len(b) <= 3 /\ (Len(b) >= 2 => b[2] >= b[1] + 2) /\ (Len(b) >= 3 => b[3] >= b[1] + 3)
          BY <3>3, <4>1, <4>2, <5>1, SMTT(30) DEF a, b
        <5>3. Spaced(2, b)
          BY <5>2 DEF Spaced
        <5>. QED
          BY <4>6, <5>3 DEF b
      <4>7. CASE k = 3
        <5>1. /\ Len(a) <= 5
              /\ Len(a) >= 2 => a[2] >= a[1] + 4
              /\ Len(a) >= 3 => a[3] >= a[1] + 6
              /\ Len(a) >= 4 => a[4] >= a[1] + 7
              /\ Len(a) >= 5 => a[5] >= a[1] + 15
          BY <4>3, <4>7, Zenon DEF Spaced, a
        <5>2. /\ Len(b) <= 5
              /\ Len(b) >= 2 => b[2] >= b[1] + 4
              /\ Len(b) >= 3 => b[3] >= b[1] + 6
              /\ Len(b) >= 4 => b[4] >= b[1] + 7
              /\ Len(b) >= 5 => b[5] >= b[1] + 15
          <6>1. ASSUME Len(b) >= 2 PROVE b[2] >= b[1] + 4
            <7>1. Len(b) >= 1 /\ Len(a) >= 2
              BY <3>3, <4>1, <6>1 DEF a, b
            <7>2. /\ b[1] = a[1] + 1 /\ a[1] \in Nat /\ b[2] = a[2] + 1 /\ a[2] \in Nat
                  /\ a[2] >= a[1] + 4
              BY <4>2, <5>1, <6>1, <7>1, Zenon DEF a, b
            <7>. QED
              BY <7>2
          <6>2. ASSUME Len(b) >= 3 PROVE b[3] >= b[1] + 6
            <7>1. Len(b) >= 1 /\ Len(a) >= 3
              BY <3>3, <4>1, <6>2 DEF a, b
            <7>2. /\ b[1] = a[1] + 1 /\ a[1] \in Nat /\ b[3] = a[3] + 1 /\ a[3] \in Nat
                  /\ a[3] >= a[1] + 6
              BY <4>2, <5>1, <6>2, <7>1, Zenon DEF a, b
            <7>. QED
              BY <7>2
          <6>3. ASSUME Len(b) >= 4 PROVE b[4] >= b[1] + 7
            <7>1. Len(b) >= 1 /\ Len(a) >= 4
              BY <3>3, <4>1, <6>3 DEF a, b
            <7>2. /\ b[1] = a[1] + 1 /\ a[1] \in Nat /\ b[4] = a[4] + 1 /\ a[4] \in Nat
                  /\ a[4] >= a[1] + 7
              BY <4>2, <5>1, <6>3, <7>1, Zenon DEF a, b
            <7>. QED
              BY <7>2
          <6>4. ASSUME Len(b) >= 5 PROVE b[5] >= b[1] + 15
            <7>1. Len(b) >= 1 /\ Len(a) >= 5
              BY <3>3, <4>1, <6>4 DEF a, b
            <7>2. /\ b[1] = a[1] + 1 /\ a[1] \in Nat /\ b[5] = a[5] + 1 /\ a[5] \in Nat
                  /\ a[5] >= a[1] + 15
              BY <4>2, <5>1, <6>4, <7>1, Zenon DEF a, b
            <7>. QED
              BY <7>2
          <6>5. Len(b) <= 5
            BY <3>3, <4>1, <5>1 DEF a, b
          <6>. QED
            BY <6>1, <6>2, <6>3, <6>4, <6>5
        <5>3. Spaced(3, b)
          BY <5>2 DEF Spaced
        <5>. QED
          BY <4>7, <5>3 DEF b
      <4>. QED
        BY <2>1, <4>4, <4>5, <4>6, <4>7
    <3>5. ages' # << >> => ages # << >> /\ ages'[1] = ages[1] + 1 /\ ages[1] \in Nat
      <4>1. Len(ages') \in Nat /\ Len(ages) \in Nat
        BY <3>3 DEF ProbeInv
      <4>2. ages' # << >> => Len(ages') >= 1
        BY <3>3, <4>1
      <4>. QED
        BY <3>3, <4>1, <4>2
    <3>6. Gap(k) \in Nat /\ left \in Nat /\ left >= 1 /\ (ages # << >> => ages[1] + left = Gap(k))
      BY <2>1, <2>3 DEF ProbeInv, Gap
    <3>7. CASE left = 1
      <4>1. relay' = "connecting" /\ waited' = FALSE
        BY <1>4, <2>3, <3>7 DEF Tick
      <4>2. ages' # << >> => ages'[1] = Gap(k)
        BY <3>5, <3>6, <3>7
      <4>. QED
        BY <1>1, <2>1, <3>3, <3>4, <4>1, <4>2 DEF ProbeInv
    <3>8. CASE left # 1
      <4>1. relay' = "sleeping" /\ left' = left - 1
        BY <1>4, <2>3, <3>8 DEF Tick
      <4>2. left' >= 1 /\ (ages' # << >> => ages'[1] + left' = Gap(k))
        BY <3>5, <3>6, <3>8, <4>1
      <4>. QED
        BY <1>1, <2>1, <3>3, <3>4, <4>1, <4>2 DEF ProbeInv
    <3>. QED
      BY <3>7, <3>8
  <2>. QED
    BY <2>2, <2>3
<1>5. CASE Bind
  BY <1>1, <1>5 DEF Bind, ProbeInv, forwardVars
<1>6. CASE TimedOut
  BY <1>1, <1>6 DEF TimedOut, ProbeInv, forwardVars
<1>7. CASE \E d \in Serial : Accept(d) \/ Disconnect(d)
  BY <1>1, <1>7 DEF Accept, Disconnect, ProbeInv, forwardVars
<1>. QED
  BY <1>2, <1>3, <1>4, <1>5, <1>6, <1>7 DEF RelayStep, Relay

\* Every step of the host keeps the probes apart.
LEMMA StepProbe ==
  ASSUME ProbeInv, [HostNext]_allVars
  PROVE  ProbeInv'
<1>1. ASSUME UNCHANGED relayVars, main' = main \/ main' \in {"running", "stopping", "teardown"} \/ relay = "off"
      PROVE  ProbeInv'
  BY <1>1 DEF ProbeInv, relayVars, forwardVars
<1>2. ASSUME relay' = "off", ages' = << >>, left' \in Nat, consecutive_probes' \in 0 .. 3
      PROVE  ProbeInv'
  <2>1. << >> \in Seq(Nat) /\ Len(<< >>) = 0
    OBVIOUS
  <2>2. Spaced(consecutive_probes', << >>)
    BY <1>2, <2>1 DEF Spaced
  <2>. QED
    BY <1>2, <2>1, <2>2 DEF ProbeInv
<1>3. CASE Begin \/ SetUpWifi \/ Again
  <2>1. relay = "off"
    BY <1>3 DEF Begin, SetUpWifi, Again, ProbeInv
  <2>. QED
    BY <1>1, <1>3, <2>1 DEF Begin, SetUpWifi, Again
<1>4. CASE Launch
  <2>1. ages' = << >> /\ consecutive_probes' \in 0 .. 3 /\ consecutive_probes' = consecutive_probes /\ main' = "running"
    BY <1>4 DEF Launch, ProbeInv
  <2>2. left' \in Nat /\ relay' \in {"off", "binding", "connecting"}
    BY <1>4, RelayAssumption DEF Launch
  <2>3. << >> \in Seq(Nat) /\ Len(<< >>) = 0
    OBVIOUS
  <2>4. Spaced(consecutive_probes', << >>)
    BY <2>1, <2>3 DEF Spaced
  <2>. QED
    BY <2>1, <2>2, <2>3, <2>4 DEF ProbeInv
<1>5. CASE Interrupt \/ RelayEnded
  BY <1>1, <1>5 DEF Interrupt, RelayEnded
<1>6. CASE Exit \/ Kill
  BY <1>2, <1>6 DEF Exit, Kill, process_ends
<1>7. CASE \E d \in Serial : StopClient(d) \/ DeviceComes(d) \/ DeviceLeaves(d)
  BY <1>1, <1>7 DEF StopClient, DeviceComes, DeviceLeaves, mainVars
<1>8. ASSUME NEW d, NEW cmd, OtherCommand(cmd, d) PROVE ProbeInv'
  BY <1>1, <1>8 DEF OtherCommand, mainVars
<1>9. CASE \E i \in 1 .. MaxThreads : ThreadStep(i)
  BY <1>1, <1>9 DEF ThreadStep
<1>10. CASE AdbDies \/ MonitorStep \/ TimePasses
  BY <1>1, <1>10 DEF AdbDies, MonitorStep, TimePasses, mainVars
<1>11. CASE RelayStep
  BY <1>11, RelayProbe
<1>12. CASE UNCHANGED allVars
  BY <1>1, <1>12 DEF allVars, mainVars
<1>. QED
  BY <1>3, <1>4, <1>5, <1>6, <1>7, <1>8, <1>9, <1>10, <1>11, <1>12 DEF HostNext

\* NoProbeStorm for every run (run_forward()), however the client, its tunnel and the device
\* come and go.
THEOREM ProbesAreSpaced == HostSpec => []NoProbeStorm
<1>1. HostInit => ProbeInv
  <2>1. << >> \in Seq(Nat) /\ Len(<< >>) = 0 /\ Spaced(0, << >>)
    BY DEF Spaced
  <2>. QED
    BY <2>1 DEF HostInit, ProbeInv
<1>2. ProbeInv /\ [HostNext]_allVars => ProbeInv'
  BY StepProbe
<1>3. ProbeInv => NoProbeStorm
  <2>. SUFFICES ASSUME ProbeInv PROVE NoProbeStorm
    OBVIOUS
  <2>1. Len(ages) \in Nat /\ consecutive_probes \in 0 .. 3
    BY DEF ProbeInv
  <2>. QED
    BY <2>1 DEF ProbeInv, Spaced, NoProbeStorm
<1>. QED
  BY <1>1, <1>2, <1>3, PTL DEF HostSpec

-----------------------------------------------------------------------------
(* The lists of the adb server *)

Statuses == {"absent", "unauthorized", "device"}
Letters == Serial \cup Statuses \cup DOMAIN Hexa \cup {"OKAY", "FAIL"}

\* The length field that says n.
LengthField(n) == [i \in 1 .. Field |-> digit(IF i = Field THEN n ELSE 0)]

\* l is the length of a text of n lines, and the text.
ListOf(l, t, n) ==
  n \in 0 .. Cardinality(Serial) /\ t \in Seq(Letters) /\ Len(t) = 2 * n /\ l = LengthField(2 * n) \o t

Listing == {l \in Seq(Letters) : \E t, n : ListOf(l, t, n)}

\* Max of FiniteSetsExt, for what a fold over a sequence hands to it.
LEMMA Greatest ==
  ASSUME NEW n \in Nat, NEW s \in SUBSET (1 .. n), s # {}
  PROVE  Max(s) \in s /\ \A y \in s : y <= Max(s)
<1>. DEFINE above == {m \in Nat : \A y \in s : y <= m}
<1>1. n \in above
  OBVIOUS
<1>2. PICK m \in above : \A k \in above : m <= k
  BY <1>1, LeastNumber
<1>3. m \in s
  <2>. SUFFICES ASSUME m \notin s PROVE FALSE
    OBVIOUS
  <2>1. m # 0
    <3>1. PICK y \in s : TRUE
      OBVIOUS
    <3>2. y \in 1 .. n /\ y <= m
      BY <1>2
    <3>. QED
      BY <3>2
  <2>2. m - 1 \in above /\ m - 1 < m
    BY <1>2, <2>1
  <2>. QED
    BY <1>2, <2>2
<1>4. \E x \in s : \A y \in s : x >= y
  BY <1>2, <1>3
<1>5. Max(s) \in s /\ \A y \in s : Max(s) >= y
  BY <1>4 DEF Max
<1>. QED
  BY <1>5

\* The equations that the value of the field's first k bytes satisfies.
Reads(g, field) ==
  /\ g[0] = 0
  /\ \A k \in 1 .. Len(field) : g[k - 1] \in Nat => g[k] = 16 * g[k - 1] + Hexa[field[k]]

LEMMA ParseIs ==
  ASSUME NEW field \in Seq(DOMAIN Hexa), \A i \in 1 .. Len(field) : Hexa[field[i]] \in Nat
  PROVE  \E g : Reads(g, field) /\ parse_length(field) = g[Len(field)]
<1>. DEFINE len == Len(field)
            dom == SUBSET (1 .. len)
            rank == [s \in dom |-> IF s = {} THEN 0 ELSE Max(s)]
            step == [f \in [dom -> Nat] |->
                       [s \in dom |-> IF s = {} THEN 0
                                      ELSE 16 * f[s \ {Max(s)}] + Hexa[field[Max(s)]]]]
<1>1. len \in Nat /\ DOMAIN field = 1 .. len
  OBVIOUS
<1>. DEFINE it == CHOOSE f : f = [s \in SUBSET DOMAIN field |-> IF s = {} THEN 0
                                      ELSE 16 * f[s \ {Max(s)}] + Hexa[field[Max(s)]]]
<1>2. parse_length(field) = it[DOMAIN field]
  BY Zenon DEF parse_length, FoldLeft, MapThenFoldSet
<1>3. \A s \in dom : s # {} => /\ Max(s) \in s /\ Max(s) \in 1 .. len /\ s \ {Max(s)} \in dom
                                /\ Hexa[field[Max(s)]] \in Nat
                                /\ rank[s \ {Max(s)}] < rank[s]
  <2>. SUFFICES ASSUME NEW s \in dom, s # {}
                PROVE  /\ Max(s) \in s /\ Max(s) \in 1 .. len /\ s \ {Max(s)} \in dom
                       /\ Hexa[field[Max(s)]] \in Nat
                       /\ rank[s \ {Max(s)}] < rank[s]
    OBVIOUS
  <2>1. Max(s) \in s /\ \A y \in s : y <= Max(s)
    BY <1>1, Greatest
  <2>2. Max(s) \in 1 .. len /\ s \ {Max(s)} \in dom /\ rank[s] = Max(s)
    BY <2>1
  <2>3. CASE s \ {Max(s)} = {}
    <3>1. rank[s \ {Max(s)}] = 0
      BY <2>2, <2>3
    <3>. QED
      BY <1>1, <2>1, <2>2, <3>1
  <2>4. CASE s \ {Max(s)} # {}
    <3>. DEFINE u == s \ {Max(s)}
    <3>1. Max(u) \in u
      BY <1>1, <2>2, <2>4, Greatest
    <3>2. rank[u] = Max(u)
      BY <2>2, <2>4
    <3>3. Max(u) \in s /\ Max(u) # Max(s) /\ Max(u) \in 1 .. len
      BY <3>1
    <3>4. Max(u) < Max(s)
      BY <1>1, <2>1, <2>2, <3>3
    <3>. QED
      BY <1>1, <2>1, <2>2, <3>2, <3>4
  <2>. QED
    BY <2>3, <2>4
<1>4. rank \in [dom -> Nat]
  <2>1. ASSUME NEW s \in dom PROVE (IF s = {} THEN 0 ELSE Max(s)) \in Nat
    <3>1. s # {} => Max(s) \in 1 .. len
      BY <1>3
    <3>2. s # {} => Max(s) \in Nat
      BY <1>1, <3>1
    <3>. QED
      BY <3>2
  <2>. QED
    BY <2>1
<1>5. step \in [[dom -> Nat] -> [dom -> Nat]]
  <2>1. ASSUME NEW f \in [dom -> Nat], NEW s \in dom
        PROVE  (IF s = {} THEN 0 ELSE 16 * f[s \ {Max(s)}] + Hexa[field[Max(s)]]) \in Nat
    <3>1. CASE s = {}
      BY <3>1
    <3>2. CASE s # {}
      <4>1. f[s \ {Max(s)}] \in Nat /\ Hexa[field[Max(s)]] \in Nat
        BY <1>3, <3>2
      <4>. QED
        BY <3>2, <4>1
    <3>. QED
      BY <3>1, <3>2
  <2>. QED
    BY <2>1
<1>6. ASSUME NEW f \in [dom -> Nat], NEW g \in [dom -> Nat], NEW s \in dom,
             \A e \in dom : rank[e] < rank[s] => f[e] = g[e]
      PROVE  step[f][s] = step[g][s]
  <2>1. s # {} => f[s \ {Max(s)}] = g[s \ {Max(s)}]
    BY <1>3, <1>6
  <2>. QED
    BY <2>1
<1>. HIDE DEF rank, step, dom
<1>7. PICK f \in [dom -> Nat] : f = step[f]
  <2>1. LooksBelow(step, dom, Nat, rank)
    BY <1>4, <1>5, <1>6 DEF LooksBelow
  <2>2. \E f : Solution(f, step, dom, Nat)
    BY <2>1, RecursionSolvable, Zenon
  <2>. QED
    BY <2>2 DEF Solution
<1>8. it = [s \in SUBSET DOMAIN field |-> IF s = {} THEN 0 ELSE 16 * it[s \ {Max(s)}] + Hexa[field[Max(s)]]]
  <2>1. f = [s \in dom |-> IF s = {} THEN 0 ELSE 16 * f[s \ {Max(s)}] + Hexa[field[Max(s)]]]
    <3>1. step[f] = [s \in dom |-> IF s = {} THEN 0 ELSE 16 * f[s \ {Max(s)}] + Hexa[field[Max(s)]]]
      BY DEF step
    <3>. QED
      BY <1>7, <3>1
  <2>2. dom = SUBSET DOMAIN field
    BY <1>1 DEF dom
  <2>. QED
    BY <2>1, <2>2, Zenon
<1>. HIDE DEF it
<1>. DEFINE g == [k \in 0 .. len |-> it[1 .. k]]
<1>9. g[0] = 0
  <2>1. 1 .. 0 = {} /\ {} \in SUBSET DOMAIN field /\ g[0] = it[1 .. 0]
    BY <1>1
  <2>. QED
    BY <1>8, <2>1
<1>10. ASSUME NEW k \in 1 .. len PROVE g[k] = 16 * g[k - 1] + Hexa[field[k]]
  <2>1. 1 .. k \in SUBSET DOMAIN field /\ 1 .. k # {} /\ k - 1 \in 0 .. len /\ k \in 0 .. len
    <3>1. k \in Nat /\ 1 <= k /\ k <= len
      BY <1>1
    <3>. HIDE DEF len
    <3>2. 1 \in 1 .. k /\ k - 1 \in 0 .. len /\ k \in 0 .. len
      BY <1>1, <3>1
    <3>3. \A j \in 1 .. k : j \in 1 .. len
      BY <1>1, <3>1
    <3>. QED
      BY <1>1, <3>2, <3>3
  <2>2. Max(1 .. k) = k
    <3>1. 1 .. k \in SUBSET (1 .. len) /\ 1 .. k # {}
      BY <1>1, <2>1
    <3>2. Max(1 .. k) \in 1 .. k /\ \A y \in 1 .. k : y <= Max(1 .. k)
      BY <1>1, <3>1, Greatest
    <3>. QED
      BY <3>2
  <2>3. (1 .. k) \ {k} = 1 .. (k - 1)
    BY <1>1
  <2>4. it[1 .. k] = 16 * it[(1 .. k) \ {Max(1 .. k)}] + Hexa[field[Max(1 .. k)]]
    BY <1>8, <2>1
  <2>5. g[k] = it[1 .. k] /\ g[k - 1] = it[1 .. (k - 1)]
    BY <2>1
  <2>. QED
    BY <2>2, <2>3, <2>4, <2>5
<1>11. Reads(g, field)
  BY <1>9, <1>10 DEF Reads
<1>12. parse_length(field) = g[Len(field)]
  BY <1>1, <1>2
<1>. QED
  BY <1>11, <1>12, Zenon

LEMMA ParseNat ==
  ASSUME NEW field \in Seq(DOMAIN Hexa)
  PROVE  parse_length(field) \in Nat
<1>1. \A i \in 1 .. Len(field) : Hexa[field[i]] \in Nat
  BY MonitorAssumption
<1>2. PICK g : Reads(g, field) /\ parse_length(field) = g[Len(field)]
  BY <1>1, ParseIs
<1>3. g[0] = 0 /\ \A k \in 1 .. Len(field) : g[k - 1] \in Nat => g[k] = 16 * g[k - 1] + Hexa[field[k]]
  BY <1>2 DEF Reads
<1>. DEFINE S == {k \in Nat : k <= Len(field) => g[k] \in Nat}
<1>4. 0 \in S
  BY <1>3
<1>5. ASSUME NEW k \in Nat, k \in S PROVE k + 1 \in S
  <2>. SUFFICES ASSUME k + 1 <= Len(field) PROVE g[k + 1] \in Nat
    OBVIOUS
  <2>1. k + 1 \in 1 .. Len(field) /\ (k + 1) - 1 = k /\ k <= Len(field)
    OBVIOUS
  <2>2. g[k] \in Nat /\ g[(k + 1) - 1] = g[k]
    BY <1>5, <2>1
  <2>3. g[k + 1] = 16 * g[k] + Hexa[field[k + 1]] /\ Hexa[field[k + 1]] \in Nat
    BY <1>1, <1>3, <2>1, <2>2
  <2>. QED
    BY <2>2, <2>3
<1>. HIDE DEF S
<1>6. Nat \subseteq S
  BY <1>4, <1>5, Successors
<1>7. Len(field) \in Nat /\ Len(field) <= Len(field)
  OBVIOUS
<1>. QED
  BY <1>2, <1>6, <1>7 DEF S

\* What the server's digits say is what was meant.
LEMMA DigitIs ==
  ASSUME NEW n \in 0 .. Cardinality(Serial)
  PROVE  digit(2 * n) \in DOMAIN Hexa /\ Hexa[digit(2 * n)] = 2 * n
BY MonitorAssumption DEF digit

LEMMA SerialsCounted == Cardinality(Serial) \in Nat /\ IsFiniteSet(Serial)
BY AdbAssumption, FS_CardinalityType

LEMMA LengthParsed ==
  ASSUME NEW n \in 0 .. Cardinality(Serial)
  PROVE  /\ LengthField(2 * n) \in Seq(DOMAIN Hexa) /\ Len(LengthField(2 * n)) = Field
         /\ is_length(LengthField(2 * n)) /\ parse_length(LengthField(2 * n)) = 2 * n
<1>0. Field \in Nat \ {0} /\ n \in Nat /\ 0 \in 0 .. Cardinality(Serial) /\ 2 * 0 = 0
  BY SerialsCounted, MonitorAssumption
<1>1. /\ digit(2 * n) \in DOMAIN Hexa /\ Hexa[digit(2 * n)] = 2 * n
      /\ digit(0) \in DOMAIN Hexa /\ Hexa[digit(0)] = 0
  BY <1>0, DigitIs
<1>. DEFINE l == LengthField(2 * n)
<1>2. \A i \in 1 .. Field : l[i] = IF i = Field THEN digit(2 * n) ELSE digit(0)
  BY DEF LengthField
<1>3. l \in Seq(DOMAIN Hexa) /\ Len(l) = Field /\ DOMAIN l = 1 .. Field
  <2>1. l = [i \in 1 .. Field |-> l[i]] /\ \A i \in 1 .. Field : l[i] \in DOMAIN Hexa
    BY <1>1, <1>2 DEF LengthField
  <2>. HIDE DEF l
  <2>. QED
    BY <1>0, <2>1
<1>. HIDE DEF l
<1>4. is_length(l)
  BY <1>1, <1>2, <1>3 DEF is_length, ToSet
<1>5. PICK g : Reads(g, l) /\ parse_length(l) = g[Field]
  <2>1. \A i \in 1 .. Len(l) : Hexa[l[i]] \in Nat
    BY <1>0, <1>1, <1>2, <1>3
  <2>. QED
    BY <1>3, <2>1, ParseIs
<1>6. g[0] = 0 /\ \A k \in 1 .. Field : g[k - 1] \in Nat => g[k] = 16 * g[k - 1] + Hexa[l[k]]
  BY <1>3, <1>5 DEF Reads
<1>. DEFINE S == {k \in Nat : k < Field => g[k] = 0}
<1>7. 0 \in S
  BY <1>6
<1>8. ASSUME NEW k \in Nat, k \in S PROVE k + 1 \in S
  <2>. SUFFICES ASSUME k + 1 < Field PROVE g[k + 1] = 0
    OBVIOUS
  <2>1. k + 1 \in 1 .. Field /\ k + 1 # Field /\ (k + 1) - 1 = k /\ k < Field
    BY <1>0
  <2>2. g[k] = 0 /\ Hexa[l[k + 1]] = 0
    BY <1>1, <1>2, <1>8, <2>1
  <2>3. g[(k + 1) - 1] = 0
    BY <2>1, <2>2
  <2>4. g[k + 1] = 16 * 0 + Hexa[l[k + 1]]
    BY <1>6, <2>1, <2>3
  <2>. QED
    BY <2>2, <2>4
<1>. HIDE DEF S
<1>9. Nat \subseteq S
  BY <1>7, <1>8, Successors
<1>10. Field - 1 \in Nat /\ Field \in 1 .. Field /\ Field - 1 < Field
  BY <1>0
<1>11. g[Field - 1] = 0
  BY <1>9, <1>10 DEF S
<1>12. g[Field] = 16 * g[Field - 1] + Hexa[l[Field]] /\ Hexa[l[Field]] = 2 * n
  BY <1>1, <1>2, <1>6, <1>10, <1>11
<1>13. g[Field] = 2 * n
  BY <1>0, <1>11, <1>12
<1>. QED
  BY <1>3, <1>4, <1>5, <1>13 DEF l
\* A text of two bytes a line.
LEMMA FlattenPairs ==
  ASSUME NEW A, NEW s \in Seq(Seq(A)), \A i \in 1 .. Len(s) : Len(s[i]) = 2
  PROVE  FlattenSeq(s) \in Seq(A) /\ Len(FlattenSeq(s)) = 2 * Len(s)
<1>. DEFINE S == {n \in Nat : \A t \in Seq(Seq(A)) :
                     Len(t) = n /\ (\A i \in 1 .. Len(t) : Len(t[i]) = 2) => Len(FlattenSeq(t)) = 2 * n}
<1>1. 0 \in S
  <2>. SUFFICES ASSUME NEW t \in Seq(Seq(A)), Len(t) = 0 PROVE Len(FlattenSeq(t)) = 2 * 0
    OBVIOUS
  <2>1. t = << >>
    OBVIOUS
  <2>2. FlattenSeq(t) = << >>
    BY <2>1, FlattenConcat
  <2>. QED
    BY <2>2
<1>2. ASSUME NEW n \in Nat, n \in S PROVE n + 1 \in S
  <2>. SUFFICES ASSUME NEW t \in Seq(Seq(A)), Len(t) = n + 1, \A i \in 1 .. Len(t) : Len(t[i]) = 2
                PROVE  Len(FlattenSeq(t)) = 2 * (n + 1)
    OBVIOUS
  <2>1. t # << >>
    OBVIOUS
  <2>2. PICK u \in Seq(Seq(A)), x \in Seq(A) : t = Append(u, x)
    BY <2>1, SequenceEmptyOrAppend
  <2>3. Len(u) = n /\ t[n + 1] = x /\ \A i \in 1 .. n : t[i] = u[i]
    BY <2>2
  <2>4. Len(x) = 2
    BY <2>3
  <2>5. \A i \in 1 .. Len(u) : Len(u[i]) = 2
    <3>1. \A i \in 1 .. n : i \in 1 .. Len(t)
      OBVIOUS
    <3>. QED
      BY <2>3, <3>1
  <2>6. Len(FlattenSeq(u)) = 2 * n
    BY <1>2, <2>3, <2>5
  <2>7. FlattenSeq(t) = FlattenSeq(u) \o x /\ FlattenSeq(u) \in Seq(A)
    BY <2>2, FlattenAppend
  <2>8. Len(FlattenSeq(t)) = Len(FlattenSeq(u)) + Len(x)
    BY <2>7, ConcatProperties
  <2>. QED
    BY <2>4, <2>6, <2>8
<1>. HIDE DEF S
<1>3. Nat \subseteq S
  BY <1>1, <1>2, Successors
<1>4. Len(s) \in Nat /\ Len(s) \in S
  BY <1>3
<1>. QED
  BY <1>4, FlattenConcat DEF S

\* Every list the server sends says how long it is.
LEMMA ListedIs ==
  ASSUME NEW devices \in [Serial -> Statuses]
  PROVE  listed(devices) \in Listing
<1>. DEFINE present == {d \in Serial : devices[d] # "absent"}
            n == Cardinality(present)
            lines == SetToSeq(present)
            pairs == [i \in DOMAIN lines |-> <<lines[i], devices[lines[i]]>>]
            text == FlattenSeq(pairs)
<1>1. n \in 0 .. Cardinality(Serial) /\ IsFiniteSet(present) /\ n \in Nat
  <2>1. present \in SUBSET Serial
    OBVIOUS
  <2>. HIDE DEF present
  <2>2. IsFiniteSet(present) /\ n <= Cardinality(Serial)
    BY <2>1, SerialsCounted, FS_Subset
  <2>3. n \in Nat
    BY <2>2, FS_CardinalityType
  <2>. QED
    BY <2>2, <2>3, SerialsCounted
<1>2. lines \in [1 .. n -> present]
  <2>. HIDE DEF present
  <2>1. ExistsBijection(1 .. n, present)
    BY <1>1, FS_CardinalityType
  <2>2. \E f \in [1 .. n -> present] : IsInjective(f)
    BY <2>1 DEF ExistsBijection, Bijection, Injection
  <2>. QED
    BY <2>2 DEF SetToSeq
<1>3. pairs \in Seq(Seq(Letters)) /\ Len(pairs) = n /\ \A i \in 1 .. Len(pairs) : Len(pairs[i]) = 2
  <2>1. ASSUME NEW i \in 1 .. n PROVE <<lines[i], devices[lines[i]]>> \in Seq(Letters)
    <3>1. lines[i] \in Serial
      BY <1>2
    <3>2. lines[i] \in Letters /\ devices[lines[i]] \in Letters
      BY <3>1 DEF Letters
    <3>. HIDE DEF lines
    <3>. QED
      BY <3>2
  <2>2. DOMAIN lines = 1 .. n
    BY <1>2
  <2>. HIDE DEF lines, n
  <2>3. pairs = [i \in 1 .. n |-> <<lines[i], devices[lines[i]]>>]
    BY <2>2
  <2>4. pairs \in Seq(Seq(Letters)) /\ Len(pairs) = n
    BY <1>1, <2>1, <2>3
  <2>. QED
    BY <1>1, <2>3, <2>4
<1>. HIDE DEF lines, pairs, n
<1>4. text \in Seq(Letters) /\ Len(text) = 2 * n
  BY <1>3, FlattenPairs
<1>5. listed(devices) = LengthField(Len(text)) \o text
  BY DEF listed, LengthField, pairs, lines
<1>. HIDE DEF text
<1>6. LengthField(2 * n) \in Seq(Letters)
  <2>1. LengthField(2 * n) \in Seq(DOMAIN Hexa) /\ DOMAIN Hexa \subseteq Letters
    BY <1>1, LengthParsed DEF Letters
  <2>. QED
    BY <2>1, SeqMonotonic, Zenon
<1>7. ListOf(listed(devices), text, n)
  BY <1>1, <1>4, <1>5 DEF ListOf
<1>8. LengthField(2 * n) \o text \in Seq(Letters)
  BY <1>4, <1>6
<1>. QED
  BY <1>4, <1>5, <1>7, <1>8, Zenon DEF Listing

\* What the monitor takes for the first packet is the first list.
LEMMA FirstList ==
  ASSUME NEW l \in Listing, NEW more \in Seq(Letters), NEW input \in Seq(Letters), NEW coming \in Seq(Letters),
         SameStream(input, coming, l, more), available(input) = "packet"
  PROVE  /\ packet_end(input) = Len(l) /\ Len(l) <= Len(input)
         /\ SubSeq(input, Len(l) + 1, Len(input)) \in Seq(Letters)
         /\ SameStream(SubSeq(input, Len(l) + 1, Len(input)), coming, << >>, more)
<1>1. PICK t, n : ListOf(l, t, n)
  BY DEF Listing
<1>. DEFINE h == LengthField(2 * n)
<1>2. n \in 0 .. Cardinality(Serial) /\ n \in Nat /\ t \in Seq(Letters) /\ Len(t) = 2 * n /\ l = h \o t
  BY <1>1, SerialsCounted DEF ListOf
<1>3. h \in Seq(Letters) /\ Len(h) = Field /\ parse_length(h) = 2 * n /\ Field \in Nat
  <2>1. h \in Seq(DOMAIN Hexa) /\ DOMAIN Hexa \subseteq Letters
    BY <1>2, LengthParsed DEF Letters
  <2>2. Len(h) = Field /\ parse_length(h) = 2 * n
    BY <1>2, LengthParsed
  <2>. QED
    BY <2>1, <2>2, SeqMonotonic, MonitorAssumption, Zenon
<1>. HIDE DEF h
<1>4. l \in Seq(Letters) /\ Len(l) = Field + 2 * n
  BY <1>2, <1>3, ConcatProperties
<1>5. Field <= Len(input) /\ Len(input) \in Nat
  BY <1>3 DEF available
<1>6. SubSeq(input, 1, Field) = h
  <2>. DEFINE tm == t \o more
  <2>1. tm \in Seq(Letters)
    BY <1>2
  <2>2. SameStream(input, coming, h, tm)
    <3>1. Regrouped(h, t, more)
      BY <1>2, <1>3, Associative
    <3>. QED
      BY <1>2, <3>1 DEF SameStream, Regrouped
  <2>. HIDE DEF tm
  <2>3. Exceeds(input, coming, h, tm, Letters)
    BY <1>3, <1>5, <2>1, <2>2, Longer
  <2>. QED
    BY <1>3, <2>3 DEF Exceeds
<1>7. packet_end(input) = Len(l)
  BY <1>3, <1>4, <1>6 DEF packet_end
<1>8. Len(input) - Field >= 2 * n
  BY <1>3, <1>5, <1>6 DEF available
<1>9. Len(l) <= Len(input)
  BY <1>2, <1>3, <1>4, <1>5, <1>8
<1>10. Exceeds(input, coming, l, more, Letters)
  BY <1>4, <1>9, Longer
<1>. DEFINE r == SubSeq(input, Len(l) + 1, Len(input))
<1>11. r \in Seq(Letters) /\ r \o coming = more
  BY <1>10 DEF Exceeds
<1>12. << >> \o more = more
  OBVIOUS
<1>. QED
  BY <1>7, <1>9, <1>11, <1>12 DEF SameStream

-----------------------------------------------------------------------------
(* What the monitor has still to read *)

Tracking == mon \in {"okay", "track"}
Answer == IF mon = "okay" THEN okay ELSE << >>

\* The bytes b that were read and the bytes s that were not are what the server answered
\* and the lists of part; nothing follows them while the connection is open.
Covered(b, s, o, ls, pre, part, more) ==
  /\ part \in Seq(Listing) /\ more \in Seq(Listing)
  /\ ls = part \o more /\ (o => more = << >>)
  /\ SameStream(b, s, pre, FlattenSeq(part))

Follows(b, s, o, ls, pre) == \E part, more : Covered(b, s, o, ls, pre, part, more)

FollowInv ==
  /\ dev \in [Serial -> Statuses]
  /\ bytes \in Seq(Letters) /\ stream \in Seq(Letters) /\ lists \in Seq(Listing)
  /\ main \notin {"running", "stopping", "teardown"} => mon = "off"
  /\ ~torn /\ Tracking => Follows(bytes, stream, open, lists, Answer)
  /\ ~torn /\ ~Tracking => bytes = << >>

LEMMA ListingsFlat ==
  ASSUME NEW ls \in Seq(Listing)
  PROVE  ls \in Seq(Seq(Letters)) /\ FlattenSeq(ls) \in Seq(Letters)
<1>1. Listing \subseteq Seq(Letters)
  BY DEF Listing
<1>2. ls \in Seq(Seq(Letters))
  BY <1>1, SeqMonotonic, Zenon
<1>. QED
  BY <1>2, FlattenConcat

LEMMA AnswersTyped ==
  /\ okay \in Seq(Letters) /\ Len(okay) = Field /\ fail \in Seq(Letters)
  /\ Answer \in Seq(Letters)
<1>1. Field \in Nat /\ "OKAY" \in Letters /\ "FAIL" \in Letters
  BY MonitorAssumption DEF Letters
<1>2. okay \in Seq(Letters) /\ Len(okay) = Field /\ fail \in Seq(Letters)
  BY <1>1 DEF okay, fail
<1>3. << >> \in Seq(Letters)
  OBVIOUS
<1>. QED
  BY <1>2, <1>3 DEF Answer

\* A list that is announced is read after the others.
LEMMA OneMoreList ==
  ASSUME NEW b \in Seq(Letters), NEW s \in Seq(Letters), NEW ls \in Seq(Listing), NEW pre \in Seq(Letters),
         NEW l \in Listing, Follows(b, s, TRUE, ls, pre)
  PROVE  Follows(b, s \o l, TRUE, Append(ls, l), pre) /\ s \o l \in Seq(Letters) /\ Append(ls, l) \in Seq(Listing)
<1>1. PICK part, more : Covered(b, s, TRUE, ls, pre, part, more)
  BY DEF Follows
<1>2. part \in Seq(Listing) /\ more = << >> /\ ls = part \o more /\ b \o s = pre \o FlattenSeq(part)
  BY <1>1 DEF Covered, SameStream
<1>3. ls = part
  BY <1>2
<1>4. l \in Seq(Letters)
  BY DEF Listing
<1>. DEFINE all == Append(ls, l)
            f == FlattenSeq(ls)
            g == FlattenSeq(all)
            z == s \o l
<1>5. all \in Seq(Listing) /\ all = all \o << >> /\ << >> \in Seq(Listing)
  OBVIOUS
<1>6. g = f \o l /\ f \in Seq(Letters)
  BY <1>4, ListingsFlat, FlattenAppend
<1>7. z \in Seq(Letters)
  BY <1>4
<1>. HIDE DEF all, f, g
<1>8. SameStream(b, z, pre, g)
  <2>1. Regrouped(b, s, l) /\ Regrouped(pre, f, l)
    BY <1>4, <1>6, Associative
  <2>2. b \o s = pre \o f
    BY <1>2, <1>3 DEF f
  <2>. QED
    BY <1>6, <2>1, <2>2 DEF Regrouped, SameStream
<1>. HIDE DEF z
<1>9. Covered(b, z, TRUE, all, pre, all, << >>)
  BY <1>5, <1>8 DEF Covered, g
<1>10. Follows(b, z, TRUE, all, pre)
  BY <1>9 DEF Follows
<1>. QED
  BY <1>5, <1>7, <1>10 DEF z, all

\* Only the steps of the server and of the monitor change what there is to read.
LEMMA FollowAside ==
  ASSUME FollowInv, UNCHANGED <<dev, monVars>>, main' \notin {"running", "stopping", "teardown"} => mon = "off"
  PROVE  FollowInv'
BY DEF FollowInv, monVars, streamVars, Tracking, Answer, Follows, Covered, okay

\* The server's list of the devices, after a change.
LEMMA AnnounceFollows ==
  ASSUME FollowInv, dev' \in [Serial -> Statuses], announce,
         UNCHANGED <<mon, open, bytes, torn, main>>
  PROVE  FollowInv'
<1>. DEFINE l == listed(dev')
<1>1. l \in Listing
  BY ListedIs
<1>2. l = listed(dev')
  OBVIOUS
<1>3. Tracking' = Tracking /\ Answer' = Answer /\ Answer \in Seq(Letters)
  BY AnswersTyped DEF Tracking, Answer, okay
<1>. HIDE DEF l
<1>4. CASE tracked
  <2>2. stream' = stream \o l /\ lists' = Append(lists, l) /\ Tracking /\ open
    BY <1>2, <1>4 DEF announce, tracked, Tracking
  <2>3. l \in Seq(Letters) /\ stream \o l \in Seq(Letters) /\ Append(lists, l) \in Seq(Listing)
    <3>1. l \in Seq(Letters)
      BY <1>1 DEF Listing
    <3>. QED
      BY <1>1, <3>1 DEF FollowInv
  <2>4. ASSUME ~torn PROVE Follows(bytes, stream', open', lists', Answer')
    <3>1. Follows(bytes, stream, TRUE, lists, Answer)
      BY <2>2, <2>4 DEF FollowInv, Follows, Covered
    <3>2. Follows(bytes, stream \o l, TRUE, Append(lists, l), Answer)
      BY <1>1, <1>3, <3>1, OneMoreList DEF FollowInv
    <3>. QED
      BY <1>3, <2>2, <3>2 DEF Follows, Covered
  <2>. QED
    BY <1>3, <2>2, <2>3, <2>4 DEF FollowInv
<1>5. CASE ~tracked
  <2>1. UNCHANGED <<stream, lists>>
    BY <1>5 DEF announce
  <2>. QED
    BY <1>3, <2>1 DEF FollowInv
<1>. QED
  BY <1>4, <1>5

\* What ends with a whole list is covered by the lists before it.
LEMMA WholeFollows ==
  ASSUME FollowInv, NEW s, bytes \o s \in wholes
  PROVE  Follows(bytes, s, FALSE, lists, Answer)
<1>1. PICK k \in 0 .. Len(lists) : bytes \o s = Answer \o FlattenSeq(SubSeq(lists, 1, k))
  BY DEF wholes, Answer
<1>2. lists \in Seq(Listing)
  BY DEF FollowInv
<1>3. SplitsAt(lists, k, Listing)
  BY <1>2, SplitAt
<1>. DEFINE part == SubSeq(lists, 1, k)
            more == SubSeq(lists, k + 1, Len(lists))
<1>4. part \in Seq(Listing) /\ more \in Seq(Listing) /\ part \o more = lists
  BY <1>3, Zenon DEF SplitsAt
<1>5. SameStream(bytes, s, Answer, FlattenSeq(part))
  BY <1>1, Zenon DEF SameStream
<1>. HIDE DEF part, more
<1>6. Covered(bytes, s, FALSE, lists, Answer, part, more)
  BY <1>4, <1>5 DEF Covered
<1>. QED
  BY <1>6 DEF Follows

LEMMA DiesFollows ==
  ASSUME FollowInv, NEW n \in 0 .. Len(stream), ServerDies(n), main' = main
  PROVE  FollowInv'
<1>1. /\ mon' = mon /\ bytes' = bytes /\ lists' = lists /\ open' = FALSE
      /\ dev' = [d \in Serial |-> "absent"] /\ stream' = SubSeq(stream, 1, n)
      /\ torn' = (torn \/ (mon \in {"okay", "track"} /\ bytes \o stream' \notin wholes))
  BY DEF ServerDies
<1>2. dev' \in [Serial -> Statuses]
  BY <1>1 DEF Statuses
<1>3. stream' \in Seq(Letters)
  <2>1. stream \in Seq(Letters)
    BY DEF FollowInv
  <2>2. SplitsAt(stream, n, Letters)
    BY <2>1, SplitAt
  <2>. QED
    BY <1>1, <2>2, Zenon DEF SplitsAt
<1>4. Tracking' = Tracking /\ Answer' = Answer
  BY <1>1 DEF Tracking, Answer, okay
<1>5. ASSUME ~torn', Tracking PROVE Follows(bytes', stream', open', lists', Answer')
  <2>1. bytes \o stream' \in wholes
    BY <1>1, <1>5 DEF Tracking
  <2>2. Follows(bytes, stream', FALSE, lists, Answer)
    BY <2>1, WholeFollows
  <2>. QED
    BY <1>1, <1>4, <2>2
<1>6. ASSUME ~torn', ~Tracking PROVE bytes' = << >>
  BY <1>1, <1>6 DEF FollowInv
<1>. QED
  BY <1>1, <1>2, <1>3, <1>4, <1>5, <1>6 DEF FollowInv

\* track_devices(): the answer and the first list.
LEMMA ConnectFollows ==
  ASSUME FollowInv, track_devices, main' = main
  PROVE  FollowInv'
<1>1. /\ mon = "connect" /\ UNCHANGED <<dev, bytes>> /\ ~Tracking
      /\ main \in {"running", "stopping", "teardown"}
  BY DEF track_devices, FollowInv, Tracking
<1>2. okay \in Seq(Letters) /\ fail \in Seq(Letters)
  BY AnswersTyped
<1>. DEFINE l == listed(dev)
<1>3. l \in Listing
  BY ListedIs DEF FollowInv
<1>4. l \in Seq(Letters)
  BY <1>3 DEF Listing
<1>5. CASE mon' = "okay" /\ open' = TRUE /\ stream' = okay \o l /\ lists' = <<l>> /\ torn' = torn
  <2>. HIDE DEF l
  <2>0. stream' \in Seq(Letters) /\ lists' \in Seq(Listing)
    BY <1>2, <1>3, <1>4, <1>5
  <2>1. Answer' = okay /\ Tracking'
    BY <1>5 DEF Answer, Tracking, okay
  <2>2. ASSUME ~torn PROVE Follows(bytes', stream', open', lists', Answer')
    <3>. DEFINE ls == <<l>>
    <3>1. FlattenSeq(ls) = l /\ ls \in Seq(Listing) /\ << >> \in Seq(Listing) /\ ls = ls \o << >>
      BY <1>3, <1>4, FlattenConcat
    <3>. HIDE DEF ls
    <3>2. bytes = << >>
      BY <1>1, <2>2 DEF FollowInv
    <3>. DEFINE z == okay \o l
    <3>3. z \in Seq(Letters)
      BY <1>2, <1>4
    <3>. HIDE DEF z
    <3>4. << >> \o z = z
      BY <3>3
    <3>5. SameStream(<< >>, z, okay, FlattenSeq(ls))
      BY <3>1, <3>4 DEF SameStream, z
    <3>6. Covered(<< >>, z, TRUE, ls, okay, ls, << >>)
      BY <3>1, <3>5 DEF Covered
    <3>7. Follows(<< >>, z, TRUE, ls, okay)
      BY <3>6 DEF Follows
    <3>. QED
      BY <1>1, <1>5, <2>1, <3>2, <3>7 DEF z, ls
  <2>. QED
    BY <1>1, <1>5, <2>0, <2>1, <2>2 DEF FollowInv
<1>6. CASE stream' = fail \o fail /\ lists' = << >> /\ torn' = TRUE
  <2>1. stream' \in Seq(Letters) /\ lists' \in Seq(Listing)
    BY <1>2, <1>6
  <2>. QED
    BY <1>1, <1>6, <2>1 DEF FollowInv
<1>7. CASE mon' = "repair" /\ UNCHANGED <<open, stream, lists, torn>>
  BY <1>1, <1>7 DEF FollowInv, Tracking
<1>. QED
  BY <1>5, <1>6, <1>7 DEF track_devices

\* read_from() moves bytes from the stream to the buffer.
LEMMA ReadFollows ==
  ASSUME FollowInv, NEW n \in 1 .. Len(stream), read_from(n), main' = main
  PROVE  FollowInv'
<1>1. /\ UNCHANGED <<dev, mon, open, lists, torn>> /\ bytes' = bytes \o SubSeq(stream, 1, n)
      /\ stream' = SubSeq(stream, n + 1, Len(stream))
  BY DEF read_from, adbVars
<1>2. bytes \in Seq(Letters) /\ stream \in Seq(Letters)
  BY DEF FollowInv
<1>. DEFINE x == SubSeq(stream, 1, n)
            y == SubSeq(stream, n + 1, Len(stream))
<1>3. x \in Seq(Letters) /\ y \in Seq(Letters) /\ x \o y = stream
  <2>1. SplitsAt(stream, n, Letters)
    BY <1>2, SplitAt
  <2>. QED
    BY <2>1, Zenon DEF SplitsAt
<1>4. bytes' = bytes \o x /\ stream' = y
  BY <1>1
<1>. HIDE DEF x, y
<1>5. bytes' \o stream' = bytes \o stream /\ bytes' \in Seq(Letters) /\ stream' \in Seq(Letters)
  <2>1. Regrouped(bytes, x, y)
    BY <1>2, <1>3, Associative
  <2>. QED
    BY <1>2, <1>3, <1>4, <2>1 DEF Regrouped
<1>6. Tracking' = Tracking /\ Answer' = Answer /\ Tracking
  BY <1>1 DEF Tracking, Answer, okay, read_from, reading
<1>7. ASSUME ~torn PROVE Follows(bytes', stream', open', lists', Answer')
  <2>1. PICK part, more : Covered(bytes, stream, open, lists, Answer, part, more)
    BY <1>6, <1>7 DEF FollowInv, Follows
  <2>2. Covered(bytes', stream', open', lists', Answer', part, more)
    <3>1. SameStream(bytes', stream', Answer', FlattenSeq(part))
      BY <1>5, <1>6, <2>1 DEF Covered, SameStream
    <3>. QED
      BY <1>1, <2>1, <3>1 DEF Covered
  <2>. QED
    BY <2>2 DEF Follows
<1>. QED
  BY <1>1, <1>5, <1>6, <1>7 DEF FollowInv

\* consume_okay(): the answer is the first thing in the buffer.
LEMMA OkayFollows ==
  ASSUME FollowInv, consume_okay, main' = main
  PROVE  FollowInv'
<1>1. /\ mon = "okay" /\ Len(bytes) >= Field /\ UNCHANGED <<dev, lists, torn>>
      /\ bytes' = SubSeq(bytes, Field + 1, Len(bytes))
      /\ \/ SubSeq(bytes, 1, Field) = okay /\ mon' = "track" /\ UNCHANGED <<open, stream>>
         \/ SubSeq(bytes, 1, Field) # okay /\ mon' = "connect" /\ stream' = << >>
      /\ main \in {"running", "stopping", "teardown"}
  BY DEF consume_okay, adbVars, FollowInv
<1>2. bytes \in Seq(Letters) /\ stream \in Seq(Letters) /\ okay \in Seq(Letters) /\ Len(okay) = Field /\ Field \in Nat
  BY AnswersTyped, MonitorAssumption DEF FollowInv
<1>3. bytes' \in Seq(Letters) /\ stream' \in Seq(Letters)
  <2>1. Field \in 0 .. Len(bytes)
    BY <1>1, <1>2
  <2>2. SplitsAt(bytes, Field, Letters)
    BY <1>2, <2>1, SplitAt
  <2>3. bytes' \in Seq(Letters)
    BY <1>1, <2>2, Zenon DEF SplitsAt
  <2>4. << >> \in Seq(Letters)
    OBVIOUS
  <2>. QED
    BY <1>1, <1>2, <2>3, <2>4
<1>4. ASSUME ~torn PROVE mon' = "track" /\ Follows(bytes', stream', open', lists', Answer')
  <2>1. PICK part, more : Covered(bytes, stream, open, lists, okay, part, more)
    BY <1>1, <1>4 DEF FollowInv, Follows, Tracking, Answer
  <2>. DEFINE f == FlattenSeq(part)
  <2>2. f \in Seq(Letters) /\ SameStream(bytes, stream, okay, f)
    BY <2>1, ListingsFlat DEF Covered
  <2>. HIDE DEF f
  <2>3. Exceeds(bytes, stream, okay, f, Letters)
    BY <1>1, <1>2, <2>2, Longer
  <2>4. SubSeq(bytes, 1, Field) = okay /\ bytes' \o stream = f
    BY <1>1, <1>2, <2>3 DEF Exceeds
  <2>5. mon' = "track" /\ UNCHANGED <<open, stream, lists>>
    BY <1>1, <2>4
  <2>6. Answer' = << >>
    BY <2>5 DEF Answer
  <2>7. << >> \o f = f
    BY <2>2
  <2>8. SameStream(bytes', stream', << >>, f)
    BY <2>4, <2>5, <2>7 DEF SameStream
  <2>9. Covered(bytes', stream', open', lists', << >>, part, more)
    BY <2>1, <2>5, <2>8 DEF Covered, f
  <2>. QED
    BY <2>5, <2>6, <2>9 DEF Follows
<1>5. ~torn => Tracking'
  BY <1>4 DEF Tracking
<1>. QED
  BY <1>1, <1>3, <1>4, <1>5 DEF FollowInv

\* next_packet() fails.
LEMMA FailFollows ==
  ASSUME FollowInv, next_packet_fails, main' = main
  PROVE  FollowInv'
<1>1. << >> \in Seq(Letters)
  OBVIOUS
<1>2. main \in {"running", "stopping", "teardown"} /\ ~Tracking' /\ stream' = << >>
  BY DEF next_packet_fails, FollowInv, Tracking
<1>3. UNCHANGED <<dev, bytes, lists>> /\ torn' = (torn \/ bytes # << >>)
  BY DEF next_packet_fails, adbVars
<1>. QED
  BY <1>1, <1>2, <1>3 DEF FollowInv

\* read_packet() takes the first list, and nothing else.
LEMMA HandleFollows ==
  ASSUME FollowInv, NEW name, Handle(name), main' = main
  PROVE  FollowInv'
<1>1. /\ mon = "track" /\ available(bytes) = "packet" /\ UNCHANGED <<dev, mon, stream, open, torn>>
      /\ bytes' = SubSeq(bytes, packet_end(bytes) + 1, Len(bytes))
      /\ lists' = IF lists = << >> THEN lists ELSE Tail(lists)
  BY DEF Handle
<1>2. bytes \in Seq(Letters) /\ stream \in Seq(Letters) /\ lists \in Seq(Listing)
  BY DEF FollowInv
<1>3. lists' \in Seq(Listing)
  BY <1>1, <1>2
<1>4. bytes' \in Seq(Letters)
  <2>. DEFINE field == SubSeq(bytes, 1, Field)
              end == packet_end(bytes)
  <2>1. /\ Field \in Nat /\ Len(bytes) \in Nat /\ Field <= Len(bytes)
        /\ is_length(field) /\ Len(bytes) - Field >= parse_length(field)
    BY <1>1, <1>2, MonitorAssumption DEF available
  <2>2. field \in Seq(DOMAIN Hexa)
    <3>1. Field \in 0 .. Len(bytes)
      BY <2>1
    <3>2. SplitsAt(bytes, Field, Letters)
      BY <1>2, <3>1, SplitAt
    <3>3. field \in Seq(Letters)
      BY <3>2, Zenon DEF SplitsAt
    <3>. HIDE DEF field
    <3>4. \A i \in 1 .. Len(field) : field[i] \in DOMAIN Hexa
      BY <2>1, <3>3 DEF is_length, ToSet
    <3>. QED
      BY <3>3, <3>4
  <2>3. parse_length(field) \in Nat
    BY <2>2, ParseNat
  <2>4. end = Field + parse_length(field)
    BY DEF packet_end
  <2>5. end \in 0 .. Len(bytes)
    BY <2>1, <2>3, <2>4
  <2>. HIDE DEF end
  <2>6. SplitsAt(bytes, end, Letters)
    BY <1>2, <2>5, SplitAt
  <2>7. bytes' = SubSeq(bytes, end + 1, Len(bytes))
    BY <1>1 DEF end
  <2>. QED
    BY <2>6, <2>7, Zenon DEF SplitsAt
<1>5. ASSUME ~torn PROVE Follows(bytes', stream', open', lists', << >>)
  <2>1. PICK part, more : Covered(bytes, stream, open, lists, << >>, part, more)
    BY <1>1, <1>5 DEF FollowInv, Follows, Tracking, Answer
  <2>2. /\ part \in Seq(Listing) /\ more \in Seq(Listing) /\ lists = part \o more
        /\ (open => more = << >>) /\ SameStream(bytes, stream, << >>, FlattenSeq(part))
    BY <2>1 DEF Covered
  <2>3. part # << >>
    <3>. SUFFICES ASSUME part = << >> PROVE FALSE
      OBVIOUS
    <3>1. FlattenSeq(part) = << >> /\ << >> \o << >> = << >>
      BY FlattenConcat
    <3>2. bytes \o stream = << >>
      BY <2>2, <3>1 DEF SameStream
    <3>3. Len(bytes) + Len(stream) = 0
      BY <1>2, <3>2, ConcatProperties
    <3>4. Len(bytes) = 0
      BY <1>2, <3>3
    <3>. QED
      BY <1>1, <3>4, MonitorAssumption DEF available
  <2>. DEFINE l == part[1]
              t == Tail(part)
              f == FlattenSeq(t)
  <2>4. l \in Listing /\ t \in Seq(Listing) /\ part = <<l>> \o t
    BY <2>2, <2>3
  <2>. HIDE DEF l, t
  <2>5. l \in Seq(Letters) /\ f \in Seq(Letters)
    BY <2>4, ListingsFlat DEF Listing
  <2>6. FlattenSeq(part) = l \o f
    <3>1. t \in Seq(Seq(Letters))
      BY <2>4, ListingsFlat
    <3>. QED
      BY <2>4, <2>5, <3>1, FlattenHead
  <2>7. SameStream(bytes, stream, l, f)
    <3>. DEFINE z == l \o f
    <3>1. << >> \o z = z
      BY <2>5
    <3>. QED
      BY <2>2, <2>6, <3>1 DEF SameStream
  <2>. HIDE DEF f
  <2>8. /\ packet_end(bytes) = Len(l)
        /\ SameStream(SubSeq(bytes, Len(l) + 1, Len(bytes)), stream, << >>, f)
    BY <1>1, <1>2, <2>4, <2>5, <2>7, FirstList
  <2>9. SameStream(bytes', stream', << >>, f)
    BY <1>1, <2>8
  <2>10. lists' = t \o more
    <3>. DEFINE h == <<l>>
                tm == t \o more
    <3>1. h \in Seq(Listing) /\ Len(h) = 1 /\ tm \in Seq(Listing)
      BY <2>2, <2>4
    <3>2. Regrouped(h, t, more)
      BY <2>2, <2>4, <3>1, Associative
    <3>3. lists = h \o tm
      BY <2>2, <2>4, <3>2 DEF Regrouped
    <3>. HIDE DEF tm
    <3>4. lists # << >> /\ Tail(lists) = tm
      BY <2>4, <3>1, <3>3
    <3>. QED
      BY <1>1, <3>4 DEF tm
  <2>11. Covered(bytes', stream', open', lists', << >>, t, more)
    BY <1>1, <2>2, <2>4, <2>9, <2>10 DEF Covered, f
  <2>. QED
    BY <2>11 DEF Follows
<1>6. Tracking' /\ Tracking /\ Answer' = << >>
  BY <1>1 DEF Tracking, Answer
<1>. QED
  BY <1>1, <1>2, <1>3, <1>4, <1>5, <1>6 DEF FollowInv

LEMMA MonitorFollows ==
  ASSUME FollowInv, MonitorStep
  PROVE  FollowInv'
<1>1. main' = main
  BY DEF MonitorStep, mainVars
<1>2. CASE repair_adb_daemon
  BY <1>1, <1>2 DEF repair_adb_daemon, FollowInv, Tracking, streamVars
<1>3. CASE \E n \in 1 .. Len(stream) : read_from(n)
  BY <1>1, <1>3, ReadFollows
<1>. QED
  BY <1>1, <1>2, <1>3, ConnectFollows, OkayFollows, FailFollows, HandleFollows DEF MonitorStep, Monitor

\* A command changes no device's state, and nothing of the monitor.
LEMMA StepDevices ==
  ASSUME NEW i, Step(i)
  PROVE  dev' = dev
BY DEF Step, Call, CallRefused, CallFails, Register, adbVars

\* Every step of the host keeps what there is to read.
LEMMA StepFollows ==
  ASSUME FollowInv, [HostNext]_allVars
  PROVE  FollowInv'
<1>1. CASE Begin \/ SetUpWifi \/ Again
  BY <1>1, FollowAside DEF Begin, SetUpWifi, Again, hostVars, adbVars, FollowInv
<1>2. CASE Launch
  <2>1. UNCHANGED <<dev, bytes, stream, lists, torn>> /\ main' = "running" /\ ~Tracking' /\ mon = "off"
    BY <1>2 DEF Launch, adbVars, streamVars, FollowInv, Tracking
  <2>. QED
    BY <2>1 DEF FollowInv, Tracking
<1>3. CASE Interrupt \/ RelayEnded
  BY <1>3, FollowAside DEF Interrupt, RelayEnded, hostVars, adbVars
<1>4. CASE Exit \/ Kill
  <2>1. mon' = "off" /\ stream' = << >> /\ bytes' = << >> /\ lists' = << >> /\ UNCHANGED <<dev, torn>>
    BY <1>4 DEF Exit, Kill, process_ends, adbVars
  <2>2. << >> \in Seq(Letters) /\ << >> \in Seq(Listing)
    OBVIOUS
  <2>. QED
    BY <2>1, <2>2 DEF FollowInv, Tracking
<1>5. ASSUME NEW d \in Serial, StopClient(d) PROVE FollowInv'
  BY <1>5, FollowAside DEF StopClient, FollowInv
<1>6. ASSUME NEW d \in Serial, DeviceComes(d) PROVE FollowInv'
  <2>1. Plug(d) /\ main' = main
    BY <1>6 DEF DeviceComes
  <2>2. announce /\ UNCHANGED <<mon, open, bytes, torn, main>>
    BY <2>1 DEF Plug
  <2>3. dev' \in [Serial -> Statuses]
    BY <2>1 DEF Plug, FollowInv, Statuses
  <2>. QED
    BY <2>2, <2>3, AnnounceFollows
<1>7. ASSUME NEW d \in Serial, DeviceLeaves(d) PROVE FollowInv'
  <2>1. Unplug(d) /\ main' = main
    BY <1>7 DEF DeviceLeaves, mainVars
  <2>2. announce /\ UNCHANGED <<mon, open, bytes, torn, main>>
    BY <2>1 DEF Unplug
  <2>3. dev' \in [Serial -> Statuses]
    BY <2>1 DEF Unplug, FollowInv, Statuses
  <2>. QED
    BY <2>2, <2>3, AnnounceFollows
<1>8. ASSUME NEW d, NEW cmd, OtherCommand(cmd, d) PROVE FollowInv'
  BY <1>8, FollowAside DEF OtherCommand, adbVars, mainVars, FollowInv
<1>9. ASSUME NEW i \in 1 .. MaxThreads, ThreadStep(i) PROVE FollowInv'
  <2>1. dev' = dev
    BY <1>9, StepDevices DEF ThreadStep
  <2>. QED
    BY <1>9, <2>1, FollowAside DEF ThreadStep, FollowInv
<1>10. CASE AdbDies
  BY <1>10, DiesFollows DEF AdbDies, mainVars
<1>11. CASE MonitorStep
  BY <1>11, MonitorFollows
<1>12. CASE RelayStep
  <2>1. UNCHANGED <<dev, monVars, main>>
    BY <1>12 DEF RelayStep, Relay, Bind, Connected, SessionEnds, TimedOut, Tick, Accept, Disconnect,
                 hostVars, adbVars, mainVars
  <2>. QED
    BY <2>1, FollowAside DEF FollowInv
<1>13. CASE TimePasses \/ UNCHANGED allVars
  BY <1>13, FollowAside DEF TimePasses, adbVars, mainVars, allVars, hostVars, FollowInv
<1>. QED
  BY <1>1, <1>2, <1>3, <1>4, <1>5, <1>6, <1>7, <1>8, <1>9, <1>10, <1>11, <1>12, <1>13 DEF HostNext

\* ListsWhole for every number of devices, length of the field and size of the buffer:
\* however the reads cut the adb server's stream, read_packet() takes its lists one by one.
THEOREM ListsAreWhole == HostSpec => []ListsWhole
<1>1. HostInit => FollowInv
  <2>. SUFFICES ASSUME HostInit PROVE FollowInv
    OBVIOUS
  <2>1. << >> \in Seq(Letters) /\ << >> \in Seq(Listing)
    OBVIOUS
  <2>2. dev \in [Serial -> Statuses]
    BY PlansAssumption DEF HostInit, Statuses
  <2>. QED
    BY <2>1, <2>2 DEF HostInit, FollowInv, Tracking
<1>2. FollowInv /\ [HostNext]_allVars => FollowInv'
  BY StepFollows
<1>3. FollowInv => ListsWhole
  <2>. SUFFICES ASSUME FollowInv, mon = "track", ~torn
                PROVE  IF open THEN bytes \o stream = FlattenSeq(lists) ELSE bytes \o stream \in wholes
    BY DEF ListsWhole
  <2>1. PICK part, more : Covered(bytes, stream, open, lists, << >>, part, more)
    BY DEF FollowInv, Follows, Tracking, Answer
  <2>2. /\ part \in Seq(Listing) /\ more \in Seq(Listing) /\ lists = part \o more
        /\ (open => more = << >>) /\ SameStream(bytes, stream, << >>, FlattenSeq(part))
    BY <2>1 DEF Covered
  <2>. DEFINE f == FlattenSeq(part)
  <2>3. f \in Seq(Letters)
    BY <2>2, ListingsFlat
  <2>4. bytes \o stream = f
    <3>. HIDE DEF f
    <3>1. << >> \o f = f
      BY <2>3
    <3>. QED
      BY <2>2, <3>1 DEF SameStream, f
  <2>5. CASE open
    <3>1. lists = part
      BY <2>2, <2>5
    <3>. QED
      BY <2>4, <2>5, <3>1
  <2>6. CASE ~open
    <3>. DEFINE k == Len(part)
    <3>1. /\ k \in 0 .. Len(lists) /\ Len(lists) \in Nat /\ lists \in Seq(Listing)
      BY <2>2
    <3>2. SplitsAt(lists, k, Listing)
      BY <3>1, SplitAt
    <3>. DEFINE x == SubSeq(lists, 1, k)
                y == SubSeq(lists, k + 1, Len(lists))
    <3>3. x \in Seq(Listing) /\ y \in Seq(Listing) /\ Len(x) = k /\ x \o y = lists
      BY <3>2, Zenon DEF SplitsAt
    <3>4. x = part
      <4>. HIDE DEF x, y
      <4>. QED
        BY <2>2, <3>3, Cancel
    <3>5. << >> \o FlattenSeq(x) = bytes \o stream
      <4>1. << >> \o f = f
        BY <2>3
      <4>. QED
        BY <2>4, <3>4, <4>1
    <3>6. bytes \o stream \in wholes
      BY <3>1, <3>5 DEF wholes
    <3>. QED
      BY <2>6, <3>6
  <2>. QED
    BY <2>5, <2>6
<1>. QED
  BY <1>1, <1>2, <1>3, PTL DEF HostSpec
=============================================================================
