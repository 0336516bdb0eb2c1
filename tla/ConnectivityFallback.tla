------------------------ MODULE ConnectivityFallback ------------------------
(***************************************************************************)
(* ConnectivityFallback.java, the thread: ensureActiveTransport() looks    *)
(* for a network under the VPN, and switches networks if it must.  A step  *)
(* ends where the thread waits, or calls the system or the preferences     *)
(* again: other threads of the app and the framework act in between.       *)
(*                                                                         *)
(* Time passes in periods of 12 s, the interval at which waitForTransport  *)
(* re-issues enableNetwork(); the deadline is a number of such periods.    *)
(* Calls that the code guards against a SecurityException may fail.        *)
(***************************************************************************)
EXTENDS Wifi

CONSTANTS Threads,            \* the fallback threads that can be alive at a time
          PreferredRetries,   \* 12 s periods in PREFERRED_SSID_ASSOC_TIMEOUT_MS
          GenericRetries      \* and in OPEN_AP_ASSOC_TIMEOUT_MS

ASSUME RetriesAssumption == PreferredRetries \in Nat /\ GenericRetries \in Nat

VARIABLES previous,     \* preference previous_ssid
          remembered,   \* preference enabled_network_ids
          fallback      \* the threads

prefs == <<previous, remembered>>

Off == [pc |-> "off", preferred |-> None, stage |-> "preferred", target |-> None,
        waiting |-> FALSE, left |-> 0]

Started(ssid) == [Off EXCEPT !.pc = "begin", !.preferred = ssid]

\* Between two attempts only the preferred SSID is kept.
Between(t, pc) == [Started(fallback[t].preferred) EXCEPT !.pc = pc]

alive(t) == fallback[t].pc # "off"

At(t, pc) == fallback[t].pc = pc

Become(t, f) == fallback' = [fallback EXCEPT ![t] = f]

Goto(t, pc) == Become(t, [fallback[t] EXCEPT !.pc = pc])

\* ensureActiveTransport() returns; the service only logs or notifies.
Return(t) == Become(t, Off)

Attempt(t, stage, ssid) ==
  Become(t, [fallback[t] EXCEPT !.pc = "remember", !.stage = stage, !.target = ssid,
                                !.waiting = FALSE, !.left = 0])

\* What is tried next when an attempt has failed.
Failed(t) ==
  CASE fallback[t].stage = "preferred" -> Become(t, Between(t, "chain"))
    [] fallback[t].stage = "tier1" -> Become(t, Between(t, "tier2"))
    [] fallback[t].stage = "tier2" -> Become(t, Between(t, "tier3"))
    [] fallback[t].stage = "tier3" -> Return(t)

retries(stage) == IF stage \in {"preferred", "tier1"} THEN PreferredRetries ELSE GenericRetries

-----------------------------------------------------------------------------
(***************************************************************************)
(* The preferred SSID.                                                     *)
(***************************************************************************)
Begin(t) ==
  /\ At(t, "begin")
  /\ CASE fallback[t].preferred = None -> Goto(t, "chain")
       [] fallback[t].preferred # None /\ getConnectedSsid = fallback[t].preferred -> Return(t)
       [] OTHER -> Goto(t, "save")
  /\ UNCHANGED <<wifiVars, prefs>>

\* Mutant of saveCurrentSsid: the network of a relay is saved too.
saveAnySsid(t) ==
  /\ At(t, "save")
  /\ previous' = IF getConnectedSsid = None THEN previous ELSE getConnectedSsid
  /\ Become(t, [fallback[t] EXCEPT !.pc = "wifi", !.target = fallback[t].preferred])
  /\ UNCHANGED <<wifiVars, remembered>>

saveCurrentSsid(t) ==
  /\ At(t, "save")
  /\ previous' = IF getConnectedSsid \in Dummies \cup {None} THEN previous ELSE getConnectedSsid
  /\ Become(t, [fallback[t] EXCEPT !.pc = "wifi", !.target = fallback[t].preferred])
  /\ UNCHANGED <<wifiVars, remembered>>

ensureWifiEnabled(t) ==
  /\ At(t, "wifi")
  /\ \/ /\ wifi' \in {wifi, TRUE}
        /\ IF fallback[t].stage # "preferred" THEN Goto(t, "scan")
           ELSE IF sdk >= Q THEN Goto(t, "clear")
           ELSE Attempt(t, "preferred", fallback[t].target)
     \/ /\ ~wifi
        /\ wifi' = wifi
        /\ IF fallback[t].stage = "preferred" THEN Failed(t) ELSE Return(t)
  /\ UNCHANGED <<sdk, status, keyed, link, named, suggested, prefs>>

\* tryConnectViaSuggestion(): clear, add, wait.
clearSuggestions(t) ==
  /\ At(t, "clear")
  /\ RemoveSuggestions
  /\ Goto(t, "suggest")
  /\ UNCHANGED <<sdk, wifi, status, keyed, link, named, prefs>>

addSuggestion(t) ==
  /\ At(t, "suggest")
  /\ \/ suggested' = suggested \cup {fallback[t].target} /\ Goto(t, "await")
     \/ UNCHANGED suggested /\ Failed(t)
  /\ UNCHANGED <<sdk, wifi, status, keyed, link, named, prefs>>

waitForSuggestion(t) ==
  /\ At(t, "await")
  /\ \/ isFullyAssociated(fallback[t].target) /\ Goto(t, "dhcp")
     \/ Goto(t, "last")
  /\ UNCHANGED <<wifiVars, prefs>>

-----------------------------------------------------------------------------
(***************************************************************************)
(* tryConnectBySsid() and waitForTransport().                              *)
(***************************************************************************)
rememberEnabledNetworks(t) ==
  /\ At(t, "remember")
  /\ Goto(t, IF sdk = KITKAT /\ remembered = None THEN "list" ELSE "config")
  /\ UNCHANGED <<wifiVars, prefs>>

listEnabledNetworks(t) ==
  /\ At(t, "list")
  /\ remembered' \in {remembered, enabled}
  /\ Goto(t, "config")
  /\ UNCHANGED <<wifiVars, previous>>

\* A retry ignores that the connection attempt failed, the first call does not.
Refused(t) == IF fallback[t].waiting THEN Goto(t, "wait") ELSE Failed(t)

\* findOrAddOpenNetwork(): remove what there is, add an open network.
findOrAddOpenNetwork(t) ==
  /\ \/ /\ status' = [status EXCEPT ![fallback[t].target] = "disabled"]
        /\ Goto(t, "enable")
     \/ /\ status' \in {status, [status EXCEPT ![fallback[t].target] = "absent"]}
        /\ Refused(t)
  /\ keyed' = keyed \ {fallback[t].target}

findExistingNetId(t) ==
  /\ \/ fallback[t].target \in saved /\ Goto(t, "enable")
     \/ Refused(t)
  /\ UNCHANGED <<status, keyed>>

\* Mutant of configure: every network is recreated as an open one.
configureOpen(t) ==
  /\ At(t, "config")
  /\ findOrAddOpenNetwork(t)
  /\ UNCHANGED <<sdk, wifi, link, named, suggested, prefs>>

configure(t) ==
  /\ At(t, "config")
  /\ IF fallback[t].target \in Dummies THEN findOrAddOpenNetwork(t) ELSE findExistingNetId(t)
  /\ UNCHANGED <<sdk, wifi, link, named, suggested, prefs>>

enableNetwork(t) ==
  /\ At(t, "enable")
  /\ \/ /\ EnableOnly(fallback[t].target)
        /\ IF fallback[t].waiting THEN Goto(t, "wait")
           ELSE Become(t, [fallback[t] EXCEPT !.pc = "wait", !.waiting = TRUE,
                                              !.left = retries(fallback[t].stage)])
     \/ Refused(t) /\ UNCHANGED wifiVars
  /\ UNCHANGED prefs

\* Mutant of waitForTransport: the retry renews the deadline.
waitForEver(t) ==
  /\ At(t, "wait")
  /\ \/ getConnectedSsid = fallback[t].target /\ Goto(t, "dhcp")
     \/ getConnectedSsid # fallback[t].target /\ fallback[t].left > 0 /\ Goto(t, "remember")
     \/ fallback[t].left = 0 /\ Goto(t, "last")
  /\ UNCHANGED <<wifiVars, prefs>>

waitForTransport(t) ==
  /\ At(t, "wait")
  /\ \/ getConnectedSsid = fallback[t].target /\ Goto(t, "dhcp")
     \/ /\ getConnectedSsid # fallback[t].target
        /\ fallback[t].left > 0
        /\ Become(t, [fallback[t] EXCEPT !.pc = "remember", !.left = fallback[t].left - 1])
     \/ fallback[t].left = 0 /\ Goto(t, "last")
  /\ UNCHANGED <<wifiVars, prefs>>

\* Associated: on KitKat that is enough, else the framework must report it.
waitForFramework(t) ==
  /\ At(t, "dhcp")
  /\ \/ Return(t)
     \/ sdk >= LOLLIPOP /\ Goto(t, "last")
  /\ UNCHANGED <<wifiVars, prefs>>

\* The last check at the deadline.
lastCheck(t) ==
  /\ At(t, "last")
  /\ \/ /\ IF sdk >= Q /\ fallback[t].stage = "preferred" THEN getConnectedSsid = fallback[t].target
           ELSE isFullyAssociated(fallback[t].target)
        /\ Return(t)
     \/ Failed(t)
  /\ UNCHANGED <<wifiVars, prefs>>

-----------------------------------------------------------------------------
(***************************************************************************)
(* The generic chain.                                                      *)
(***************************************************************************)
Scanning(t) == Become(t, [Between(t, "wifi") EXCEPT !.stage = "scan"])

hasActiveTransport(t) ==
  /\ At(t, "chain")
  /\ Return(t) \/ Goto(t, "p2p")
  /\ UNCHANGED <<wifiVars, prefs>>

tryWifiP2pGroup(t) ==
  /\ At(t, "p2p")
  /\ Return(t) \/ (IF sdk >= O THEN Goto(t, "hotspot") ELSE Scanning(t))
  /\ UNCHANGED <<wifiVars, prefs>>

tryLocalOnlyHotspot(t) ==
  /\ At(t, "hotspot")
  /\ Return(t) \/ Scanning(t)
  /\ UNCHANGED <<wifiVars, prefs>>

\* The scan fails or is empty, or the preferred SSID is in it, or it is not.
getScanResults(t) ==
  /\ At(t, "scan")
  /\ \/ Return(t)
     \/ fallback[t].preferred # None /\ Attempt(t, "tier1", fallback[t].preferred)
     \/ Become(t, Between(t, "tier2"))
  /\ UNCHANGED <<wifiVars, prefs>>

\* pickStrongest(): any saved network with a password may be the strongest.
trySavedSecure(t) ==
  /\ At(t, "tier2")
  /\ \/ \E s \in Secured \cap saved : Attempt(t, "tier2", s)
     \/ Goto(t, "tier3")
  /\ UNCHANGED <<wifiVars, prefs>>

tryOpen(t) ==
  /\ At(t, "tier3")
  /\ \/ \E s \in Open \cup Dummies : Attempt(t, "tier3", s)
     \/ Return(t)
  /\ UNCHANGED <<wifiVars, prefs>>

FallbackStep(t) ==
  \/ Begin(t) \/ saveCurrentSsid(t) \/ ensureWifiEnabled(t)
  \/ clearSuggestions(t) \/ addSuggestion(t) \/ waitForSuggestion(t)
  \/ rememberEnabledNetworks(t) \/ listEnabledNetworks(t) \/ configure(t)
  \/ enableNetwork(t) \/ waitForTransport(t) \/ waitForFramework(t) \/ lastCheck(t)
  \/ hasActiveTransport(t) \/ tryWifiP2pGroup(t) \/ tryLocalOnlyHotspot(t)
  \/ getScanResults(t) \/ trySavedSecure(t) \/ tryOpen(t)
=============================================================================
