-------------------------- MODULE GnirehtetService --------------------------
(***************************************************************************)
(* GnirehtetService.java: the requests to start and to stop the VPN, all   *)
(* on the main thread, which close() and onRevoke() keep waiting while     *)
(* restorePreviousNetwork() (ConnectivityFallback.java) switches back; and *)
(* the fallback threads it starts and never stops.                         *)
(***************************************************************************)
EXTENDS ConnectivityFallback

CONSTANT Asked    \* bound: the SSIDs, or None, that a start may ask for

ASSUME AskedAssumption == Asked \subseteq SSID \cup {None}

VARIABLES main,        \* where the main thread is
          after,       \* what follows the restore: "idle", "start" or "close"
          request,     \* the preferred SSID of the request being served
          vpn,         \* vpnInterface # null
          forwarder,   \* forwarder # null
          restoring,   \* the local previousSsid of restorePreviousNetwork()
          stopped,     \* history: the last request was a stop of the VPN, or a revocation
          kept,        \* history: the suggestions that the system kept at that stop
          late,        \* history: those that a fallback added after it
          back         \* history: the networks enabled again by this restore, with no
                       \* fallback alive

histories == <<stopped, kept, late, back>>

serviceVars == <<main, after, request, vpn, forwarder, restoring, histories>>

vars == <<wifiVars, prefs, fallback, serviceVars>>

Init ==
  /\ WifiInit
  /\ previous = None
  /\ remembered = None
  /\ fallback = [t \in Threads |-> Off]
  /\ main = "idle"
  /\ after = "idle"
  /\ request = None
  /\ vpn = FALSE
  /\ forwarder = FALSE
  /\ restoring = None
  /\ stopped = FALSE
  /\ kept = {}
  /\ late = {}
  /\ back = {}

-----------------------------------------------------------------------------
(***************************************************************************)
(* Requests.  A start needs a free thread: the bound on Threads.           *)
(***************************************************************************)
Requested(stop) ==
  /\ stopped' = stop
  /\ kept' = {}
  /\ late' = {}
  /\ back' = {}

onStart(ssid) ==
  /\ main = "idle"
  /\ \E t \in Threads : ~alive(t)
  /\ request' = ssid
  /\ main' = IF vpn THEN "close" ELSE "start"
  /\ after' = "start"
  /\ Requested(FALSE)
  /\ UNCHANGED <<wifiVars, prefs, fallback, vpn, forwarder, restoring>>

\* startVpn(), whose establish() may return null, and the fallback thread.
startVpn ==
  /\ main = "start"
  /\ vpn' \in BOOLEAN
  /\ forwarder' = IF vpn' THEN TRUE ELSE forwarder
  /\ \E t \in Threads : ~alive(t) /\ Become(t, Started(request))
  /\ main' = "idle"
  /\ after' = "idle"
  /\ request' = None
  /\ UNCHANGED <<wifiVars, prefs, restoring, histories>>

\* Without a VPN, close() returns at once.
onClose ==
  /\ main = "idle"
  /\ vpn
  /\ main' = "close"
  /\ Requested(TRUE)
  /\ UNCHANGED <<wifiVars, prefs, fallback, after, request, vpn, forwarder, restoring>>

\* onRevoke(): restore, then close().  The system revokes what establish() has returned.
onRevoke ==
  /\ main = "idle"
  /\ vpn
  /\ main' = "restore"
  /\ after' = "close"
  /\ Requested(TRUE)
  /\ UNCHANGED <<wifiVars, prefs, fallback, request, vpn, forwarder, restoring>>

onDestroy ==
  /\ main = "idle"
  /\ RemoveSuggestions
  /\ vpn' = FALSE
  /\ forwarder' = FALSE
  /\ UNCHANGED <<sdk, wifi, status, keyed, link, named, prefs, fallback,
                 main, after, request, restoring, histories>>

\* The process is killed, or dies of an exception: what the system and the
\* preferences hold remains.
Die ==
  /\ fallback' = [t \in Threads |-> Off]
  /\ main' = "idle"
  /\ after' = "idle"
  /\ request' = None
  /\ vpn' = FALSE
  /\ forwarder' = FALSE
  /\ restoring' = None
  /\ Requested(FALSE)
  /\ UNCHANGED <<wifiVars, prefs>>

\* close(): a VPN descriptor that cannot be closed stays in the field, without
\* a forwarder, and the next close() dereferences null.
close ==
  /\ main = "close"
  /\ forwarder
  /\ forwarder' = FALSE
  /\ vpn' \in BOOLEAN
  /\ main' = "restore"
  /\ UNCHANGED <<wifiVars, prefs, fallback, after, request, restoring, histories>>

closeAgain == main = "close" /\ ~forwarder /\ Die

-----------------------------------------------------------------------------
(***************************************************************************)
(* restorePreviousNetwork().                                               *)
(***************************************************************************)
others == <<request, vpn, forwarder, stopped>>

counts == <<kept, late, back>>

\* The restore returns to its caller: close() once more after onRevoke().
Returned ==
  /\ main' = CASE after = "close" /\ vpn -> "close"
               [] after = "start" -> "start"
               [] OTHER -> "idle"
  /\ after' = IF after = "start" THEN "start" ELSE "idle"
  /\ restoring' = None

\* Mutant of removeAllSuggestions: the suggestions are removed only when there
\* is a network to restore.
removeSuggestionsLate ==
  /\ main = "restore"
  /\ IF previous = None THEN UNCHANGED <<suggested, kept, late>>
     ELSE RemoveSuggestions /\ kept' = suggested' /\ late' = {}
  /\ main' = "read"
  /\ UNCHANGED <<sdk, wifi, status, keyed, link, named, prefs, fallback, after, restoring, others, back>>

removeAllSuggestions ==
  /\ main = "restore"
  /\ RemoveSuggestions
  /\ kept' = suggested'
  /\ late' = {}
  /\ main' = "read"
  /\ UNCHANGED <<sdk, wifi, status, keyed, link, named, prefs, fallback, after, restoring, others, back>>

readPrevious ==
  /\ main = "read"
  /\ IF previous = None THEN Returned
     ELSE /\ restoring' = previous
          /\ main' = IF sdk = KITKAT THEN "reenable" ELSE "compare"
          /\ UNCHANGED after
  /\ UNCHANGED <<wifiVars, prefs, fallback, others, counts>>

\* reEnableRememberedNetworks(): some may fail, and the list is gone; or there
\* is none, or the configurations cannot be read, and all stays as it is.
reEnableRememberedNetworks ==
  /\ main = "reenable"
  /\ \/ /\ remembered \notin {None, {}}
        /\ \E ok \in SUBSET (remembered \cap saved) :
             /\ status' = [s \in SSID |-> IF s \in ok THEN "enabled" ELSE status[s]]
             /\ back' = IF \E t \in Threads : alive(t) THEN {} ELSE ok \ enabled
        /\ remembered' = None
     \/ UNCHANGED <<status, remembered, back>>
  /\ main' = "compare"
  /\ UNCHANGED <<sdk, wifi, keyed, link, named, suggested, previous, fallback, after, restoring, others,
                 kept, late>>

comparePrevious ==
  /\ main = "compare"
  /\ main' = IF getConnectedSsid = restoring THEN "forget" ELSE "switch"
  /\ UNCHANGED <<wifiVars, prefs, fallback, after, restoring, others, counts>>

\* The lookup of the configuration, retried, and enableNetwork(netId, true);
\* when that returns false, the association is awaited all the same.
switchBack ==
  /\ main = "switch"
  /\ \/ EnableOnly(restoring) /\ main' = "awaitLong"
     \/ restoring \in saved /\ UNCHANGED wifiVars /\ main' = "await"
     \/ UNCHANGED wifiVars /\ main' = "forget"
  /\ UNCHANGED <<prefs, fallback, after, restoring, others, counts>>

\* waitForAssociation(), with a reconnect() in the middle if the switch was
\* accepted.
waitForAssociation ==
  /\ \/ main \in {"awaitLong", "await"} /\ reported_completed(restoring) /\ main' = "forget"
     \/ main = "awaitLong" /\ main' = "await"
     \/ main = "await" /\ main' = "forget"
  /\ UNCHANGED <<wifiVars, prefs, fallback, after, restoring, others, counts>>

\* The preference goes whatever came of it.
forgetPrevious ==
  /\ main = "forget"
  /\ previous' = None
  /\ Returned
  /\ back' = {}
  /\ UNCHANGED <<wifiVars, remembered, fallback, others, kept, late>>

Restore ==
  \/ removeAllSuggestions \/ readPrevious \/ reEnableRememberedNetworks
  \/ comparePrevious \/ switchBack \/ waitForAssociation \/ forgetPrevious

Main == startVpn \/ close \/ closeAgain \/ Restore

\* The relay passes the SSID of its hotspot, which the user may choose, that of an
\* open network it found, or none.
Requests ==
  \/ \E ssid \in Asked : onStart(ssid)
  \/ onClose \/ onRevoke \/ onDestroy \/ Die

Fallback(t) ==
  /\ FallbackStep(t)
  /\ late' = IF stopped THEN late \cup (suggested' \ suggested) ELSE late
  /\ UNCHANGED <<main, after, request, vpn, forwarder, restoring, stopped, kept, back>>

Next ==
  \/ Framework /\ UNCHANGED <<prefs, fallback, serviceVars>>
  \/ \E t \in Threads : Fallback(t)
  \/ Main
  \/ Requests

Spec == Init /\ [][Next]_vars

\* Threads run, waits end, and the main thread finishes what it began.
FairSpec ==
  /\ Spec
  /\ WF_vars(Main)
  /\ \A t \in Threads : WF_vars(Fallback(t))

-----------------------------------------------------------------------------
\* The network to go back to is one of the user's: a start while the device is
\* still on a relay's network, after a crash or a second start, does not make
\* that network the one to restore (ConnectivityFallback.java:1367).
PreviousIsTheUsers == previous \notin Dummies /\ restoring \notin Dummies

\* Whatever is tried, every network of the user keeps its configuration and
\* its password (the warning at ConnectivityFallback.java:1237).
PasswordsKept == \A s \in Secured : s \in saved /\ s \in keyed

\* Suggestions outlive the app: once the VPN was stopped, or revoked, those left are
\* the ones the system kept although it was asked to remove them, and those of a
\* fallback that went on after the stop; whether or not there was a network to restore
\* (ConnectivityFallback.java:214).
NoSuggestionLeft == stopped /\ main = "idle" => suggested \subseteq kept \cup late

\* Every fallback thread ends, although the framework may connect and
\* disconnect all the time: the deadline of an attempt is renewed once.
FallbackEnds == \A t \in Threads : alive(t) ~> ~alive(t)

\* With no fallback alive, the networks that a restore has enabled again are still
\* enabled when it has done all it does (ConnectivityFallback.java:1124: "so the restore
\* path must re-enable them explicitly").
OthersEnabledAgain == main = "forget" => back \subseteq enabled
=============================================================================
