----------------------- MODULE GnirehtetServiceProofs -----------------------
(***************************************************************************)
(* Safety of the service and of any number of fallback threads at a time,  *)
(* on every API level and for every set of networks.                       *)
(***************************************************************************)
EXTENDS GnirehtetService, TLAPS

StatusTyped == status \in [SSID -> {"absent", "disabled", "enabled"}]

-----------------------------------------------------------------------------
(***************************************************************************)
(* The network to restore.                                                 *)
(***************************************************************************)
\* saveCurrentSsid() is the only step that writes the preference, and the
\* restore works on a copy of it.
LEMMA PreviousStep ==
  ASSUME PreviousIsTheUsers, [Next]_vars
  PROVE  PreviousIsTheUsers'
<1> USE SsidAssumption DEF PreviousIsTheUsers, SSID
<1>1. CASE Framework /\ UNCHANGED <<prefs, fallback, serviceVars>>
  BY <1>1 DEF prefs, serviceVars
<1>2. ASSUME NEW t \in Threads, Fallback(t)
      PROVE  PreviousIsTheUsers'
  <2>1. restoring' = restoring
    BY <1>2 DEF Fallback
  <2>2. CASE saveCurrentSsid(t)
    BY <2>1, <2>2 DEF saveCurrentSsid
  <2>3. CASE listEnabledNetworks(t)
    BY <2>1, <2>3 DEF listEnabledNetworks
  <2>4. CASE UNCHANGED prefs
    BY <2>1, <2>4 DEF prefs
  <2>5. QED
    BY <1>2, <2>2, <2>3, <2>4
       DEF Fallback, FallbackStep, Begin, ensureWifiEnabled, clearSuggestions, addSuggestion,
           waitForSuggestion, rememberEnabledNetworks, configure, enableNetwork,
           waitForTransport, waitForFramework, lastCheck, hasActiveTransport,
           tryWifiP2pGroup, tryLocalOnlyHotspot, getScanResults, trySavedSecure, tryOpen, prefs
<1>3. CASE Restore
  <2>1. CASE removeAllSuggestions \/ comparePrevious \/ switchBack \/ waitForAssociation
    BY <2>1 DEF removeAllSuggestions, comparePrevious, switchBack, waitForAssociation, prefs
  <2>2. CASE readPrevious
    BY <2>2 DEF readPrevious, Returned, prefs
  <2>3. CASE reEnableRememberedNetworks
    BY <2>3 DEF reEnableRememberedNetworks
  <2>4. CASE forgetPrevious
    BY <2>4 DEF forgetPrevious, Returned
  <2>5. QED
    BY <1>3, <2>1, <2>2, <2>3, <2>4 DEF Restore
<1>4. CASE Die
  BY <1>4 DEF Die, prefs
<1>5. CASE startVpn \/ close \/ closeAgain
  BY <1>4, <1>5 DEF startVpn, close, closeAgain, prefs
<1>6. CASE onClose \/ onRevoke \/ onDestroy
  BY <1>6 DEF onClose, onRevoke, onDestroy, prefs
<1>7. CASE \E ssid \in Asked : onStart(ssid)
  BY <1>7 DEF onStart, prefs
<1>8. CASE UNCHANGED vars
  BY <1>8 DEF vars, prefs, serviceVars
<1>9. QED
  BY <1>1, <1>2, <1>3, <1>4, <1>5, <1>6, <1>7, <1>8 DEF Next, Main, Requests

\* The service never takes a relay's network for the one to go back to, however
\* starts, stops, revocations, crashes and any number of fallbacks interleave.
THEOREM PreviousSafe == Spec => []PreviousIsTheUsers
<1>1. Init => PreviousIsTheUsers
  BY SsidAssumption DEF Init, PreviousIsTheUsers, SSID
<1>2. PreviousIsTheUsers /\ [Next]_vars => PreviousIsTheUsers'
  BY PreviousStep
<1>3. QED
  BY <1>1, <1>2, PTL DEF Spec

-----------------------------------------------------------------------------
(***************************************************************************)
(* The user's configurations.  With their statuses typed the property is   *)
(* inductive: only findOrAddOpenNetwork() removes a configuration, and     *)
(* configure() calls it for the networks of relays alone.                  *)
(***************************************************************************)
KInv == StatusTyped /\ PasswordsKept

\* enableNetwork(netId, true) disables configurations and removes none.
LEMMA EnableOnlyKeeps ==
  ASSUME KInv, NEW s \in SSID, EnableOnly(s)
  PROVE  KInv'
BY SsidAssumption DEF KInv, StatusTyped, PasswordsKept, EnableOnly, saved, enabled, SSID

\* Nothing changes for a step that leaves the configurations alone.
LEMMA UntouchedKeeps ==
  ASSUME KInv, status' = status, keyed' = keyed
  PROVE  KInv'
BY DEF KInv, StatusTyped, PasswordsKept, saved

\* Every step keeps the configurations of the user and their passwords.
LEMMA PasswordsStep ==
  ASSUME KInv, [Next]_vars
  PROVE  KInv'
<1> USE SsidAssumption
<1>1. CASE Framework /\ UNCHANGED <<prefs, fallback, serviceVars>>
  <2>1. ASSUME NEW s \in SSID, EnableAgain(s)
        PROVE  KInv'
    BY <2>1 DEF EnableAgain, KInv, StatusTyped, PasswordsKept, saved, SSID
  <2>2. ASSUME NEW s \in SSID, Associate(s)
        PROVE  KInv'
    BY <2>2, UntouchedKeeps DEF Associate
  <2>3. CASE Disconnect
    BY <2>3, UntouchedKeeps DEF Disconnect
  <2>4. QED
    BY <1>1, <2>1, <2>2, <2>3 DEF Framework
<1>2. ASSUME NEW t \in Threads, Fallback(t)
      PROVE  KInv'
  <2>1. CASE configure(t)
    <3>1. CASE fallback[t].target \in Dummies
      <4>1. findOrAddOpenNetwork(t)
        BY <2>1, <3>1 DEF configure
      <4>2. /\ fallback[t].target \in SSID
            /\ fallback[t].target \notin Secured
        BY <3>1 DEF SSID
      <4>3. QED
        BY <4>1, <4>2 DEF findOrAddOpenNetwork, KInv, StatusTyped, PasswordsKept, saved, SSID
    <3>2. CASE fallback[t].target \notin Dummies
      BY <2>1, <3>2, UntouchedKeeps DEF configure, findExistingNetId
    <3>3. QED
      BY <3>1, <3>2
  <2>2. CASE enableNetwork(t)
    <3>1. CASE EnableOnly(fallback[t].target)
      <4>1. fallback[t].target \in SSID
        BY <3>1 DEF EnableOnly, saved
      <4>2. QED
        BY <3>1, <4>1, EnableOnlyKeeps
    <3>2. CASE UNCHANGED wifiVars
      BY <3>2, UntouchedKeeps DEF wifiVars
    <3>3. QED
      BY <2>2, <3>1, <3>2 DEF enableNetwork
  <2>3. CASE status' = status /\ keyed' = keyed
    BY <2>3, UntouchedKeeps
  <2>4. QED
    BY <1>2, <2>1, <2>2, <2>3
       DEF Fallback, FallbackStep, Begin, saveCurrentSsid, ensureWifiEnabled, clearSuggestions,
           addSuggestion, waitForSuggestion, rememberEnabledNetworks, listEnabledNetworks,
           waitForTransport, waitForFramework, lastCheck, hasActiveTransport,
           tryWifiP2pGroup, tryLocalOnlyHotspot, getScanResults, trySavedSecure, tryOpen, wifiVars
<1>3. CASE Restore
  <2>1. CASE removeAllSuggestions \/ comparePrevious \/ waitForAssociation \/ readPrevious
             \/ forgetPrevious
    BY <2>1, UntouchedKeeps
       DEF removeAllSuggestions, comparePrevious, waitForAssociation, readPrevious,
           forgetPrevious, wifiVars
  <2>2. CASE reEnableRememberedNetworks
    BY <2>2 DEF reEnableRememberedNetworks, KInv, StatusTyped, PasswordsKept, saved, SSID
  <2>3. CASE switchBack
    <3>1. CASE EnableOnly(restoring)
      BY <3>1, EnableOnlyKeeps DEF EnableOnly, saved
    <3>2. CASE UNCHANGED wifiVars
      BY <3>2, UntouchedKeeps DEF wifiVars
    <3>3. QED
      BY <2>3, <3>1, <3>2 DEF switchBack
  <2>4. QED
    BY <1>3, <2>1, <2>2, <2>3 DEF Restore
<1>4. CASE Die
  BY <1>4, UntouchedKeeps DEF Die, wifiVars
<1>5. CASE startVpn \/ close \/ closeAgain
  BY <1>4, <1>5, UntouchedKeeps DEF startVpn, close, closeAgain, wifiVars
<1>6. CASE onClose \/ onRevoke \/ onDestroy
  BY <1>6, UntouchedKeeps DEF onClose, onRevoke, onDestroy, wifiVars
<1>7. CASE \E ssid \in Asked : onStart(ssid)
  BY <1>7, UntouchedKeeps DEF onStart, wifiVars
<1>8. CASE UNCHANGED vars
  BY <1>8, UntouchedKeeps DEF vars, wifiVars
<1>9. QED
  BY <1>1, <1>2, <1>3, <1>4, <1>5, <1>6, <1>7, <1>8 DEF Next, Main, Requests

\* No network of the user loses its configuration or its password to the
\* fallback, the retries or the restore (ConnectivityFallback.java:1237).
THEOREM PasswordsSafe == Spec => []PasswordsKept
<1>1. Init => KInv
  BY SsidAssumption DEF Init, WifiInit, KInv, StatusTyped, PasswordsKept, saved, SSID
<1>2. KInv /\ [Next]_vars => KInv'
  BY PasswordsStep
<1>3. KInv => PasswordsKept
  BY DEF KInv
<1>4. QED
  BY <1>1, <1>2, <1>3, PTL DEF Spec

-----------------------------------------------------------------------------
(***************************************************************************)
(* Suggestions.  After a stop what is left was kept by the system, which   *)
(* was asked to remove it, or was added since by a fallback that is alive. *)
(* Nothing is under way that would start another: between requests no      *)
(* start is pending.                                                       *)
(***************************************************************************)
QInv ==
  /\ stopped => /\ main # "start" /\ after # "start"
                /\ main \notin {"close", "restore"} => suggested \subseteq kept \cup late
  /\ main = "idle" => after # "start"

\* Nothing changes for a step that leaves the suggestions, the requests and what
\* is recorded of them alone.
LEMMA UnaskedKeeps ==
  ASSUME QInv, UNCHANGED <<suggested, main, after, stopped, kept, late>>
  PROVE  QInv'
BY DEF QInv

\* Every step keeps the invariant: a request is served to its end before the
\* next one, and what a fallback adds after a stop is counted.
LEMMA SuggestionStep ==
  ASSUME QInv, [Next]_vars
  PROVE  QInv'
<1>1. CASE Framework /\ UNCHANGED <<prefs, fallback, serviceVars>>
  <2>1. suggested' = suggested
    BY <1>1 DEF Framework, Associate, EnableAgain, Disconnect
  <2>2. QED
    BY <1>1, <2>1, UnaskedKeeps DEF serviceVars, histories
<1>2. ASSUME NEW t \in Threads, Fallback(t)
      PROVE  QInv'
  <2>1. UNCHANGED <<main, after, stopped, kept>>
    BY <1>2 DEF Fallback
  <2>2. stopped => late' = late \cup (suggested' \ suggested)
    BY <1>2 DEF Fallback
  <2>3. QED
    BY <2>1, <2>2 DEF QInv
<1>3. CASE Restore
  <2>1. stopped' = stopped
    BY <1>3 DEF Restore, removeAllSuggestions, readPrevious, reEnableRememberedNetworks,
                comparePrevious, switchBack, waitForAssociation, forgetPrevious, others
  <2>2. CASE removeAllSuggestions
    BY <2>1, <2>2 DEF removeAllSuggestions, QInv
  <2>3. CASE readPrevious
    BY <2>1, <2>3 DEF readPrevious, Returned, QInv, wifiVars, counts
  <2>4. CASE reEnableRememberedNetworks
    BY <2>1, <2>4 DEF reEnableRememberedNetworks, QInv
  <2>5. CASE comparePrevious \/ waitForAssociation
    BY <2>1, <2>5 DEF comparePrevious, waitForAssociation, QInv, wifiVars, counts
  <2>6. CASE switchBack
    BY <2>1, <2>6 DEF switchBack, EnableOnly, QInv, wifiVars, counts
  <2>7. CASE forgetPrevious
    BY <2>1, <2>7 DEF forgetPrevious, Returned, QInv, wifiVars
  <2>8. QED
    BY <1>3, <2>2, <2>3, <2>4, <2>5, <2>6, <2>7 DEF Restore
<1>4. CASE Die
  BY <1>4 DEF Die, Requested, QInv
<1>5. CASE startVpn
  BY <1>5 DEF startVpn, histories, QInv
<1>6. CASE close
  BY <1>6 DEF close, histories, QInv
<1>7. CASE onClose \/ onRevoke
  BY <1>7 DEF onClose, onRevoke, Requested, QInv
<1>8. CASE onDestroy
  BY <1>8 DEF onDestroy, RemoveSuggestions, histories, QInv
<1>9. CASE \E ssid \in Asked : onStart(ssid)
  BY <1>9 DEF onStart, Requested, QInv
<1>10. CASE UNCHANGED vars
  BY <1>10, UnaskedKeeps DEF vars, wifiVars, serviceVars, histories
<1>11. QED
  BY <1>1, <1>2, <1>3, <1>4, <1>5, <1>6, <1>7, <1>8, <1>9, <1>10
     DEF Next, Main, Requests, closeAgain

\* After a stop or a revocation no suggestion is left but those that the system kept
\* when it was asked to remove them and those a fallback still alive added since, for
\* any number of threads and of networks and whatever was saved.
THEOREM SuggestionsCleared == Spec => []NoSuggestionLeft
<1>1. Init => QInv
  BY DEF Init, QInv
<1>2. QInv /\ [Next]_vars => QInv'
  BY SuggestionStep
<1>3. QInv => NoSuggestionLeft
  BY DEF QInv, NoSuggestionLeft
<1>4. QED
  BY <1>1, <1>2, <1>3, PTL DEF Spec
=============================================================================
