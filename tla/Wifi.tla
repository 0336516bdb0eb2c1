-------------------------------- MODULE Wifi --------------------------------
(***************************************************************************)
(* The Wi-Fi side of Android as ConnectivityFallback.java uses it          *)
(* (external): the saved configurations, the association, the suggestions  *)
(* of API 29+.  The framework associates and disconnects when it likes.    *)
(* Whether it reports a usable network (hasActiveTransport) changes at any *)
(* time, so that every look at it may see either answer.                   *)
(***************************************************************************)
EXTENDS Naturals

CONSTANTS Dummies,   \* SSIDs of relays, with the prefix gnirehtet-
          Secured,   \* SSIDs of the user that need a password, all saved
          Open,      \* other SSIDs, without a password
          None,      \* no SSID, no list
          Sdks       \* the API levels to consider

SSID == Dummies \cup Secured \cup Open

ASSUME SsidAssumption ==
  /\ Dummies \cap Secured = {} /\ Dummies \cap Open = {} /\ Secured \cap Open = {}
  /\ None \notin SSID
  /\ Sdks \subseteq Nat

KITKAT == 19
LOLLIPOP == 21
O == 26
Q == 29

VARIABLES sdk,        \* Build.VERSION.SDK_INT, fixed
          wifi,       \* Wi-Fi is switched on
          status,     \* of the configuration of each SSID
          keyed,      \* the configurations that hold a password
          link,       \* the SSID the device is associated with
          named,      \* the SSID that WifiInfo reports
          suggested   \* the network suggestions of this package

wifiVars == <<sdk, wifi, status, keyed, link, named, suggested>>

WifiInit ==
  /\ sdk \in Sdks
  /\ wifi \in BOOLEAN
  /\ status = [s \in SSID |-> IF s \in Secured THEN "enabled" ELSE "absent"]
  /\ keyed = Secured
  /\ link \in IF wifi THEN Secured \cup {None} ELSE {None}
  /\ named = link
  /\ suggested = {}

saved == {s \in SSID : status[s] # "absent"}

enabled == {s \in SSID : status[s] = "enabled"}

\* enableNetwork(netId, true) that returns true: the others are disabled, and
\* KitKat reports the new SSID at once, before any association.
EnableOnly(s) ==
  /\ s \in saved
  /\ status' = [r \in SSID |-> IF r = s THEN "enabled"
                               ELSE IF r \in enabled THEN "disabled" ELSE status[r]]
  /\ named' = IF sdk = KITKAT THEN s ELSE named
  /\ UNCHANGED <<sdk, wifi, keyed, link, suggested>>

\* Placeholders such as <unknown ssid> are no SSID.
getConnectedSsid == named

\* Optimistic on KitKat: state COMPLETED and the network id come with the name.
reported_completed(s) == named = s

\* isFullyAssociated(): the access point's address tells a real association.
isFullyAssociated(s) == reported_completed(s) /\ link = s

Associate(s) ==
  /\ wifi
  /\ s \in enabled \cup suggested
  /\ link' = s
  /\ named' = s
  /\ UNCHANGED <<sdk, wifi, status, keyed, suggested>>

Disconnect ==
  /\ <<link, named>> # <<None, None>>
  /\ link' = None
  /\ named' = None
  /\ UNCHANGED <<sdk, wifi, status, keyed, suggested>>

\* After KitKat, a disabled configuration is tried again some day.
EnableAgain(s) ==
  /\ sdk > KITKAT
  /\ status[s] = "disabled"
  /\ status' = [status EXCEPT ![s] = "enabled"]
  /\ UNCHANGED <<sdk, wifi, keyed, link, named, suggested>>

\* removeNetworkSuggestions() of what getNetworkSuggestions() lists: the result code of
\* the one and the SecurityException of either are ignored.
RemoveSuggestions == suggested' \in {{}, suggested}

Framework == (\E s \in SSID : Associate(s) \/ EnableAgain(s)) \/ Disconnect
=============================================================================
