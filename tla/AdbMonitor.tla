----------------------------- MODULE AdbMonitor -----------------------------
(***************************************************************************)
(* relay-rust/src/adb_monitor.rs: the thread that follows the adb server's *)
(* "track-devices" stream and starts a client on every device that         *)
(* appears.  The stream is followed byte by byte, with a length field of   *)
(* Field bytes (4 in the code); a serial and a state are one byte each.    *)
(***************************************************************************)
EXTENDS Commands

CONSTANTS
  Field,        \* bytes of a length, and of OKAY or FAIL
  Hexa,         \* value of each byte that is a digit
  BUFFER_SIZE,
  usb_only,     \* not --allow-wifi
  OverTcp       \* the devices "adb devices -l" shows with "tcp:"

ASSUME MonitorAssumption ==
  /\ Field \in Nat \ {0} /\ BUFFER_SIZE \in Nat /\ usb_only \in BOOLEAN
  /\ Hexa \in [DOMAIN Hexa -> Nat]
  /\ \A n \in 0..Cardinality(Serial) : \E b \in DOMAIN Hexa : Hexa[b] = 2 * n
  /\ OverTcp \subseteq Serial

VARIABLES
  mon,                \* "off", or what monitor() does: "connect", "okay", "track" or "repair"
  stream,             \* the bytes the server sent that were not read yet
  open,               \* whether the server still holds the other end
  bytes,              \* the ByteBuffer
  connected_devices,  \* the serials of the last list
  lists,              \* history: what the server sent on this connection and was not handled
  torn,               \* history: a connection was refused, or was given up within a list
  missed              \* history: known devices that came back between two connections

streamVars == <<stream, open, bytes, lists>>
monVars == <<mon, streamVars, connected_devices, torn, missed>>

-----------------------------------------------------------------------------
(* The server's side *)

okay == [i \in 1..Field |-> "OKAY"]
fail == [i \in 1..Field |-> "FAIL"]

digit(n) == CHOOSE b \in DOMAIN Hexa : Hexa[b] = n

\* A list: its length, then a line for each device.
listed(devices) ==
  LET lines == SetToSeq({d \in Serial : devices[d] # "absent"})
      text == FlattenSeq([i \in DOMAIN lines |-> <<lines[i], devices[lines[i]]>>])
  IN  [i \in 1..Field |-> digit(IF i = Field THEN Len(text) ELSE 0)] \o text

tracked == open /\ mon \in {"okay", "track"}

\* Every change is sent to whoever tracks the devices.
announce ==
  IF tracked
  THEN stream' = stream \o listed(dev') /\ lists' = Append(lists, listed(dev'))
  ELSE UNCHANGED <<stream, lists>>

\* A device is plugged in, or authorised.
Plug(d) ==
  /\ up
  /\ \E s \in {"unauthorized", "device"} \ {dev[d]} :
        dev[d] # "device" /\ dev' = [dev EXCEPT ![d] = s]
  /\ announce
  /\ missed' = IF dev'[d] = "device" /\ ~tracked /\ d \in ToSet(connected_devices)
               THEN missed \cup {d} ELSE missed
  /\ UNCHANGED <<up, client, faults, q, commandVars, mon, open, bytes, connected_devices, torn>>

Unplug(d) ==
  /\ dev[d] # "absent"
  /\ dev' = [dev EXCEPT ![d] = "absent"]
  /\ client' = [client EXCEPT ![d] = disconnected(@)]
  /\ announce
  /\ UNCHANGED <<up, faults, q, commandVars, mon, open, bytes, connected_devices, torn, missed>>

\* The beginnings of what the server sent that end with a whole answer or list.
wholes ==
  {(IF mon = "okay" THEN okay ELSE << >>) \o FlattenSeq(SubSeq(lists, 1, k)) : k \in 0..Len(lists)}

\* The server ends; n bytes of what it was sending arrive.
ServerDies(n) ==
  /\ up /\ faults > 0 /\ faults' = faults - 1
  /\ up' = FALSE /\ open' = FALSE
  /\ dev' = [d \in Serial |-> "absent"]
  /\ client' = [d \in Serial |-> disconnected(client[d])]
  /\ stream' = SubSeq(stream, 1, n)
  /\ torn' = (torn \/ (mon \in {"okay", "track"} /\ bytes \o stream' \notin wholes))
  /\ UNCHANGED <<q, commandVars, mon, bytes, lists, connected_devices, missed>>

-----------------------------------------------------------------------------
(* The monitor's side *)

\* track_devices(): connects, and asks; the server answers, or refuses and says why.
track_devices ==
  /\ mon = "connect"
  /\ \/ /\ up /\ mon' = "okay" /\ open' = TRUE
        /\ stream' = okay \o listed(dev) /\ lists' = <<listed(dev)>>
        /\ UNCHANGED <<faults, torn>>
     \/ /\ up /\ mon' = "okay" /\ open' = FALSE
        /\ stream' = fail \o fail /\ lists' = << >>
        /\ faults > 0 /\ faults' = faults - 1 /\ torn' = TRUE
     \/ /\ ~up /\ mon' = "repair"
        /\ UNCHANGED <<open, stream, lists, faults, torn>>
  /\ UNCHANGED <<up, dev, client, q, commandVars, bytes, connected_devices, missed>>

\* parse_length()
is_length(field) == ToSet(field) \subseteq DOMAIN Hexa
parse_length(field) == FoldLeft(LAMBDA n, b : 16 * n + Hexa[b], 0, field)

\* available_packet_length(): whether a whole packet is there.
available(input) ==
  LET field == SubSeq(input, 1, Field)
  IN  IF Len(input) < Field THEN "none"
      ELSE IF ~is_length(field) \/ parse_length(field) > BUFFER_SIZE THEN "error"
      ELSE IF Len(input) - Field >= parse_length(field) THEN "packet" ELSE "none"

\* Whether consume_okay() or next_packet() is reading.
reading ==
  \/ mon = "okay" /\ Len(bytes) < Field
  \/ mon = "track" /\ available(bytes) = "none"

\* read_from(): n of the bytes that arrived.
read_from(n) ==
  /\ reading /\ n <= BUFFER_SIZE - Len(bytes)
  /\ bytes' = bytes \o SubSeq(stream, 1, n)
  /\ stream' = SubSeq(stream, n + 1, Len(stream))
  /\ UNCHANGED <<adbVars, q, commandVars, mon, open, lists, connected_devices, torn, missed>>

\* consume_okay(): an answer that is not OKAY ends track_devices() without an error.
consume_okay ==
  /\ mon = "okay" /\ Len(bytes) >= Field
  /\ bytes' = SubSeq(bytes, Field + 1, Len(bytes))
  /\ \/ SubSeq(bytes, 1, Field) = okay /\ mon' = "track" /\ UNCHANGED <<open, stream>>
     \/ SubSeq(bytes, 1, Field) # okay /\ mon' = "connect" /\ open' = FALSE /\ stream' = << >>
  /\ UNCHANGED <<adbVars, q, commandVars, lists, connected_devices, torn, missed>>

\* next_packet() fails: the stream is at its end, what it holds is not a length, or the
\* list does not fit; the buffer keeps what it holds.
\* At its end consume_okay() does not fail: it tries again, for ever.
next_packet_fails ==
  /\ mon = "track"
  /\ \/ available(bytes) = "error"
     \/ available(bytes) = "none" /\ ((stream = << >> /\ ~open) \/ Len(bytes) = BUFFER_SIZE)
  /\ mon' = "repair" /\ open' = FALSE /\ stream' = << >>
  /\ torn' = (torn \/ bytes # << >>)
  /\ UNCHANGED <<adbVars, q, commandVars, bytes, lists, connected_devices, missed>>

\* Mutant of repair_adb_daemon: the loop ends after a failure.
repair_and_end ==
  /\ mon = "repair" /\ mon' = "off"
  /\ \/ up' = TRUE /\ UNCHANGED faults
     \/ faults > 0 /\ faults' = faults - 1 /\ UNCHANGED up
  /\ UNCHANGED <<dev, client, q, commandVars, streamVars, connected_devices, torn, missed>>

\* repair_adb_daemon(): "adb start-server", a delay, and monitor() tries again.
repair_adb_daemon ==
  /\ mon = "repair" /\ mon' = "connect"
  /\ \/ up' = TRUE /\ UNCHANGED faults
     \/ faults > 0 /\ faults' = faults - 1 /\ UNCHANGED up
  /\ UNCHANGED <<dev, client, q, commandVars, streamVars, connected_devices, torn, missed>>

\* parse_connected_devices(): the serials of the lines whose state is "device".
parse_connected_devices(text) ==
  LET line(k) == SubSeq(text, 2 * k - 1, 2 * k)
      lines == SelectSeq([k \in 1..(Len(text) \div 2) |-> line(k)], LAMBDA l : l[2] = "device")
  IN  [k \in DOMAIN lines |-> lines[k][1]]

\* filter_usb_only(): by what "adb devices -l" says now.
filter_usb_only(serials) == SelectSeq(serials, LAMBDA s : s \in Ready \ OverTcp)

\* handle_packet(): a client for every serial that was not in the last list.  Nothing
\* is filtered when adb fails.
handle_packet(serials, ssid) ==
  \E filtered \in {serials} \cup {filter_usb_only(serials)} :
     /\ IF usb_only /\ filtered # filter_usb_only(serials)
        THEN faults > 0 /\ faults' = faults - 1 ELSE UNCHANGED faults
     /\ ~usb_only => filtered = serials
     /\ LET new == SelectSeq(filtered, LAMBDA s : s \notin ToSet(connected_devices))
        IN  /\ threads' = threads \o [i \in DOMAIN new |-> thread(new[i], "start", "reverse", ssid, TRUE)]
            /\ spoiled' = spoiled \ ToSet(new)
            /\ missed' = missed \ ToSet(new)
     /\ connected_devices' = filtered

\* Mutant of packet_end: the length field is counted in the length.
packet_end_in_length(input) == parse_length(SubSeq(input, 1, Field))

\* read_packet() takes the length field and as many bytes as it says.
packet_end(input) == Field + parse_length(SubSeq(input, 1, Field))

\* read_packet(), and what the loop does with the packet.
Handle(ssid) ==
  /\ mon = "track" /\ available(bytes) = "packet"
  /\ handle_packet(parse_connected_devices(SubSeq(bytes, Field + 1, packet_end(bytes))), ssid)
  /\ bytes' = SubSeq(bytes, packet_end(bytes) + 1, Len(bytes))
  /\ lists' = IF lists = << >> THEN lists ELSE Tail(lists)
  /\ up' = (up \/ usb_only)
  /\ UNCHANGED <<dev, client, q, mon, stream, open, torn>>

Monitor(ssid) ==
  track_devices \/ consume_okay \/ next_packet_fails \/ repair_adb_daemon \/ Handle(ssid)
=============================================================================
