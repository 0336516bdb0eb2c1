# A TLA+ development of gnirehtet

Gnirehtet gives an Android device the network of the computer it is plugged
into. An app on the device (Java) opens a VPN interface and sends every IP packet
through one byte stream, the *tunnel*, to a *relay* on the computer (Rust). The
relay has no raw sockets: it terminates the device's TCP and UDP itself, speaking
to the device in IP packets and to the network through ordinary sockets.

The modules here model the parts of both programs in which order, partial
progress and failure decide whether that works. TLC checks them on small
instances; TLAPS proves the results listed below for every value of the
constants. `PROJECT.json` maps every definition to the lines it models.

## 1. Inventory

| Part | State | Operations | Interacts with | What is hard, and what makes it correct |
|---|---|---|---|---|
| TCP connection (`relay/tcp_connection.rs`) | the Tcb (state, sequence, acknowledgement, window, FIN), `client_to_network`, a deferred packet, `closed` | `handle_packet` and its handlers; `poll_self`: flush, send, receive, connect | router (calls it), shared buffer of the client, a socket, the device's TCP | retransmissions crossing answers, windows, both ends closing, buffers full. Every byte once and in order; an ACK is a promise; a FIN is the last thing; connections end |
| Stream buffer (`stream_buffer.rs`) | array, head, tail | `read_from`, `write_to`, `optimize` | TCP connections, client loop | wrap-around with partial writes. It is a FIFO |
| Datagram buffer (`datagram_buffer.rs`) | array of blocks, head, tail | `read_from`, `write_to` | UDP connections | blocks of varying size at the end of the array. It is a FIFO of datagrams |
| UDP connection (`udp_connection.rs`) | datagram buffer, socket, idle timer | `send_to_network`, `poll_self`, `is_expired` | router, shared buffer | drops and expiry |
| Router (`router.rs`) | live connections and recently closed ones, by 4-tuple | `send_to_network`, `poll_connections`, `clean_expired_connections`, `clear` | client loop, connections | three ways to close, time, residual segments. A tuple is live or remembered, never both |
| Client loop (`client.rs`) | shared buffer, `pending_outgoing`, packet buffer, time of the last cleanup | `run_blocking`: read, poll, clean, drain, write | tunnel socket, router | partial reads and writes. No byte of the stream is lost, doubled or reordered |
| Framing (`ip_packet_buffer.rs`, `byte_buffer.rs`; `IPPacketOutputStream.java`) | a buffer holding part of a packet | copy in, cut packets out | tunnel | a stream cut anywhere, reconnections. Packets come out as they went in |
| Device tunnel (`Forwarder`, `PersistentRelayTunnel`, `RelayTunnelProvider`, `RelayTunnel`) | current tunnel, its socket, `first`, last failure, `stopped`, two locks | `getCurrentTunnel`, `invalidateTunnel`, `send`, `receive`, `stop` | two worker threads, main thread, service | threads interleaving at unlocked reads, reconnection. One live socket; the device reconnects |
| Packet headers, packetizer, ICMP answers (`*_header.rs`, `ip_packet.rs`, `packetizer.rs`, `icmp_handler.rs`) | one buffer per connection, rewritten for each packet | parse, swap, set, checksum; `build`; echo reply, port unreachable | connections, router | a buffer reused for other lengths and flags, options, carries. The device accepts every packet, and it says what was asked |
| Relay server (`relay.rs`) | deadline of an attempt, consecutive probes, backoff | accept loop; in forward mode connect, probe, back off | adb, client threads | a device that accepts and closes at once. No storm of connections |
| Serial registry (`serial_registry.rs`) | queue of pending serials | register, take | start commands, accept loop | registrations nobody takes. A best-effort label for the log |
| ADB monitor (`adb_monitor.rs`) | input buffer, connected devices | connect, read, cut, handle, repair the daemon | adb server, start commands | a stream cut anywhere, state kept across reconnections. Every device is started |
| Commands (`commands.rs`, `cli.rs`, `adb.rs`, `transport.rs`) | threads; on the device: client, permissions, tunnel rule, VPN | install, uninstall, start, stop, tunnel, restart; run, autorun, autostart, relay; Ctrl+C | adb, monitor, relay, hotspot | a step of several failing, threads running into the teardown. Ctrl+C stops the clients |
| Hotspot (`hotspot.rs`, `wifi.rs`, `setup_dummy_wifi()`) | connection profiles of the host | choose an interface or a network, clean up, name, add, bring up, stop | nmcli, the user | failing commands, kills. The user's Wi-Fi is kept, nothing is left behind |
| VPN service (`GnirehtetService.java`) | VPN interface, forwarder | start, stop, revoke, destroy | Android, forwarder, fallback | a background thread outliving the service, a main thread that waits. A stop undoes what the start did |
| Connectivity fallback (`ConnectivityFallback.java`) | two preferences (previous SSID, enabled networks); the system's Wi-Fi configurations and suggestions | `ensureActiveTransport` (a thread), `restorePreviousNetwork` (main thread) | Wi-Fi framework, service | retries on state that earlier attempts have changed, platform versions, crashes with the device on the wrong network. The user's networks survive |

The hazards are listed one by one, with their lines and the properties aimed at
them, in `PROJECT.json`.

## 2. Modules

    ByteFifo <-- StreamBuffer <-- ClientOutput --+
                                  DeviceInput  --+--> Tunnel
                                  PacketSink   --+
                      Framing <-- (all three)
    TcpConnection <-- TcpSession
    Wifi <-- ConnectivityFallback <-- GnirehtetService
    Headers <-- IcmpHandler <-- Packetizer --+
                            DatagramBuffer --+--> UdpConnection
    Adb, SerialRegistry <-- Commands <-- AdbMonitor <-- RelayServer --+
                                                            Hotspot --+--> Host
    Router      DeviceTunnel

**StreamBuffer** is the array with its two indices; `ReadFrom` is `read_from()`,
`WriteTo(w)` is `write_to()` to a destination that accepts `w` bytes, `optimize()`
included. **ByteFifo** is what it promises: a bounded queue. `ImplementsFifo` is
the refinement, with the content of the array, unrolled, as the queue.

**TcpConnection** is one record `c` (the Rust struct and its Tcb), and one operator
per method, from the record to the record the method leaves. The order of calls
is kept: `handle_expected` is the tail of `handle_packet()`, which updates window
and acknowledgement, then looks at RST, ACK and FIN in turn. A `poll_self()` is
four steps (`pc`), because the socket's outcomes are chosen step by step; nothing
else of the relay runs between them. Arithmetic on sequence numbers is modulo
`SeqMod` (2^32). The packetizer builds every packet of a connection in one buffer,
so `send_empty` rewrites the headers of a deferred packet, as the code does. `used`
counts the bytes of the client's shared buffer, `OtherTraffic` being the rest of
the client's connections. A flush adds the length of the whole packet to the sequence
number, as the code does. Here the device may send any segment whatsoever.

**TcpSession** puts the connection between a device that speaks TCP (external:
the kernel's stack, with retransmission, window updates, residual segments of an
older connection, aborts) and a server. Byte *i* of a stream is the number *i*, so
a payload shows where it belongs. The tunnel is a reliable FIFO; what is lost is
what the relay drops.

**Router** is the two maps, driven by the phases of the client loop. A connection
is reduced to `closed` and the age of its idle timer; ages stop growing where the
code stops telling them apart. `sinceClosed` is a history variable, independent of
the entries the code keeps.

**DatagramBuffer** is the memory as a function from positions to blocks; a block
written over another destroys it. `read_from` asks what the code asks and nothing more:
with the tail at 0 the head may come round to it, and the full buffer looks empty
(`overlooked`). `queue` is a history variable, the datagrams accepted and neither handed out nor
lost in that way. `write_to` is the send half of a poll.

**Framing** is the way two IP packets are told apart in a stream: by the length the
first one announces, found at an offset that depends on its version. Headers are
scaled down to two bytes (IPv4) and three (IPv6). **DeviceInput** is
`feed_device_data()`, **PacketSink** is `IPPacketOutputStream`, **ClientOutput** is the
way from the connections to the socket. **Tunnel** joins them into the two byte
streams, and cuts the tunnel: the relay then starts with a new `Client`, while the
device keeps its stream object. The two directions share nothing else, so a
behaviour is about one of them (`direction`). `overrun` is a history variable: a read
of the relay did not fit behind the bytes that wait.

**DeviceTunnel** has a step for every point at which another thread can interfere:
the two locks, and the reads of the field `tunnel` outside of them. `forward` is the
mode, fixed at the start; in forward mode all tunnels share one accepted socket
and the class lock is held while it is awaited; an accepted connection whose client id
cannot be read stays, broken. `connectTunnel()` is two steps, `Read` of the field and
`Dial`, which makes the socket: `stop()` may come between. `overtaken` is a history variable:
the tunnels that were dropped after a worker had read the field to connect them. In reverse mode `localSocket` may be
seen by the other worker before it is connected; reading from it then succeeds or
fails, whichever the platform does.

**Wifi** is the framework as the app uses it (external): the configurations and
their status, the association, the SSID that is reported (on KitKat, before there is
an association), the suggestions. Network ids are the SSIDs. **ConnectivityFallback** is
the thread: one step per call to the system or to the preferences, so that the main
thread, another fallback and the framework can act between any two. Time passes in
the 12-second periods at which `waitForTransport` retries; the strongest network of a
scan may be any of the eligible ones. **GnirehtetService** is the main thread: the
requests, `close()`, and the restore step by step, during which the main thread serves
nothing else. The removal of the suggestions may be refused, and the code goes on. A start may ask
for any SSID, a relay's or the user's, or for none. `onRevoke` comes only while
there is a VPN, and on the main thread, which is an assumption about Android. `Die` is a
crash at any point: preferences, configurations and suggestions remain. Four history variables
record what happened since the last stop: `stopped` (the last request was a stop or a
revocation), `kept` (suggestions the system refused to remove), `late` (those a fallback
added after it) and `back` (networks enabled again by a restore while no fallback was alive).

**Headers** is the parsing and setting of IPv4, IPv6, TCP and UDP headers on packets
as sequences of bytes, with 16- and 32-bit fields read and written as the code does
(`U16` is the modulus of the 16-bit lengths, scaled down; checksums keep their width).
**IcmpHandler** is the two answers the router gives itself. **Packetizer** is the buffer
of a connection: `first` is the packet it was made from, `pk` the headers as they are
now, `deferred` a TCP packet that waits in it. `sent` is the last packet given to the
device, judged by what a device checks: lengths, checksums, addresses and ports.
**UdpConnection** joins it with the datagram buffer; for a TCP connection only the
Packetizer is followed, asked for any sequence of segments.

**Adb** is what one adb call of each command leaves on a device, and the adb server and
Android as the code uses them (external). **Commands** is every command as the list of
calls still to make (`todo`), one step per call: other threads act between any two, a
call may fail, and what follows is what the code does then; when the `adb devices` of a start without
a serial fails, nothing is registered and the start goes on. **SerialRegistry** is the
queue. **AdbMonitor** is the monitor's thread: the adb server writes into `stream`, reads
take any part of it into `bytes`, `read_packet()` cuts lists out of it. A serial is one
letter and a list is its length field and its devices. `lists` is a history variable:
what the server sent on this connection and the monitor has not handled. **RelayServer**
is both modes of `relay.rs`, in periods of 500 ms (3 until a connect gives up, where the code
has 40: the wait is idle); `ages` is a history variable, the times since the last connections
that adb closed at once. **Hotspot** is `setup_dummy_wifi()`
with one step per nmcli command; `Unsettled` are the user's connections that leave an
interface free for the code, as their state is not `connected` or their name is that of a
relay's network. **Host** is the process around them: command line,
threads, Ctrl+C, teardown; and what surrounds it: devices that come and go, other
terminals, a kill and the next run. `late`, `missed`, `spoiled`, `torn` and
`excuse` are history variables: they name the cases the properties exclude.

`*Proofs` modules hold the theorems; `MC*` modules and their `.cfg` files the
instances. Definitions whose comment starts with "Mutant of" are variants of the
definition below them with a plausible slip, kept to show that each property
fails when the code is wrong.

## 3. Runs

Passing runs:

| Run | What it checks | Bounds, and why they are enough |
|---|---|---|
| `stream_buffer` | `ImplementsFifo`, the FIFO refinement | capacity 4, two byte values: every position of head and tail, chunks of every size, both wraps |
| `tcp_upload` | `UploadIntact`, `AckIsAccepted`, `RetransmissionIsOld`, `WindowIsHonest`, `FinAfterData` | 4 bytes, payloads of up to 2, a buffer of 3, a shared buffer of 3 that other connections fill, 2 segments under way each way: windows close, ACKs are dropped, retransmissions cross; both initial numbers wrap |
| `tcp_closing` | `DownloadIntact`, `DeviceNeverOverrun`, `NothingAfterReset`, `NeverGoesBack` | 4 bytes down, 2 up, windows 0 and 2, one byte beyond the window, every failure and every order of closing; a client's buffer of 4 holds one full packet, so that others are deferred, flushed, and overwritten while they wait |
| `tcp_live` | `UploadCompletes`, `FinCloses` | buffers and windows of 1, so that every byte closes a window |
| `router` | `NeverAbsorbsLive`, `RemembersClosed`, `NoEarlyReopen` | 2 interchangeable TCP flows, 1 UDP flow; TTL, timeout and period of 1 or 2 ticks, so that each can be shorter or longer than a phase |
| `packets` | `EmptyMeansEmpty`, `OldestFirst`, `BlocksInBounds`, `DeviceAccepts`, `AsAsked`, `AnswersMatch` | capacity 6, blocks of 1 to 3: all alignments at the end of the array, and the full circle that looks empty, after which the buffer must still be right about what comes next. Packets of both versions and protocols with and without options, numbers at the ends of their ranges, payloads of 0, 1 and 3 bytes (odd and even sums, carries), every order of empty, full and deferred packets |
| `device_tunnel` | `LiveIsCurrent`, `Recovers` | 2 workers, 4 tunnels in memory at a time (never used up), both modes, stop at any point, also between the read of the field and the socket, the relay comes and goes for ever |
| `tunnel` | `DownstreamIntact`, `UpstreamIntact`, `RoutedWhole`, `SoundUntilTorn` | 3 packets of both versions, chunks that end anywhere, cuts at any byte. Reads of up to the 8 bytes of the buffer, as in the code: the ones that do not fit behind an incomplete packet lose bytes (`overrun`, below) |
| `service` | `PreviousIsTheUsers`, `PasswordsKept`, `NoSuggestionLeft`, `FallbackEnds` | API levels 19, 26 and 29 (the three code paths), one network of a relay, which a start asks for or not (`Asked`), one of the user with a password, one fallback at a time, one retry per attempt at the preferred network and none at the others, whose timeout is shorter than the period of the retries; a fallback may outlive a stop, and the system may refuse to remove a suggestion. What the properties say of one network does not depend on the others; the theorems are about any number of threads and networks and any SSIDs asked for |
| `host` | `ListsWhole`, `EveryDeviceStarted`, `NoProbeStorm`, `UsersWifiKept`, `NoHotspotLeft`, `SsidReachable`, `StoppedOnExit` | eight plans, each a command line with the surroundings that make it hard: autorun with devices and an adb server that come and go and reads that end anywhere; autorun under Ctrl+C; two devices, one of them slow; `run` without a serial, and a second device that comes; autostart killed and run again; the hotspot with two interfaces, every combination of their connections (up, on the way up, none), five option sets, a failing nmcli, a kill and a second run; a KitKat device in forward mode; the relay alone with every other command from another terminal. One or two devices suffice for the orders that matter: a device against itself, and against another |

Deadlock is checked in `stream_buffer`, which never stops. In the others the
bounds, a connection that ended or a stopped service leave nothing to do.

Runs that show a disagreement between the code and what is said of it:

| Run | What it shows |
|---|---|
| `tcp_server_ends` | `eof()` counts a FIN of the device that was not received: after the server closes first, the device's next segment is taken for a retransmission, acknowledged in part and dropped |
| `service_restore` | on KitKat the restore enables the remembered networks, forgets the list, and then switches back with `disableOthers`, which disables them again: one network is enabled after a stop, the others stay disabled |

`OthersEnabledAgain` counts only networks that a restore enables while no fallback is alive, so
that the trace of `service_restore` is the restore's own doing; with the switch before the
enabling the property holds.

Further deviations met while modelling, which the models contain but no run
is about:

- a packet that was deferred advances the sequence number by its whole length,
  headers included: everything after it is out of place and the device discards it
  (`tcp_connection.rs:356`);
- an empty segment sent while a packet is deferred is built in the buffer where that packet
  waits; the flush then checks the length of what is announced now and copies what is there
  (`tcp_connection.rs:354`; the comment at line 52 says that the packet is retried). For these two
  reasons no run says that what the server sends arrives in the end; that the device never
  takes a wrong byte holds all the same (`DownloadIntact`);
- with the oldest datagram at position 0, one that reaches the end of the circular part sets
  the head to 0: a full datagram buffer looks empty, and all that wait are lost
  (`datagram_buffer.rs:62`; line 66 has "1 extra byte to distinguish empty vs full");
- the FIN of a segment whose data did not fit is processed although the data were
  dropped (`tcp_connection.rs:765`);
- control packets are skipped when the shared buffer is full and never sent again
  (`tcp_connection.rs:632`);
- a connection closed by the packet that created it stays live until the next
  poll and answers further packets (`router.rs:161`);
- every poll restarts the idle timer of a UDP connection, which therefore never
  expires (`udp_connection.rs:127`);
- a read of the client loop that does not fit behind an incomplete packet loses
  the rest (`client.rs:193`);
- a reconnection inside a packet leaves its first half in the device's stream
  object, and an unsupported version makes the buffer full instead of empty
  (`IPPacketOutputStream.java:102`);
- in forward mode, a timeout of `accept()` leaves a current tunnel without a socket
  (`RelayTunnel.java:109`);
- `stop()` between the unlocked read of the field `tunnel` and the making of its socket, or while a
  worker waits for `accept()`, finds nothing to close: the socket is opened afterwards and
  nobody closes it (`RelayTunnelProvider.java:77`, `:91`; `Forwarder.java:147` says that the
  tunnel is closed at this point). It is the one exception of `LiveIsCurrent`;
- a fallback thread that is alive during a stop may add its suggestion after `close()` has removed
  them, or switch to the relay's network after the restore (`ConnectivityFallback.java:565`,
  `:1429`; line 668 says that the app must clear the suggestions when the tunnel stops); a refusal
  to remove them is only logged, or not even that (`ConnectivityFallback.java:681`);
- the KitKat restore is skipped when no previous network was saved, and the networks
  that the fallback disabled stay so (`ConnectivityFallback.java:224`);
- `waitForTransport` takes the reported SSID for an association, which on KitKat it is
  not yet (`ConnectivityFallback.java:1408`; the suggestion path asks
  `isFullyAssociated`);
- two fallbacks at once can overwrite the list of enabled networks by a shorter one
  (`ConnectivityFallback.java:1193`);
- a stop after `establish()` returned null restores nothing, and a stop after a failed
  `vpnInterface.close()` dies of a null `forwarder` (`GnirehtetService.java:282`, `:363`);
- `getCurrentTunnel()` reads the field `tunnel` again outside its lock
  (`RelayTunnelProvider.java:72`, `:77`); after an invalidation in between, nobody catches
  the NullPointerException and that direction stays dead, although
  `PersistentRelayTunnel.java:27` promises automatic reconnections;
- UDP packets over IPv6 have checksum 0, which IPv6 does not allow (`packetizer.rs:25` says
  "correct IP and transport headers"); a datagram of 65488 bytes or more over IPv6 makes
  the 16-bit total length wrap (`packetizer.rs:121`); both are outside
  `DeviceAccepts`, the second, and the like behind IPv4 options, by `PacketizerAssumption`;
- the monitor's buffer survives a reconnection: after a torn list the next ones are
  misread, possibly for ever (`adb_monitor.rs:245`); `consume_okay()` spins at the end of
  the stream (`adb_monitor.rs:92`);
- a device that leaves and comes back while the monitor is not connected is taken for one
  that stayed, and a start that fails is not tried again until the device is replugged
  (`adb_monitor.rs:163`);
- the START of a thread that runs during Ctrl+C may arrive after the STOP, and no client is
  stopped when `adb devices` fails or the relay ends by itself (`commands.rs:1045`; the
  comment at line 1066 says that every device has been told);
- `start` from another terminal registers the serial in its own process, where no relay
  takes it (`commands.rs:697`);
- the cleanup of stale profiles also deletes those of a relay that is running
  (`hotspot.rs:311`; line 146 wants names unique "so multiple relays don't collide");
- when nmcli cannot list the interfaces, the first one is taken without asking
  (`commands.rs:59`); a failure after `connection add` leaves the profile, and a kill, or
  Ctrl+C where nothing waits for it, leaves the hotspot until the next start
  (`hotspot.rs:160`);
- the network of the interface is recognised by the name of its profile, not by its SSID
  (`commands.rs:104`);
- the backoff starts at 1 s where the comment says 500 ms, and the time of a session includes
  the wait for the connection, so that the first probe may not count as one
  (`relay.rs:78`, `:94`); a rule that goes away, or a session, starts it anew, so that the
  bound of `NoProbeStorm` holds only while the rule stays;
- a connection may be labelled with another device's serial: that of a start that failed, or
  waited longer than the window, or ran at the same time (`serial_registry.rs:63`); the module
  calls itself a heuristic and the label is used in the log, so no property is stated of it;
- an interface whose connection is on its way up counts as free, and so does one on a network
  of the user's whose profile is named `gnirehtet-*` (`wifi.rs:96`, `:155`); `UsersWifiKept` is
  about connections that are up, and about what was so when nmcli listed it;
- the captive portal check is switched off at the start and never on again
  (`commands.rs:704`); `reinstall` fails when nothing is installed (`commands.rs:511`).

## 4. Fairness

`TcpSession`: the client loop is endless and runs every connection's poll to its
end, so no step of it is put off for ever (weak fairness for the steps that
follow each other, strong for the ones that the bounds of the model disable now
and then). The socket connects, and accepts bytes again and again. The device
processes what it receives and its application sends. Nothing is assumed of
retransmissions: the liveness results do not rest on the device asking again.

`DeviceTunnel`: no thread stops at a step it can take, a free monitor is obtained
in the end, waits end. Nothing is assumed of the relay; `Recovers` is about
behaviours in which it stays reachable.

`GnirehtetService`: threads run and every wait has a timeout; nothing is assumed of the
framework or of requests.

`Host`: the monitor's thread and each command's thread go on while they can; adb calls
return. Nothing is assumed of devices, the adb server, nmcli or the user;
`EveryDeviceStarted` is about devices that stay.

## 5. Proofs

All theorems are about the specifications that TLC runs, with the constants
constrained by the named assumptions only.

- **TcpSessionProofs**, first of `TcpConnection` (windows smaller than half the sequence space,
  positive sizes). The invariant is a predicate of the record, `Sound(d)`: typed, buffer
  within capacity, `finSeq` present exactly in the closing states. `Preserves(d, e)`
  says that `e` is sound and `onward` of `d`; a lemma per method shows it of what the
  method returns, and the lemmas compose along the calls. The device of this
  specification sends arbitrary segments, so the results do not depend on a
  well-behaved device.
  Then of `TcpSession` (streams that do not go round the sequence space, counting the headers
  of deferred packets, which the code adds to its sequence number; the initial numbers are
  arbitrary, so the numbers do wrap). `SessionIsConnection` is the step simulation of
  `TcpConnection`: its device sends arbitrary segments, a TCP device some of them, so its
  theorems carry over (`SessionForward`). The properties of the two ends need invariants that
  relate the record of the connection, both queues of segments, the socket and the device:
  - `OpeningInv`: no data before the SYN-ACK, and none at all before the socket is connected.
  - `ResetInv`, for `ResetIsFinal`: a connection that is open has written no RST, and one that
    is closed only waits for the end of its poll. It needs no hypothesis on device or socket.
  - `UploadInv`, for `UploadIsIntact`, `WindowIsKept`, `FinIsLast` and `AcksAreAccepted`: bytes
    written and bytes in the buffer are together a prefix of the device's stream, and the
    acknowledgement number is the next one; the edge of every window that is under way or
    known to the device is within what the buffer can take. The hypotheses are
    `~ServerEnds`, because `eof()` counts a FIN that was not received (the run
    `tcp_server_ends` is the counterexample), and `Overshoot = 0`, a device that respects the
    window: the data of one that does not may be dropped while its FIN is processed.
  - `SmoothInv`, for `RetransmissionsAreOld`: the device's segments follow each other without
    gaps, and their acknowledgements too, so that whatever is not the next segment is covered
    by what was accepted. This and `AcksAreAccepted` assume `~Failures` as well: failures include
    SYNs left over from older connections, whose numbers mean nothing here.
  - `DownInv`, for `DownloadIsIntact` and `DeviceIsNotOverrun`, with no hypothesis: numbers are
    offsets from the relay's initial one, and `g` is the end of what was sent in order: it grows
    with the sequence number until a flushed packet moves that number past it, and
    stays from then on. What lies before `g` has the bytes of its place, and the device
    never expects a number beyond `g`, so it never takes a misplaced byte. An
    acknowledgement is genuine, and then not above what the device has received, or a stray
    one, which an open connection does not meet; `remaining_client_window()` is
    therefore never more than the room the device still has (`WindowLeft`).
- **RouterProofs** (disjoint sets of ids, positive TTL). The invariant joins the
  domains of the two maps, disjoint, with the agreement of the history ages with
  the recorded ones for tuples younger than the TTL. It is needed as one: that a
  purged entry was old rests on the agreement, and the agreement is kept by
  `Deliver` only because live tuples have no entry.
- **SequenceLemmas** is what the inductions over data rest on. The library's induction theorems
  take an operator as a parameter, which the provers cannot instantiate; the least-number
  principle for *sets* of numbers they can, and induction for a set (`Hereditary`,
  `Successors`) follows from it. `RecursionSolvable`: an equation `f = step[f]` whose right side
  looks only at smaller arguments has a solution, which is what makes a recursive function
  equal to its own definition. From these come the laws of concatenation (`SplitAt`, `Cancel`,
  `Longer`) and of `FlattenSeq` (`FlattenAppend`, `FlattenConcat`).
- **TunnelProofs** (any capacity of at least 1, any packets, any bound), first of
  `StreamBuffer`: the inductive invariant `IInv` is
  the type invariant with `EmptyIsReset`: without it, head and tail of an empty
  buffer could be anywhere and `write_to()` would not be known to start at the
  left. The refinement is proved step by step: a `ReadFrom` appends to the unrolled
  content (slice by slice when it crosses the end), a `WriteTo` removes its front.
  Then of the client's output, on top of that invariant: `tail = 0`, and the bytes owed are the
  bytes pending followed by the content. `drain_outgoing()` takes one slice; it is everything
  because `tail = 0`, and `tail = 0` again because everything was taken.
  Last of the two streams as a whole (packets are well formed and no longer than `MaxChunk`,
  the sink's buffer is twice that, as in the code). `Framed`: the packets emitted are those that
  are done and those still to come, the bytes that wait and the bytes under way are exactly
  the latter, and what waits is shorter than the first of them. Both cutters (`Routing` on the
  relay, `Sinking` on the device) are recursive functions of the buffer; `CutterCuts` shows, by
  induction on its length, that whatever a read appends, they cut off whole packets of
  the stream and leave `Framed` behind. `TunnelInv` says so for the direction followed, with as
  much as a cut leaves true: until a cut, everything; after cuts between packets, that the
  buffers still begin at a packet; after a cut within one, for the router, whose buffer
  is new with every `Client`, again everything.
- **GnirehtetServiceProofs** (disjoint kinds of networks; any threads, networks, API
  levels and retries). `PreviousIsTheUsers` is inductive by itself. `PasswordsKept` needs
  the statuses typed, and rests on the one caller of `findOrAddOpenNetwork()`. For
  `NoSuggestionLeft` the invariant `QInv` adds that a stop has no start pending, and that
  once its removal was tried, whatever is suggested was kept by the system or added since
  by a thread that outlived the stop; nothing is assumed of either.

- **UdpConnectionProofs** (any capacity, header and lengths). `BlockInv`: the head is in the
  circular part and every block starts there; the memory behind it is as long as the
  longest block. `OrderInv`, for `EmptyIsEmpty` and `OldestIsFirst`: the array can be unrolled
  from the tail on (`Laid`): the waiting blocks follow each other, none lies across the point
  `end` where they wrap, and the last one ends before the tail comes round. The point is
  part of the invariant because it depends on the blocks that were written before the wrap,
  not on the capacity alone. With the
  tail at 0 the head may come round to it: `read_from()` then leaves what looks like an empty
  buffer, and as the lost blocks leave the queue with that step, it is one, laid out
  afresh. Neither theorem assumes anything of the capacity, so both cover a buffer that has lost
  everything before.
  Then of `Packetizer`, for `AllAccepted`, `AllAsAsked` and `AnswersFit` (any first packet that is
  whole, any data read from the network, any sequence of builds). `PacketizerAssumption` says what the
  device sends and what a read returns: headers and lengths that agree, octets, and no length
  that a u16 does not count. Three facts carry the rest:
  - the relay's `sum16` and the device's sum of words are the same number (`WordsAreSum`). Both
    are sums over a set of positions that take them in an order of their own, and
    `AddsAdditive` shows that the order does not matter;
  - folding the carries keeps the remainder modulo 65535 (`CarriedRight`), so that a packet with
    the complement in its place adds up to a multiple of 65535, and to more than 0, which is what
    the device asks for;
  - the first bytes of the buffer are the IP header, the transport header and the data,
    in this order (`Assembled`), so that what a header's setter did is what the packet shows.

  The inductive invariant is `BufferInv` with `SentInv`: the headers in the buffer are those of the first
  packet, crossed, with whatever numbers, flags and lengths the last build left; behind a deferred
  packet that was not overwritten the buffer still holds the packet that was asked for.
  Without the second part, what a flush sends would be unknown.
- **DeviceTunnelProofs** (any number of workers and tunnels). `TunnelInv`: a worker between
  its wait and the end of its attempt holds the lock; there is no tunnel while one waits;
  a worker dials a tunnel that is the current one or that was overtaken, or its socket is
  closed already; until `stop()` no tunnel is overtaken (`Untouched`: between the read of the field
  and the socket nobody else has that tunnel to report as broken), which is why the other worker
  alone cannot do what `stop()` can.
- **HostProofs** (at the start every interface has a connection of the user's or none; process
  ids are not used again). `WifiInv`: between the choice
  of an interface and its takeover there is an excuse, or the interface is still not the
  user's; nothing the relay does in between connects it. `HotspotInv` has three parts.
  `SetupInv`: how far the setup has come, and that every profile is of a run so far, so that this
  run finds none of its own. `LeftInv`: unless nmcli failed, a connected hotspot has a
  profile, so that a cleanup finds it even after a kill; from the cleanup on the only
  profile is this run's, and `stop()` removes it (`HotspotIsRemoved`). `NameInv`: the name
  chosen is unused until the profile has it (`SsidIsReachable`). `StopInv`: while the clients are
  being stopped, one that runs is still to be stopped or is `late` (`ClientsAreStopped`).
  `ProbeInv`, for `ProbesAreSpaced`: the k-th last probe is at least so old as the backoffs
  since add up to (`Spaced`, `Gap`), which depends on how many probes were counted; the first may not have
  been. `FollowInv`, for `ListsAreWhole`: what was read and what is still to be read are the
  answer and a beginning of the lists, all of them while the connection is open; a list begins with
  the length of its text, which `parse_length()`, a fold, reads back (`LengthParsed`). It assumes
  nothing of the size of the buffer: a list that does not fit counts as torn.

Only model-checked:

- liveness (fairness is out of the prover's reach).

`TypeOK`, `EmptyIsReset`, `NetworkBufferBounded`, `FinSentMatchesState`, `NeverWraps` and
`OutgoingIntact` are proved, and no run repeats them.

## 6. Not modelled

The SOCKS5 exchange (before the connection exists; its outcome is `Create` or
`CreateFails` of `Router`), notifications and permission dialogs, the Wi-Fi
Direct group and the local-only hotspot beyond their outcome, the hotspot on Windows and
macOS, NetworkManager joining a network by itself, download and extraction of adb,
detection of DNS servers and MTU, the interactive menu, argument parsing, logging, and
`ipv4_packet_buffer.rs` and `dns_cache.rs`, which nothing calls.

## 7. Plan

Done: the data path, from the VPN interface of the device to the sockets of the
relay, the packets on it, the life of the service around it, and the host's commands.
Next, in this order:

1. What a fallback thread that outlives a stop does to the networks, as properties; of the
   suggestions it is done.
2. The host's connections changing between nmcli's list and the takeover.
3. The hotspot on Windows, where the SSID may not be the one that was asked for.
