# A TLA+ model of gutd

gutd (packetveil) carries WireGuard datagrams between two hosts in another wire
format: `quic`, `gut`, `sip` or `syslog`. This directory models it in TLA+,
model-checks the models with TLC on small instances, and proves the most important
safety properties with TLAPS for every instance.

`PROJECT.json` lists the components, the runs, the lines each definition
translates, the hazards, the findings and the theorems. Paths such as
`src/userspace.rs` here are relative to the repository; `PROJECT.json` puts `src/`,
the directory of the checkout, before them.

## The system

| Part | State | Operations | Interacts with |
|---|---|---|---|
| **Userspace proxy** (`src/userspace.rs`) | `shared_wg_peer`, `shared_peer_ext` (lock-free addresses); `client_map`, `session_map`, `client_obfs` (a mutex each); sockets, batch receivers | one egress thread (WireGuard to peer), one ingress thread per listening port (peer to WireGuard) | WireGuard on the loopback, the peer or clients on the network |
| **Packet codec** (`userspace.rs`, `src/proto/`) | none | encapsulate, verify, decapsulate, probe answers | both data paths must understand each other |
| **Daemon** (`src/main.rs`, `src/reload.rs`) | reload and exit flags, `config`, managers, refresh counter | start, 500 ms loop, periodic refresh, SIGHUP reload, exit | loader, systemd, signals |
| **Loader** (`src/tc/`, `src/tun.rs`, `src/netlink.rs`) | veth pairs, attached programs, config maps, the dispatcher's `port_map` and program slots | `TcBpfManager::new`, `update_config`, `Drop`, `XdpDispatcher::new`, `register_peer`; route, neighbour and MTU resolution | the kernel, hosts on the link |
| **eBPF data path** (`src/bpf/`) | `config_map`, packet counter, LRU `client_map` and `session_map`, per-CPU scratch | dispatcher, XDP ingress, TC egress, tail calls | loader, NIC, veth |
| **Configuration** (`src/config.rs`) | none | parse a file, read the environment, validate | daemon, proxy |
| **Windows** (`src/windows_*.rs`) | pinned route, WFP filters and sublayer | pin, install, watchdog, tear down | Windows API |
| **Installer** (`src/installer.rs`) | files | install, uninstall | service manager |

What makes it hard:

- `SharedAddr` is written and read one 32-bit word at a time by several threads.
- Three maps, each with its own mutex, are updated by several threads from
  datagrams that are lost, duplicated, delayed and reordered, while clients move.
- The maps are lost with the process, and the sessions of WireGuard are not.
- A packet says its own length, mode and padding in a few masked bytes, and three
  implementations (userspace, TC, XDP) have to agree on every length.
- Batches of datagrams lie in one buffer in which each is encapsulated in place.
- Signals arrive between any two steps of the loop; a start can fail half-way; a
  crash leaves veth pairs, legacy XDP attachments or firewall filters behind.
- Routes and neighbours change between the system calls that look them up, and the
  time spent on retries counts against a watchdog.
- One setting lives in several places (`config`, `config_map`, `port_map`,
  `ports`, `peer_ports`, the environment) that have to agree.

## Modules

| Module | Models |
|---|---|
| `SharedAddr`, `UserspaceProofs` | the lock-free address |
| `DynamicServer`, `DynamicServerProofs` | the userspace proxy as a server with `peer_ip = dynamic` |
| `Codec` | the userspace packet codec: encapsulation, verification, decapsulation, header detection |
| `KernelCodec` | the codec of TC egress and XDP ingress in the modes `quic` and `gut` |
| `Formats`, `FormatsProofs` | the two codecs and the other pure algorithms against what they should compute |
| `Tunnel`, `TunnelProofs` | a client and a server with a fixed peer, composed from `Codec` and a network |
| `Socket`, `BatchRecv`, `UserspaceProofs` | a plain socket, and the `recvmmsg` receiver that implements it |
| `Daemon`, `DaemonProofs` | start, loop, reload and tear-down in eBPF mode |
| `NextHop`, `NextHopProofs` | how the daemon finds NIC, route, MAC address, MTU and default action of each peer |
| `Config`, `ConfigProofs` | file and environment, up to the ports given to the kernel |
| `WindowsClient`, `WindowsProofs` | route pin and WFP filters of the Windows client |

The `MC...` modules only give the constants their values. Definitions whose comment
begins with "Variant of" are the changed code that a property must notice; no
specification uses them.

### SharedAddr

`cell` is the six atomics. Every access to one is a step. The data cells are
accessed `Relaxed` and the family with `Release`/`Acquire`, so the model lets the
data stores of one `store()` happen in any order before the store of the family,
and the data loads of one `load()` in any order after the load of the family. A
store takes effect for all threads at once. This is what multi-copy-atomic
hardware gives, and a call counts as ended when its last access took effect; the
language's memory model would allow more, and no property here is claimed for it.
Words are two bits wide where the fingerprint is computed, since XOR works bit by
bit. The addresses are given by the six words `store()` would write. `object` says
which of the two cells a behaviour is about: the ingress threads store into
`shared_peer_ext`, the egress thread tracks WireGuard in `shared_wg_peer`.

`live`, `overlap` and `cand` are history: which addresses a load may return. An
address is live from the beginning of its store until a store that did not overlap
it has ended.

### DynamicServer

Each thread is a program counter over the points where it touches shared state;
each lock-protected map access is one step. The one mutex that is held across
steps is `session_map`'s: in `if let Some(&c) = session_map.lock().unwrap().get(..)`
the guard lives to the end of the body, which locks `client_map`. So
`sessionLock` is a variable and the other two mutexes are not.

A datagram is its WireGuard type, the index the proxy reads, and its source. What
the codec does with it is the subject of `Codec`. A datagram that fails verification
is answered or dropped and changes no state, so it does not occur here (it does in
`Tunnel`). The wire format the server detects is the one the sender uses, which
`ArrivalsRecognised` of `Tunnel` is about. The WireGuard of the server and the
clients are the environment: a session answers one handshake, and a client sends
only in sessions it has been told of. Server indices are not reused. Each address
belongs to one client, and so does each host, because SIP replies go to a fixed
port of the host (`FinalDest`). Keepalives of the server's own WireGuard to a SIP
client leave as OPTIONS requests from the first socket, its data as media (`IsMedia`).

`EgressRecv` takes a packet when WireGuard sends it, without a queue on the
loopback. What WireGuard may send only grows, so this loses no behaviour.

### Codec and KernelCodec

A WireGuard datagram is its type, its length, its contents (a model value) and the
masks that lie on its two masked regions; a packet on the wire is a header record, a
body and a length. The ChaCha block is an abstract function of key, counter and
nonce, so that masking twice with one block restores the contents and any other mask
leaves a trace. A packet that is cut at the header of another mode gives bytes that
nobody sent (`Garbled`). Lengths are exact: header sizes, padding and ballast rules, the
thresholds at 32, 92, 148, 220 and 256 bytes, Base64 and the text headers of `sip`
and `syslog`.

`KernelCodec` is the C code. It differs from userspace on purpose in which packets
get which header and padding, and XDP takes the ballast off last. Addresses,
checksums, the random drop of keepalives and the maps of a dynamic server are left
out, and so are the text modes.

### Tunnel

The client's handlers touch one shared cell each and are single steps; the server's
are split where another thread can get in between: detect, record the mode, learn
the endpoint, and on the way out choose the destination, then the mode and the
socket. The network loses, duplicates and reorders, and brings datagrams of
strangers. The client changes host, NAT port and the port of its WireGuard. `used`
and `intact` are history. The endpoints and modes a side has learned are plain values
here; their word-by-word access is the subject of `SharedAddr`.

### BatchRecv and Socket

`Socket` is what the loops of the proxy expect: a queue from which one datagram at a
time is taken. `BatchRecv` has the slots, `count` and `current`, and the caller that
encapsulates in place, with the header and the padding that the destination's mode
gives the datagram; an index beyond the slot is a panic that ends the thread. A slot
that was worked on holds 0. `ImplementsSocket` is the
refinement, with `queue` mapped to the rest of the batch followed by the kernel's
queue.

### Daemon

`pc` follows `run_daemon()`: `start`, the four stages of `TcBpfManager::new()` for
each peer, and the stages of a pass of the loop. A configuration maps peer names
to ports; the ports stand for all a reload may change. The loops over peers visit
them in any order, although the code uses the order of the file. All peers share
one NIC. The maps go with the process, while the veth pairs stay in the kernel,
and a dispatcher may stay too if it was attached the legacy way (`Killed`). The one an
earlier process left stays also when a start fails before it has made its own
(`HasDispatcher`).
`owed`, `quiet` and `ended` are history.

### NextHop

The daemon is one thread, so `pc` follows one call chain: ingress NIC, source address,
`resolve_l2_peer_ip`, the rounds of `resolve_peer_mac` (raw ARP or neighbour
solicitation, neighbour cache, probe, pause), `resolve_default_gateway_mac` with its
three methods, the guard on `default_policy = drop`, and the MTUs. `clock` counts
units of 50 ms since the last `WATCHDOG=1`. Routing tables are sequences of routes;
netlink and `/proc` are two definitions of the lookup. Stations answer or ignore
requests, replies get lost, and unrelated frames restart a receive timeout, as they do
in the code. Interfaces do not vanish during an exchange.

### Config

A file is a sequence of `[global]` and `[peer]` sections, a section a record of its
keys. The parser finishes a peer when the next section begins, with the `outer_mtu`
known by then. Keys that are only copied are left out, but for `sip_domain`, whose
default depends on the reader.

### WindowsClient

`main` is the thread of `userspace::run`, `worker` the watchdog or, before it is
spawned, the installation on the main thread. The filtering engine can stop and
start, other programs' sublayers come and go, another VPN may take the route, calls
fail, and the process crashes and starts again. An installation adds its filters one
at a time, layer by layer, first in the own sublayer and then in those it has
enumerated, and the host may act in between. `filters` is what the engine holds,
each with its sublayer, its layer and the process that added it. `lingering` are the
routes whose deletion failed.

## What is checked

| Run | Instance | Shows |
|---|---|---|
| `shared` | 2 writers, 1 tracker, 1 reader; 2 IPv4 addresses for the peer, IPv4 and IPv6 for WireGuard | `FieldwiseRegular`: each word a load returns is of an address it may return; `None` only if nothing was stored. `TracksWgPeer`: the fingerprint comparison skips only stores that change nothing |
| `dynamic_server` | a `sip` client behind a NAT that moves, a `gut` client, all packet types, 2 ports and 3 peer ports | replies reach the right client, in its format; sessions resolve; `PanicsPastPortsOnly`: a missing socket is indexed for media to a SIP client only |
| `dynamic_server_live` | 1 client, 2 addresses, a restart at any time | no packet is stuck on a mutex; the route settles where the client stays, also when the maps were lost |
| `tunnel` | a client in each mode, a `quic` server, 2 hosts, 2 NAT ports | `DeliveredIntact`, `ArrivalsRecognised` and `RepliesReturn`: datagrams arrive as they were sent, in a mode the other side reads, and replies go to sockets of the client although strangers send too; `EndpointSettles` |
| `formats` | lengths to 1452, all types, modes, directions, 10 padding bytes, 2 keys; bytes; prefixes; 50000 days | round trip and recognition in userspace, agreement of userspace and eBPF, MTU; in `HelpersCorrect` version negotiation, Base64, dates, point-to-point peers |
| `batch` | 9 datagrams of 96 bytes up to one byte too long, handshakes among them, 3 slots, 3 bad addresses | `BatchRecv` implements `Socket`; `PanicsOnOversizeOnly`: encapsulation leaves the slot for oversized datagrams only; nothing is left lying |
| `daemon` | 3 peers, dispatcher for 2, 3 files of which one is bad, failures, crashes | no SIGHUP is lost and each is served; `ManagersAreWhole`: the loop begins with no peer half set up, whichever step failed; an orderly end is clean; the config map follows the NIC's address |
| `nexthop` | 2 NICs, 2 routing tables that alternate, 4 kinds of peer, with and without CAP_NET_RAW and netlink | the MAC is of the right link; the gateway is the last resort; `/proc` agrees with netlink; the MTU is that of the NIC; passes end, and one build alone meets the watchdog |
| `config` | 1 `[global]` and 2 `[peer]` sections that differ from a usual one in at most two keys | `PortMapExact`: while peers are registered each of their ports leads to its owner and no other port anywhere; `outer_mtu` is that of `[global]`; environment and file agree |
| `windows` | Ethernet, Wi-Fi, a VPN; 2 foreign sublayers, 2 processes | filters of an earlier process are gone after an installation, own ones after a stop; only failures in a row are counted; the pin wins or is rolled back; the watchdog gives up; stopping ends |
| `reload_sticks` | 2 peers, 2 files | **violated**: the periodic refresh (`src/main.rs:489`) rebuilds the settings from the configuration of the start, while `doc/running.md:39` says that SIGHUP pushes the new ones "into the running BPF maps" |
| `windows_readded` | 1 foreign sublayer, 1 process | **violated**: when WireGuard's sublayer is removed the watchdog re-installs without it, and when it is back nothing on record is missing (`src/windows_wfp.rs:284`), so it gets no filter, while `src/userspace.rs:1189` says that "if the filter goes missing (wg re-install, BFE restart) it is re-added automatically" |

`tunnel` has a `quic` server, since a server of another mode only changes the answer
to an unknown endpoint; the three other values of `ServerModes` pass as well, each as
long as the first.

Type correctness (`TypeOK`), `DispatchesToOwner`, `Recorded` and the slot invariant
`Inv` are in no run, since they are proved for every instance below. Each property of
a run has a changed definition ("Variant of") under which TLC finds it violated.

**Bounds.** `MaxNet` and `MaxOut` bound the datagrams in flight per direction. One is
enough to delay, reorder and duplicate, because a datagram may stay in flight while
others are lost and sent, and each thread holds another one. `MaxRestarts`, `MaxMoves`
and `MaxDups` of 1 may come in any state. `RefreshTicks` of 2 stands for 120 and
`WatchdogTicks` of 3 for 60: both branches of each counter are taken. `MaxPeers` 2
with three peers fills the dispatcher. An `OuterMtu` of 20000 makes batches of three
slots, so that nine datagrams fill several, whole and partial. In `NextHop` the rounds
(`Attempts`, `Sends`, `GwRounds`) are 2 instead of 6, 4 and 8, and `WatchdogSec` of
155 (7.75 s) lies, like the 30 s of the unit file, between the time of one build on a
silent link and that of two; the theorem has the code's numbers. `MaxChatter` bounds
the unrelated frames that are counted. `NumPorts` 2 and `NumPeerPorts` 3 are the case
in which a socket is missing. `NumLayers` 2 stands for six: a filter before and one
after an interruption. `MaxFailures` 2 stands for 20, and `MaxRuns` 2 is a crash and
what the next process finds. `formats` sweeps all lengths of a 1420-byte MTU, and the
padding bytes at which a mask or limit changes. The theorems below have no bounds.

**Fairness.** In `DynamicServer`, `ThreadFairness`: the operating system schedules the
threads, and a futex-based mutex that is free again and again is obtained in the end
(strong fairness). `NetFairness`: from an address that keeps sending something
arrives, and a Type 2 that is sent again and again arrives. `PeerFairness`: WireGuard
retries handshakes and answers them; a client with a session keeps sending in it.
`RekeyFairness`: after a restart of the proxy WireGuard repeats its handshake (every
two minutes); without a restart the route settles by data packets alone. In `Tunnel`
WireGuard keeps sending (keepalives, retries), a datagram in flight is gone in the
end, and of those a client keeps sending one arrives. In `Daemon` a running process
is scheduled and resolving a peer's addresses does not fail for ever; no property
needs systemd to start an ended process again. In `NextHop` the thread runs
and a receive during which no frame arrives times out (weak fairness).
`ndp_request_reply` has a deadline, so that its receive ends whatever arrives (strong
fairness); the other two loops have none, and `PassEnds` excepts a thread that unrelated
frames keep in one of them for ever. In `WindowsClient` and `BatchRecv` the
threads run, and nothing is assumed of the host.

## What is proved

All theorems hold for every value of the constants that satisfies the `ASSUME`s of
the module, in particular for any number of threads, clients, addresses, peers,
datagrams and sublayers, and packets of any length. TLC evaluates the assumptions in
each run.

- `UserspaceProofs`, for `SharedAddr`: `AddrTypeCorrect`; `LoadIsFieldwiseRegular`;
  `TracksIfInjective` (the fingerprint comparison is right when no two addresses, and
  no address and the unset cells, share a fingerprint) and from it `TracksIPv4`. The
  invariant says that each cell holds the word of a live address, that a store still
  to write a cell keeps its address live, and that a finished or running load has read
  words of its candidates only.
- `DynamicServerProofs`: `RoutingInvariant`, and from it `TypeCorrect`,
  `NoMisrouting`, `RepliesAreUnderstood`, `SessionsResolve`; and
  `PanicsOnLongerPeerPortsOnly`: the egress thread can die only if `NumPeerPorts`
  exceeds `NumPorts`, and of media to a SIP client. `RightClient` alone is not
  inductive: a reply is right because `client_map` is, which is right because each
  datagram in a thread or on the network is `Genuine` (its index and source belong to
  one client) and `session_map` agrees with WireGuard. A reply's format is right
  because an address enters `client_map` only after its format is in `client_obfs`;
  hence `Recorded` in `MapsInv`, `EgressInv` and `ThreadOK`. Most steps only have to
  show that they forget no session and no format (`KeepsSessions`, `KeepsModes`); the
  `...Kept` lemmas carry over the parts they do not touch.
- `DaemonProofs`: `DaemonInvariant`, and from it `TypeCorrect`, `SighupsAreKept`,
  `DispatcherAgrees`, `ServedPeersAreWhole`, `OrderlyEndIsClean`. `Progress` says
  where each peer of the configuration is (waiting, being set up, served), so that
  at the end of the loop every peer has a manager to delete its pair; `Parts` says
  what a half set-up peer already has.
- `UserspaceProofs`, for `BatchRecv`: `SlotsStayFresh` (the inductive invariant), and
  with it `BatchImplementsSocket`: a refill leaves the mapped queue as it is, because
  the batch is used up and what the slots gain the kernel's queue loses; handing out
  takes the head of the mapped queue; work in place touches no slot still to be handed
  out. `EgressPanicsOnOversizeOnly` goes through the modes: a slot has 548 bytes more
  than `outer_mtu`, and encapsulation adds at most 25 to a large datagram; a handshake
  with its long header fits the minimum of 2048.
- `FormatsProofs`, for the codec: `DecapUndoesEncap`, `VerifyIsExact`,
  `DataPathsAgree`, `LongestBallastDropped` (the exception of `DataPathsAgree` is
  exact) and `RecommendedMtuFits` for domains of up to 32 characters. The argument:
  masking leaves the bytes untouched from which the nonce is taken, so both sides
  compute one block; the padding byte gives the padding back; so the second region is
  found where it was. For XDP, what TC writes is what a userspace client would write
  with another padding (`TcIsClient`), and the lengths WireGuard uses put the second
  region at the same place with the ballast still on. The lemmas are about a datagram
  with any contents (`IsCase`), so that the sweep of `formats` and the tunnel both use
  them.
- `FormatsProofs`, for the other pure algorithms: `HelpersAreCorrect`.
  `DateIsGregorian` is an induction over the days: the formula finds the year within
  its cycle of 400 years because the correction terms step exactly at the ends of 4,
  100 and 400 years (`YearFound`), then the month from the day of the year, and
  `NextCivil` shows that the next day's formula is the calendar's next day, month by
  month. `Base64Correct` holds for byte strings of any length: `decode` works group by
  group, and each group of four characters gives back its three, two or one bytes.
- `TunnelProofs`, on the codec lemmas of `FormatsProofs`: `TunnelInvariant`, and from
  it `AlwaysIntact`, `AlwaysRecognised` and `RepliesAlwaysReturn`, for any number of
  ports, hosts, datagrams and strangers' datagrams in flight, and all sixteen pairs of
  modes. `TunnelInv` says of each datagram in flight who made it and how (`Genuine`):
  the client, in its own mode, from an address it has had; a stranger, under another
  key or none; or the server, as an answer or as a reply, which is in the mode of the
  client if it goes to a learned endpoint. From this and the codec follows that the
  server records modes and endpoints for the client's packets only (`ServerInv`), that
  a mode is recorded before the endpoint is learned, and that either side gives its
  WireGuard what the other's has sent. The three properties alone are not inductive: a
  datagram that arrives late is read with the maps as they are then.
  `AlwaysRecognised` has the hypothesis that the domain has at most 32 characters, and
  `RepliesAlwaysReturn` that the NAT keeps the ports or no client uses `sip`; it needs
  `PortsUsed` besides, since a SIP reply goes to the configured port of the learned
  host. Both are limits of the code (see below). The assumptions on the constants:
  each side has a port, server and strangers have hosts of their own, and WireGuard's
  datagrams are at least as long as its keepalive.
- `NextHopProofs`: `ScanFindsLongest` says what the loop over a route file computes
  for files of any length, and `FallbackIsKernel` and `FallbackAlwaysAgrees` follow
  from it for tables in the order in which the kernel prints them
  (`TablesAssumption`). `Controlled` gives `TypeCorrect` and says what the thread
  knows where; on it rest `OuterMtuIsOfNic`, `FallbackIsLate` (`MissedInv` counts the
  requests of each round that went unanswered), `WatchdogTimeBound` (`TimeInv` bounds
  the clock at each point of the retries, as a formula in the rounds), from it
  `OneBuildMeetsWatchdog` for the code's numbers (`CodeNumbers`), and
  `NextHopStaysOnNic`. The last one has two hypotheses: a gateway is a neighbour on
  one link only (`GatewaysOnOneLink`); and the peer is no neighbour on another link,
  and the NIC has a default route if there is one at all (`UplinkKept`), since the
  daemon looks for its NIC once, at the start.
- `ConfigProofs`: `ReadersAgree` compares what the file and the environment make of
  one peer's values, and `SipDomainDefaultsDiffer` says where they part;
  `TypeCorrect`, `OuterMtuAlwaysAgrees`, `EnvAlwaysAgrees`, `PortMapAlwaysExact` and
  `LongListsCut` hold for files with any number of sections. The invariants say which
  peers the sections read so far have built (`Built`), with which MTU, and which ports
  the loader has entered for the peers before the one in hand (`LoadInv`).
  `BlocksAssumption` gives the keys their types.
- `WindowsProofs`: `Holds`, and from it `TypeCorrect`, `AllRecorded`,
  `OwnSublayerIsFresh`, `FailuresAreConsecutive`, `StopIsClean`;
  `RouteWinsOrIsRolledBack` from `PinInv`. `ThreadInv` says which thread may be where,
  since the installation begins on the main thread and continues on the watchdog;
  `EngineInv` relates the handle, the recorded filters and those in the engine, which
  a restart of the engine empties.

What a loop or a recursive function computes is proved without a rule of induction: a
number at which a claim fails first exists because the order of the natural numbers is
well-founded (`Least`, from the library's `WFMin`), and `UpTo` turns this into a step from
`n` to `n + 1`. A function that is defined by recursion is first shown to exist.

Only model-checked: the liveness properties (`ThreadsReturn`, `RoutesSettle`,
`SighupIsServed`, `AddressFollows`, `EndpointSettles`, `PassEnds`, `GivesUp`,
`StopEnds`, `AllHandedOut`), since fairness and `ENABLED` are outside this prover.

## Where the code and its documents differ

`reload_sticks` and `windows_readded` are runs. The models show the following as well;
each property is stated so that it is exact about it.

Proxy and codec:

- A `load()` of a `SharedAddr` that overlaps a `store()` may return the host of one
  address with the port of another, which is why `FieldwiseRegular` speaks of single
  words. `doc/architecture.md:74-75` describes the address as one `AtomicU64`.
- Two IPv6 addresses may have the same fingerprint, and then the change is not
  stored; `TracksIPv4` needs IPv4.
- A SIP reply goes to the configured port and not to the learned one (`FinalDest`),
  although the comment at `src/userspace.rs:1740-1742` speaks of the "real (possibly
  ephemeral) port". `RepliesReturn` therefore has a NAT that keeps the ports.
- A SIP keepalive is answered as a probe and not learned, while `doc/running.md:300`
  says that the endpoint is updated "on every valid packet".
- With fewer `ports` than `peer_ports` a SIP server indexes a missing socket, and the
  egress thread ends (`PanicsPastPortsOnly`). `doc/configuration.md:64` promises a refusal
  to start with fewer than 2 ports; the code counts `peer_ports` only.
- A datagram larger than `outer_mtu` + 523 bytes ends the egress thread
  (`PanicsOnOversizeOnly`).
- One `gut` packet in 512 looks like RTP, whose check runs in every mode, and loses
  its first bytes. `ArrivalsRecognised` excepts it.
- XDP refuses ballast of 64 bytes (`src/bpf/xdp_gut_ingress.bpf.c:757`), which its own
  comment at line 555 and `src/bpf/tc_gut_egress.bpf.c:249` allow: one small `quic`
  packet in 64. It also locates the second region with the ballast in the length,
  which does no harm to the lengths WireGuard uses. `KernelInterop` leaves the 64 bytes
  out, and `LongestBallastDropped` proves that each such packet is lost.
- A syslog domain of more than 32 characters is not recognised by the receiver.
- The weekday in the SIP date is off by one; `CivilDate` is about the rest.

Daemon and loader:

- A start that fails after `create_veth_pair()` leaves that pair behind, so
  `CleanShutdown` is about orderly ends. `doc/architecture.md:54` says that gutd
  "Tears down the veth pair on exit".
- SIGHUP ends the process until its handler is installed, and always in userspace
  mode, so `NoLostSighup` is about signals that found their handler. Userspace mode
  does not send `WATCHDOG=1` either, against the help text at `src/main.rs:603-604`.
- A reload changes the config map and not the dispatcher's `port_map`, so a port that
  is new in the file is not dispatched, against `doc/running.md:39`.
- Resolving one peer can take 16.6 s on a silent link, where the comment at
  `src/tc/loader.rs:1531` says about 2 s, and two in one pass exceed the 30 s of systemd's
  watchdog (`MeetsWatchdog`); every unrelated frame prolongs a receive. Each round asks
  the link before it looks at the cache, where the comment at `src/main.rs:483` speaks of
  "a fast ARP-cache lookup first".
- The second dump of `lookup_arp_cache` is not filtered by interface; `NextHopOnNic`
  assumes that no address is a neighbour on two links.
- The guard that turns `default_policy = drop` into PASS looks at IPv4 default routes
  with a gateway only.
- The MTU is that of the first source that is known, where `doc/configuration.md:18`
  speaks of the maximum.

Configuration:

- More ports than `MAX_PORTS` (6) are dispatched but not served, while
  `docker/README.md:198` supports 16 (`LongListsCut`).
- A `[global]` section after a finished peer comes too late for it (`OuterMtuAgrees`).
- The bound on the keepalive percentage is checked in the file only (`EnvAgrees`), and
  the default of `sip_domain` differs between the two (`SipDomainDefaultsDiffer`).

Windows:

- Filters that a crash leaves in other programs' sublayers are never removed;
  `OwnSublayerFresh` is about the own one.
- The watchdog gives up after 20 failures at 5 s each, where the comment at
  `src/windows_wfp.rs:219` says 5 minutes; ending the process that way skips the drop
  of the pinned route, which is why `CleanStop` is about returning from `run`.

## Not modelled

- **The rest of the eBPF programs**: the text modes, addresses and checksums, the
  packet counter and the LRU maps of a dynamic server. The counter only chooses among
  valid headers. Eviction is the kernel's approximate LRU, whose order the programs
  cannot state.
- **Cryptographic primitives** (`src/crypto.rs`, `src/proto/feistel.rs`, the AEAD of
  the QUIC header): bit manipulation with test vectors, out of reach of TLC; the
  models use abstract functions.
- **Attach fallbacks** of the loader (link, netlink, generic XDP): one step that
  succeeds or fails.
- **Reuse of server indices** by WireGuard, and the growth of the proxy's maps, which
  has no limit in the code.
- **Wording of SIP and syslog headers, netlink message layouts, syntax of a
  configuration line**: formatting; only lengths and what checks look at matter here.
- **Statistics, logging and the installer**: no state a modelled decision reads.
