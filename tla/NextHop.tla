------------------------------ MODULE NextHop ------------------------------
(***************************************************************************)
(* How the daemon finds the Ethernet address its eBPF programs send to:    *)
(* ingress NIC, source address, route, next hop, XDP default action and    *)
(* MTU of every peer (TcBpfManager::new, build_gut_config and the routines *)
(* they call in tc/loader.rs and netlink.rs).  The main loop builds the    *)
(* peers one after the other between two WATCHDOG=1 messages, so the time  *)
(* spent in retries and receive timeouts is part of the state.             *)
(*                                                                         *)
(* Around the code: stations on the links that answer or ignore requests,  *)
(* lost replies, unrelated frames on the raw sockets, the kernel's         *)
(* neighbour table, routes that change between two lookups, missing        *)
(* CAP_NET_RAW, netlink or /proc.                                          *)
(***************************************************************************)
EXTENDS Integers, Sequences

CONSTANTS
  Nic,         \* network interfaces
  Tun,         \* the daemon's own veth, one of Nic
  V4, V6,      \* IPv4 and IPv6 addresses
  Mac,         \* Ethernet addresses
  None,        \* absent value
  Station,     \* Station[n][ip]: who has ip on the link of n, or None
  ArpSilent,   \* addresses whose stations ignore ARP and solicitations
  IcmpSilent,  \* gateways that send no ICMP errors
  Unforwarded, \* gateways that answer a probe addressed to themselves
  Tables,      \* routing tables the host can have
  Mtu,         \* Mtu[n]: link MTU of n
  OuterMtu,    \* outer_mtu of the configuration
  Addr4, Addr6,\* interfaces with an IPv4, a global IPv6 address
  Peers,       \* peer configurations
  NPeers,      \* number of peers the daemon serves
  Caps,        \* subsets of {"raw", "netlink", "proc"} the process may have
  MaxChatter,  \* unrelated frames that prolong a receive, per pass
  Attempts,    \* rounds of resolve_peer_mac, 6 in the code
  Sends,       \* requests of an ARP or TTL exchange, 4 in the code
  GwRounds,    \* rounds of method 3 of resolve_default_gateway_mac, 8 in the code
  WatchdogSec  \* WatchdogSec of the unit in units of 50 ms, 600 (30 s) in the code

Ip == V4 \union V6

ASSUME NPeersAssumption == NPeers \in Nat \ {0}
ASSUME ChatterAssumption == MaxChatter \in Nat
ASSUME RetryAssumption == {Attempts, Sends, GwRounds} \subseteq Nat \ {0}
ASSUME StationAssumption == Station \in [Nic -> [Ip -> Mac \union {None}]]
ASSUME AddressAssumption == V4 \intersect V6 = {} /\ None \notin Nic \union Ip \union Mac
ASSUME LinkAssumption == Tun \in Nic /\ Mtu \in [Nic -> Nat] /\ OuterMtu \in Nat
ASSUME WatchdogAssumption == WatchdogSec \in Nat
ASSUME PeersAssumption ==
  Peers \subseteq [ip : Ip \union {None}, nic : Nic \union {None},
                  bind : {"any4", "any6", "set"}, drop : BOOLEAN]

\* A line of the route files of one address family.
Route(A) == [dst : SUBSET A, plen : 0..128, gw : A \union {None},
             up : BOOLEAN, metric : Nat, dev : Nic]

\* The kernel lists the routes to one prefix by their metric.
ASSUME TablesAssumption ==
  \A t \in Tables :
    /\ t \in [v4 : Seq(Route(V4)), v6 : Seq(Route(V6))]
    /\ \A r \in {t.v4, t.v6} : \A j, k \in DOMAIN r :
         j <= k /\ r[j].plen = r[k].plen /\ r[j].dst \intersect r[k].dst # {}
           => r[j].metric <= r[k].metric

(***************************************************************************)
(* Times, in units of 50 ms.                                               *)
(***************************************************************************)
\* Variant of RecvWait: a second more than 400 ms.
RecvWaitLong == 28

RecvWait == 8      \* SO_RCVTIMEO 400 ms
NdpWait == 3       \* deadline of ndp_request_reply, 150 ms
Pause == 6         \* sleep between two rounds, 300 ms
GwPause == 5       \* sleep between two gateway rounds, 250 ms
LoopPause == 10    \* sleep of the main loop before WATCHDOG=1, 500 ms

VARIABLES
  pc,        \* where the main thread is
  conf,      \* conf[i]: configuration of peer i
  nicOf,     \* nicOf[i]: ingress NIC found when manager i was created
  pass,      \* "start": managers are created; "refresh", "reload": updated
  peer,      \* index of the peer being built
  l2,        \* l2_ip of resolve_peer_mac
  gw,        \* gateway of resolve_default_gateway_mac
  method,    \* exchange in progress: "arp", "ndp", "gwarp", "ttl"
  round,     \* rounds done in the loop in progress
  sent,      \* requests sent in the exchange in progress
  rx,        \* frame waiting in the raw socket: "empty", "other", "reply"
  mac,       \* dst_mac found, or None
  action,    \* default_xdp_action
  mtu,       \* [outer, inner4, inner6]
  table,     \* the kernel's routes
  neigh,     \* neigh[n][ip]: "none", "asked" (a probe waits), "known"
  caps,      \* what the process may use
  clock,     \* time since the last WATCHDOG=1
  chatter,   \* unrelated frames counted in this pass
  missed     \* exchanges for l2 that got no answer (history)

work == <<pass, peer, l2, gw, method, round, sent, rx, mac, action, mtu>>
host == <<table, neigh, caps>>
time == <<clock, chatter, missed>>
vars == <<pc, conf, nicOf, work, host, time>>

me == conf[peer]
nic == nicOf[peer]
dynamic == me.ip = None

(***************************************************************************)
(* Route lookups.                                                          *)
(***************************************************************************)
NoRoute == [plen |-> -1, dev |-> None, gw |-> None]
Info(r, m) == [dev |-> r.dev, via |-> r.gw, mtu |-> m]

\* One pass over the lines of a route file: takes(r, best) says whether line r
\* replaces the best one so far.
Scan(routes, takes(_, _)) ==
  LET best[k \in 0..Len(routes)] ==
        IF k = 0 THEN NoRoute
        ELSE IF takes(routes[k], best[k - 1]) THEN routes[k] ELSE best[k - 1]
  IN  best[Len(routes)]

\* Variant of LongestPrefix: a later entry with the same prefix wins.
LongestPrefixLast(routes, ip) ==
  Scan(routes, LAMBDA r, best : r.up /\ ip \in r.dst /\ r.plen >= best.plen)

\* A later entry wins only with a longer prefix.
LongestPrefix(routes, ip) ==
  Scan(routes, LAMBDA r, best : r.up /\ ip \in r.dst /\ r.plen > best.plen)

LinkMtu(dev) == IF dev = None THEN None ELSE Mtu[dev]

proc_route_lookup_v4(ip) ==
  LET r == IF "proc" \in caps THEN LongestPrefix(table.v4, ip) ELSE NoRoute
  IN  Info(r, LinkMtu(r.dev))

proc_route_lookup_v6(ip) ==
  LET r == IF "proc" \in caps THEN LongestPrefix(table.v6, ip) ELSE NoRoute
  IN  Info(r, LinkMtu(r.dev))

\* What the kernel answers to RTM_GETROUTE: longest prefix, then lowest metric.
KernelRoute(ip) ==
  LET t == IF ip \in V4 THEN table.v4 ELSE table.v6
      m == {k \in DOMAIN t : t[k].up /\ ip \in t[k].dst}
      better(j, k) == \/ t[j].plen > t[k].plen
                      \/ t[j].plen = t[k].plen /\ t[j].metric < t[k].metric
                      \/ t[j].plen = t[k].plen /\ t[j].metric = t[k].metric /\ j <= k
  IN  IF m = {} THEN NoRoute ELSE t[CHOOSE k \in m : \A j \in m : better(k, j)]

\* An error answer (no route) is None, like an unusable socket; no RTA_METRICS
\* is read, so a route found here has no MTU.
nl_get_route(ip) ==
  IF "netlink" \in caps /\ KernelRoute(ip) # NoRoute
    THEN Info(KernelRoute(ip), None) ELSE None

route_get_info(ip) ==
  IF nl_get_route(ip) # None THEN nl_get_route(ip)
  ELSE IF ip \in V4 THEN proc_route_lookup_v4(ip) ELSE proc_route_lookup_v6(ip)

\* The UDP connect() trick yields a source address when the kernel has a route.
HasSrc(ip) == KernelRoute(ip) # NoRoute

ensure_route_dev(info, n) == info.dev \in {None, n}

\* Variant of resolve_l2_peer_ip: the device of the route is not compared.
resolve_l2_peer_ip_any(ip, n) ==
  LET info == route_get_info(ip)
  IN  IF info.via # None THEN info.via ELSE ip

\* unwrap_or(peer_ip): a route through another NIC falls back to the peer itself.
resolve_l2_peer_ip(ip, n) ==
  LET info == route_get_info(ip)
  IN  IF ensure_route_dev(info, n) /\ info.via # None THEN info.via ELSE ip

resolve_route_src_ip(ip, n) == ensure_route_dev(route_get_info(ip), n) /\ HasSrc(ip)

resolve_route_pmtu(ip, n) ==
  LET info == route_get_info(ip)
  IN  IF ensure_route_dev(info, n) THEN info.mtu ELSE None

Gatewayed(r) == r.plen = 0 /\ r.up /\ r.gw # None

\* The default route with the lowest metric; the first of several wins.
default_route_ifname ==
  IF "proc" \in caps
    THEN Scan(table.v4, LAMBDA r, best :
                Gatewayed(r) /\ (best = NoRoute \/ r.metric < best.metric)).dev
    ELSE None

\* The first of some lines of a file.
First(lines) == CHOOSE k \in lines : \A j \in lines : k <= j

\* Gateway of the default route of n, else of the first default route of any NIC.
DefaultGateway(n) ==
  LET d == {k \in DOMAIN table.v4 : Gatewayed(table.v4[k])}
      own == {k \in d : table.v4[k].dev = n}
  IN  IF "proc" \notin caps \/ d = {} THEN None
      ELSE IF own # {} THEN table.v4[First(own)].gw ELSE table.v4[First(d)].gw

(***************************************************************************)
(* The kernel's neighbour table.                                           *)
(***************************************************************************)
\* An entry of the dump is taken when its address and state fit and the wanted
\* ifindex is 0 (None here) or the entry's.
parse_neigh_nlmsg_v4(n, ip, ifindex) ==
  neigh[n][ip] = "known" /\ ifindex \in {None, n}

parse_neigh_nlmsg(n, ip, ifindex) ==
  neigh[n][ip] = "known" /\ ifindex = n

nl_get_neigh_v4(ip, ifindex) ==
  IF "netlink" \in caps
    THEN {Station[n][ip] : n \in {k \in Nic : parse_neigh_nlmsg_v4(k, ip, ifindex)}}
    ELSE {}

nl_get_neigh_v6(ip, ifindex) ==
  IF "netlink" \in caps
    THEN {Station[n][ip] : n \in {k \in Nic : parse_neigh_nlmsg(k, ip, ifindex)}}
    ELSE {}

\* /proc/net/arp, matched by interface name.
ProcArp(ip, n) ==
  IF "proc" \in caps /\ neigh[n][ip] = "known" THEN {Station[n][ip]} ELSE {}

\* The MACs a lookup may return; empty when it finds none.  The dump that
\* follows an empty answer asks for ifindex 0.
lookup_arp_cache(ip, n) ==
  IF nl_get_neigh_v4(ip, n) # {} THEN nl_get_neigh_v4(ip, n)
  ELSE IF nl_get_neigh_v4(ip, None) # {} THEN nl_get_neigh_v4(ip, None)
  ELSE ProcArp(ip, n)

lookup_ndp_cache(ip, n) == nl_get_neigh_v6(ip, n)

lookup_cache(ip, n) ==
  IF ip \in V4 THEN lookup_arp_cache(ip, n) ELSE lookup_ndp_cache(ip, n)

(***************************************************************************)
(* The main loop and the steps before the next hop.                        *)
(***************************************************************************)
NoMtu == [outer |-> 0, inner4 |-> 0, inner6 |-> 0]

Init ==
  /\ pc = "ping"
  /\ conf \in [1..NPeers -> Peers]
  /\ nicOf = [i \in 1..NPeers |-> None]
  /\ pass = "start" /\ peer = 1
  /\ l2 = None /\ gw = None /\ method = "arp" /\ round = 0 /\ sent = 0 /\ rx = "empty"
  /\ mac = None /\ action = "pass" /\ mtu = NoMtu
  /\ table \in Tables
  /\ \E K \in SUBSET {k \in Nic \X Ip : Station[k[1]][k[2]] # None} :
       neigh = [n \in Nic |-> [ip \in Ip |-> IF <<n, ip>> \in K THEN "known" ELSE "none"]]
  /\ caps \in Caps
  /\ clock = 0 /\ chatter = 0 /\ missed = 0

BuildFrom(i, p) ==
  /\ peer' = i /\ pass' = p
  /\ pc' = IF p = "start" THEN "nic" ELSE "bind"
  /\ l2' = None /\ gw' = None /\ mac' = None /\ missed' = 0
  /\ method' = "arp" /\ round' = 0 /\ sent' = 0 /\ rx' = "empty"
  /\ action' = "pass" /\ mtu' = NoMtu

NoManagers == [i \in 1..NPeers |-> None]

\* A pass over the peers begins: the service starts (again), or the loop has
\* sent WATCHDOG=1 and updates the managers it has, for the periodic refresh or
\* for a SIGHUP.
Ping ==
  /\ pc = "ping"
  /\ \/ BuildFrom(1, "start") /\ nicOf' = NoManagers
     \/ /\ \A i \in 1..NPeers : nicOf[i] # None
        /\ \E p \in {"refresh", "reload"} : BuildFrom(1, p)
        /\ UNCHANGED nicOf
  /\ clock' = 0 /\ chatter' = 0
  /\ UNCHANGED <<conf, host>>

\* The next peer: a failed creation ends the start, a failed update does not end
\* the pass.  A SIGHUP is served in the same iteration as the refresh before it.
NextPeer ==
  /\ pc \in {"built", "failed"}
  /\ IF pass = "start" /\ pc = "failed"
       THEN nicOf' = NoManagers /\ pc' = "ping" /\ UNCHANGED <<work, missed>>
       ELSE /\ UNCHANGED nicOf
            /\ \/ peer < NPeers /\ BuildFrom(peer + 1, pass)
               \/ peer = NPeers /\ pc' = "ping" /\ UNCHANGED <<work, missed>>
               \/ peer = NPeers /\ pass = "refresh" /\ BuildFrom(1, "reload")
  /\ UNCHANGED <<conf, host, clock, chatter>>

\* The configured NIC, the default route's for a dynamic peer, else the route's,
\* the default route's, the veth itself.
DetectNic ==
  /\ pc = "nic"
  /\ LET dev == route_get_info(me.ip).dev
         found == IF me.nic # None THEN me.nic
                  ELSE IF dynamic THEN default_route_ifname
                  ELSE IF dev # None THEN dev
                  ELSE IF default_route_ifname # None THEN default_route_ifname
                  ELSE Tun
     IN  /\ nicOf' = IF found = None THEN nicOf ELSE [nicOf EXCEPT ![peer] = found]
         /\ pc' = IF found = None THEN "failed" ELSE "bind"
  /\ UNCHANGED <<conf, work, host, time>>

get_interface_ipv4(n) == n \in Addr4
get_interface_ipv6(n) == n \in Addr6

\* A wildcard bind_ip becomes the NIC's address (dynamic) or the route's source.
Bind ==
  /\ pc = "bind"
  /\ LET ok == \/ me.bind = "set"
               \/ dynamic /\ me.bind = "any4" /\ get_interface_ipv4(nic)
               \/ dynamic /\ me.bind = "any6" /\ get_interface_ipv6(nic)
               \/ /\ ~dynamic
                  /\ resolve_route_src_ip(me.ip, nic)
                  /\ me.bind = IF me.ip \in V4 THEN "any4" ELSE "any6"
     IN  pc' = IF ok THEN "iface" ELSE "failed"
  /\ UNCHANGED <<conf, nicOf, work, host, time>>

\* Interface indexes and MAC are read; the interface may be gone.
Iface ==
  /\ pc = "iface"
  /\ pc' \in {"failed", IF dynamic THEN "gateway" ELSE "l2"}
  /\ UNCHANGED <<conf, nicOf, work, host, time>>

(***************************************************************************)
(* resolve_peer_mac.                                                       *)
(***************************************************************************)
ResolveL2 ==
  /\ pc = "l2"
  /\ l2' = resolve_l2_peer_ip(me.ip, nic)
  /\ method' = IF l2' \in V4 THEN "arp" ELSE "ndp"
  /\ round' = 0 /\ sent' = 0
  /\ pc' = "request"
  /\ UNCHANGED <<conf, nicOf, pass, peer, gw, rx, mac, action, mtu, host, time>>

\* Where control goes when an exchange has found nothing.
GiveUp ==
  \/ method \in {"arp", "ndp"} /\ pc' = "lookup" /\ UNCHANGED <<method, round, sent>>
  \/ method = "gwarp" /\ method' = "ttl" /\ sent' = 0 /\ pc' = "request" /\ UNCHANGED round
  \/ method = "ttl" /\ round' = 0 /\ pc' = "gwlookup" /\ UNCHANGED <<method, sent>>

\* One request frame; without CAP_NET_RAW the exchange ends here.
SendFrame ==
  IF "raw" \in caps
    THEN /\ sent' = sent + 1 /\ rx' = "empty" /\ pc' = "listen"
         /\ UNCHANGED <<method, round>>
    ELSE GiveUp /\ UNCHANGED rx

\* The three exchanges open a packet socket on the NIC and send their frame: an
\* ARP request, a datagram with TTL 1, a neighbour solicitation.
arp_request_reply == method \in {"arp", "gwarp"} /\ SendFrame

resolve_mac_via_ttl_probe == method = "ttl" /\ SendFrame

ndp_request_reply == method = "ndp" /\ SendFrame

Request ==
  /\ pc = "request"
  /\ arp_request_reply \/ resolve_mac_via_ttl_probe \/ ndp_request_reply
  /\ UNCHANGED <<conf, nicOf, pass, peer, l2, gw, mac, action, mtu, host, time>>

Asked == IF method \in {"arp", "ndp"} THEN l2 ELSE gw

\* peer_hint is l2_ip; without one, some other address of the gateway's /24.
probe_dst == IF ~dynamic /\ l2 \in V4 THEN l2 ELSE None

Responds(ip) == Station[nic][ip] # None /\ ip \notin ArpSilent

\* Whether the awaited answer can come: an ARP reply or a neighbour
\* advertisement with its link-layer option, an ICMP error from the gateway.
Answerable ==
  IF method = "ttl"
    THEN /\ Station[nic][gw] # None /\ gw \notin IcmpSilent
         /\ probe_dst # gw \/ gw \in Unforwarded
    ELSE Responds(Asked)

Answer ==
  /\ pc = "listen" /\ rx = "empty" /\ Answerable
  /\ rx' = "reply"
  /\ UNCHANGED <<pc, conf, nicOf, pass, peer, l2, gw, method, round, sent, mac, action, mtu,
                 host, time>>

\* A frame that is no answer.  SO_RCVTIMEO starts anew with the next recv, so
\* each one can cost a whole wait; the deadline of ndp_request_reply stays.
Traffic ==
  /\ pc = "listen" /\ rx = "empty"
  /\ rx' = "other"
  /\ \/ /\ chatter < MaxChatter /\ method # "ndp"
        /\ chatter' = chatter + 1 /\ clock' = clock + RecvWait
     \/ UNCHANGED <<clock, chatter>>
  /\ UNCHANGED <<pc, conf, nicOf, pass, peer, l2, gw, method, round, sent, mac, action, mtu,
                 host, missed>>

\* Variant of Receive: a frame that is no answer stays in the socket.
ReceivePeek ==
  /\ pc = "listen" /\ rx = "reply"
  /\ rx' = "empty"
  /\ mac' = Station[nic][Asked] /\ pc' = "policy"
  /\ UNCHANGED <<conf, nicOf, pass, peer, l2, gw, method, round, sent, action, mtu, host, time>>

Receive ==
  /\ pc = "listen" /\ rx # "empty"
  /\ rx' = "empty"
  /\ IF rx = "reply"
       THEN mac' = Station[nic][Asked] /\ pc' = "policy"
       ELSE UNCHANGED <<mac, pc>>
  /\ UNCHANGED <<conf, nicOf, pass, peer, l2, gw, method, round, sent, action, mtu, host, time>>

\* Variant of Timeout: the exchange ends after its first request.
TimeoutOnce ==
  /\ pc = "listen" /\ rx = "empty"
  /\ clock' = clock + IF method = "ndp" THEN NdpWait ELSE RecvWait
  /\ missed' = IF method \in {"arp", "ndp"} THEN missed + 1 ELSE missed
  /\ GiveUp
  /\ UNCHANGED <<conf, nicOf, pass, peer, l2, gw, rx, mac, action, mtu, host, chatter>>

\* recv times out: the next request, or the end of the exchange.
Timeout ==
  /\ pc = "listen" /\ rx = "empty"
  /\ clock' = clock + IF method = "ndp" THEN NdpWait ELSE RecvWait
  /\ missed' = IF method \in {"arp", "ndp"} THEN missed + 1 ELSE missed
  /\ IF method # "ndp" /\ sent < Sends
       THEN pc' = "request" /\ UNCHANGED <<method, round, sent>>
       ELSE GiveUp
  /\ UNCHANGED <<conf, nicOf, pass, peer, l2, gw, rx, mac, action, mtu, host, chatter>>

\* The kernel asks for the neighbour; an entry nobody answers comes to nothing.
Probe(ip) ==
  neigh' = [neigh EXCEPT ![nic][ip] = IF @ = "none" /\ Responds(ip) THEN "asked" ELSE @]

\* The cache, else a probe in every second round, a sleep and the next round;
\* the default gateway after the last one.
Lookup ==
  /\ pc = "lookup"
  /\ IF lookup_cache(l2, nic) # {}
       THEN /\ mac' \in lookup_cache(l2, nic) /\ pc' = "policy"
            /\ UNCHANGED <<round, sent, neigh, clock>>
       ELSE /\ IF round % 2 = 0 THEN Probe(l2) ELSE UNCHANGED neigh
            /\ clock' = clock + Pause
            /\ round' = round + 1 /\ sent' = 0
            /\ pc' = IF round + 1 < Attempts THEN "request" ELSE "gateway"
            /\ UNCHANGED mac
  /\ UNCHANGED <<conf, nicOf, pass, peer, l2, gw, method, rx, action, mtu, table, caps, chatter,
                 missed>>

(***************************************************************************)
(* resolve_default_gateway_mac.                                            *)
(***************************************************************************)
Gateway ==
  /\ pc = "gateway"
  /\ IF DefaultGateway(nic) = None
       THEN pc' = "failed" /\ UNCHANGED <<gw, method, sent>>
       ELSE /\ gw' = DefaultGateway(nic) /\ method' = "gwarp" /\ sent' = 0
            /\ pc' = "request"
  /\ UNCHANGED <<conf, nicOf, pass, peer, l2, round, rx, mac, action, mtu, host, time>>

GwLookup ==
  /\ pc = "gwlookup"
  /\ IF round = GwRounds
       THEN pc' = "failed" /\ UNCHANGED <<mac, round, neigh, clock>>
     ELSE IF lookup_arp_cache(gw, nic) # {}
       THEN /\ mac' \in lookup_arp_cache(gw, nic) /\ pc' = "policy"
            /\ UNCHANGED <<round, neigh, clock>>
       ELSE /\ Probe(gw) /\ clock' = clock + GwPause /\ round' = round + 1
            /\ UNCHANGED <<mac, pc>>
  /\ UNCHANGED <<conf, nicOf, pass, peer, l2, gw, method, sent, rx, action, mtu, table, caps,
                 chatter, missed>>

(***************************************************************************)
(* The rest of build_gut_config.                                           *)
(***************************************************************************)
\* DROP on the NIC of the default route becomes PASS.
Policy ==
  /\ pc = "policy"
  /\ action' = IF me.drop /\ default_route_ifname # nic THEN "drop" ELSE "pass"
  /\ pc' = "mtu"
  /\ UNCHANGED <<conf, nicOf, pass, peer, l2, gw, method, round, sent, rx, mac, mtu, host, time>>

OuterOverheadV4 == 62
OuterOverheadV6 == 82
DefaultInnerMtu == 1492
Inner(base, overhead) == IF base <= overhead THEN DefaultInnerMtu ELSE base - overhead

\* Variant of pmtu_base: the route's MTU without the check of its device.
pmtu_base_any(ingress_mtu) ==
  LET pm == IF dynamic THEN None ELSE route_get_info(me.ip).mtu
  IN  IF pm # None THEN pm ELSE IF ingress_mtu # None THEN ingress_mtu ELSE OuterMtu

\* The route's MTU if it has one, else the NIC's, else the configured one.
pmtu_base(ingress_mtu) ==
  LET pm == IF dynamic THEN None ELSE resolve_route_pmtu(me.ip, nic)
  IN  IF pm # None THEN pm ELSE IF ingress_mtu # None THEN ingress_mtu ELSE OuterMtu

\* Reading the NIC's MTU may fail: the NIC is gone, or has one above 65535.
Mtus ==
  /\ pc = "mtu"
  /\ \E ingress_mtu \in {Mtu[nic], None} :
       LET base == pmtu_base(ingress_mtu)
       IN  mtu' = [outer |-> base, inner4 |-> Inner(base, OuterOverheadV4),
                   inner6 |-> Inner(base, OuterOverheadV6)]
  /\ pc' = "built"
  /\ UNCHANGED <<conf, nicOf, pass, peer, l2, gw, method, round, sent, rx, mac, action, host,
                 time>>

(***************************************************************************)
(* The host.                                                               *)
(***************************************************************************)
\* The kernel's own resolution of a probed neighbour succeeds.
KernelLearns(n, ip) ==
  /\ neigh[n][ip] = "asked"
  /\ neigh' = [neigh EXCEPT ![n][ip] = "known"]
  /\ UNCHANGED <<pc, conf, nicOf, work, table, caps, time>>

RouteChange ==
  /\ table' \in Tables \ {table}
  /\ UNCHANGED <<pc, conf, nicOf, work, neigh, caps, time>>

Thread ==
  \/ Ping \/ NextPeer \/ DetectNic \/ Bind \/ Iface \/ ResolveL2 \/ Request \/ Receive
  \/ Lookup \/ Gateway \/ GwLookup \/ Policy \/ Mtus

Next ==
  \/ Thread \/ Timeout \/ Answer \/ Traffic \/ RouteChange
  \/ \E n \in Nic, ip \in Ip : KernelLearns(n, ip)

Spec == Init /\ [][Next]_vars

\* The thread is scheduled, and recv returns with its timeout if no frame comes.
\* The deadline of ndp_request_reply ends that receive whatever comes; the other
\* two have none.
FairSpec ==
  /\ Spec
  /\ WF_vars(Thread) /\ WF_vars(Timeout)
  /\ SF_vars(Timeout /\ method = "ndp")

(***************************************************************************)
(* Properties.                                                             *)
(***************************************************************************)
\* The values the variables of the thread, the host and the clock take.
TypeOK ==
  /\ pc \in {"ping", "nic", "bind", "iface", "l2", "request", "listen", "lookup", "gateway",
             "gwlookup", "policy", "mtu", "built", "failed"}
  /\ conf \in [1..NPeers -> Peers]
  /\ nicOf \in [1..NPeers -> Nic \union {None}]
  /\ pass \in {"start", "refresh", "reload"}
  /\ peer \in 1..NPeers
  /\ l2 \in Ip \union {None}
  /\ gw \in V4 \union {None}
  /\ method \in {"arp", "ndp", "gwarp", "ttl"}
  /\ round \in Nat
  /\ sent \in Nat
  /\ rx \in {"empty", "other", "reply"}
  /\ mac \in Mac \union {None}
  /\ action \in {"pass", "drop"}
  /\ mtu \in [outer : Nat, inner4 : Nat, inner6 : Nat]
  /\ table \in Tables
  /\ neigh \in [Nic -> [Ip -> {"none", "asked", "known"}]]
  /\ caps \in Caps
  /\ clock \in Nat
  /\ chatter \in 0..MaxChatter
  /\ missed \in Nat

\* lookup_arp_cache's second dump is not filtered by NIC and resolve_default_
\* gateway_mac falls back to the gateway of another NIC, so dst_mac is only right
\* on a network where a gateway is a neighbour on no link but its route's ...
GatewaysOnOneLink ==
  \A t \in Tables : \A r \in {t.v4[k] : k \in DOMAIN t.v4} : \A n \in Nic \ {r.dev} :
    r.gw # None => Station[n][r.gw] = None

\* ... and as long as the peer is no neighbour on another link and the NIC has a
\* default route, if there is one at all.
UplinkKept ==
  /\ pc = "l2" /\ me.ip \in V4 => \A n \in Nic \ {nic} : Station[n][me.ip] = None
  /\ pc = "gateway" =>
       LET d == {k \in DOMAIN table.v4 : Gatewayed(table.v4[k])}
       IN  d = {} \/ \E k \in d : table.v4[k].dev = nic

\* dst_mac is the address of the next hop or of the gateway on the ingress NIC
\* itself: resolve_peer_mac and resolve_default_gateway_mac never hand the eBPF
\* programs the MAC a neighbour has on another link, whatever the routes do while
\* they run, on a network as described above.
NextHopOnNic ==
  pc # "ping" /\ mac # None => mac \in {Station[nic][ip] : ip \in {l2, gw} \ {None}}

\* The default gateway replaces a next hop that does answer only after every
\* round of resolve_peer_mac went unanswered: 24 lost ARP or 6 lost neighbour
\* exchanges, however the replies, lookups and probes interleave.
NoEarlyFallback ==
  pc # "ping" /\ gw # None /\ ~dynamic /\ "raw" \in caps /\ Responds(l2)
    => missed >= Attempts * (IF l2 \in V4 THEN Sends ELSE 1)

\* Without netlink the scan of the /proc route files gives every address the
\* device and gateway the kernel would use (route_get_info's fallback).
FallbackAgrees ==
  "proc" \in caps => \A ip \in Ip :
    LET k == KernelRoute(ip)
        p == IF ip \in V4 THEN proc_route_lookup_v4(ip) ELSE proc_route_lookup_v6(ip)
    IN  p.dev = k.dev /\ p.via = k.gw

builds == peer + (IF pass = "reload" THEN NPeers ELSE 0)

\* systemd's watchdog is missed only by a pass that builds two configurations or
\* more, or in which unrelated frames prolong a receive: with one build on a
\* silent link all retries, timeouts and sleeps together stay below WatchdogSec.
\* (Two on a silent link take longer than 30 s.)
MeetsWatchdog == clock + LoopPause >= WatchdogSec => builds >= 2 \/ chatter > 0

\* The MTU a build ends with is that of the NIC the packets leave by, or the
\* configured outer_mtu where that cannot be read: never another link's, also
\* when the route moves to another NIC between two lookups.
OuterMtuOfNic == pc = "built" => mtu.outer \in {Mtu[nic], OuterMtu}

\* Every pass over the peers ends and the loop sends WATCHDOG=1 again, unless the
\* thread stays for ever in a receive loop that has no deadline, because frames
\* that are no answer keep arriving within the timeout.
PassEnds ==
  \/ []<>(pc = "ping")
  \/ <>[](pc = "listen" /\ method # "ndp") /\ []<><<Traffic>>_vars
=============================================================================
