------------------------------- MODULE Tunnel -------------------------------
(***************************************************************************)
(* A static tunnel in userspace mode: a client and a responder with        *)
(* "peer_ip" set, both running run() of src/userspace.rs, joined by a UDP  *)
(* network that loses, delays, reorders and duplicates, behind a NAT that  *)
(* moves the client.  Packets are those of module Codec.                   *)
(*                                                                         *)
(* On the server the ingress threads (one a socket) and the egress thread  *)
(* share client_obfs and shared_peer_ext; their handlers are split where   *)
(* another thread can get in between.  The client's handlers touch one     *)
(* shared cell each and are single steps; torn accesses to the cells are   *)
(* the subject of SharedAddr, the maps of a dynamic server of              *)
(* DynamicServer.                                                          *)
(***************************************************************************)
EXTENDS Codec, FiniteSets, Sequences

CONSTANTS
  SrvPorts,      \* the server's ports, the client's peer_ports
  CliPorts,      \* the client's ports, the server's peer_ports
  Hosts,         \* addresses the client has on the Internet, in turn
  NatPorts,      \* source ports its NAT gives it, in turn
  NatKeepsPorts, \* does the NAT keep the source ports of a SIP client?
  WgAddrs,       \* addresses of the client's WireGuard
  CliPkts,       \* datagrams of the client's WireGuard
  SrvPkts,       \* datagrams of the server's WireGuard
  Looks,         \* what the first bytes of a "gut" packet may look like
  ClientModes, ServerModes,  \* values of obfs on the two sides
  MaxNet,        \* datagrams the network holds at once
  MaxMoves,      \* moves of the client and unrelated datagrams
  MaxDups        \* datagrams delivered twice

\* Both sides are configured with at least one port.  The server and a stranger
\* have hosts of their own, and "none" is no host.
ASSUME PortsAssumption == 1 \in DOMAIN SrvPorts
ASSUME HostsAssumption == "home" \in Hosts /\ Hosts \cap {"srv", "stray", "none"} = {}
ASSUME ModesAssumption == ClientModes \cup ServerModes \subseteq Modes

\* The smallest message of WireGuard, the keepalive, has 32 bytes.
ASSUME PktsAssumption ==
  \A w \in CliPkts \cup SrvPkts :
    /\ w.type \in 1..4 /\ w.len \in Nat /\ w.len >= 32
    /\ w = Datagram(w.type, w.len, w.id)

VARIABLES
  cm, sm,        \* obfs of the client and of the server
  host, nat, wg, \* where the client and its WireGuard are
  used,          \* addresses the client's sockets have had when it sent
  net,           \* datagrams in flight
  cliExt, cliWg, \* client: shared_peer_ext, shared_wg_peer
  srvExt,        \* server: shared_peer_ext
  srvObfs,       \* server: client_obfs
  job,           \* server: what each ingress thread has in hand
  eg,            \* server: what the egress thread has in hand
  intact,        \* has every datagram handed to a WireGuard been sent by the other?
  moves, dups

vars == <<cm, sm, host, nat, wg, used, net, cliExt, cliWg, srvExt, srvObfs,
          job, eg, intact, moves, dups>>

client == <<host, nat, wg, used>>
server == <<srvExt, srvObfs, job, eg>>
config == <<cm, sm>>

Key == "key"

Addr(h, p) == [host |-> h, port |-> p]
NoAddr == Addr("none", 0)

Sockets == DOMAIN SrvPorts

SrvAddr(k) == Addr("srv", SrvPorts[k])

\* The source address the Internet sees of the client's socket k.  Only a SIP
\* client binds its configured ports.
CliAddr(k) ==
  Addr(host, IF cm = "sip" /\ NatKeepsPorts THEN CliPorts[k] ELSE nat + (k - 1))

CliAddrs == {CliAddr(k) : k \in Sockets}

\* peer_ip and the first of peer_ports, on the server and on the client.
CliConfigured == Addr("home", CliPorts[1])
SrvConfigured == SrvAddr(1)

Msg(src, dst, d, learned) == [src |-> src, dst |-> dst, d |-> d, learned |-> learned]

NoJob == [src |-> NoAddr, w |-> NoDatagram]
NoEgress == [dest |-> NoAddr, w |-> NoDatagram, learned |-> FALSE]

Init ==
  /\ cm \in ClientModes /\ sm \in ServerModes
  /\ host = "home" /\ nat = Min(NatPorts) /\ wg = Min(WgAddrs)
  /\ used = {} /\ net = {}
  /\ cliExt = NoAddr /\ cliWg = 0
  /\ srvExt = NoAddr /\ srvObfs = [a \in {} |-> "gut"]
  /\ job = [k \in Sockets |-> NoJob] /\ eg = NoEgress
  /\ intact = TRUE
  /\ moves = 0 /\ dups = 0

-----------------------------------------------------------------------------
(* The network                                                             *)

\* A full network loses what is sent.
Send(S, old) == net' = old \cup (IF Cardinality(old) < MaxNet THEN S ELSE {})

\* A datagram is taken off the network, or delivered and kept for once more:
\* what is left then.
Rest(m, kept) == IF kept THEN net ELSE net \ {m}

Take(m, kept) ==
  /\ kept => dups < MaxDups
  /\ dups' = dups + (IF kept THEN 1 ELSE 0)

Lose ==
  /\ \E m \in net : net' = net \ {m}
  /\ UNCHANGED <<config, client, server, cliExt, cliWg, intact, moves, dups>>

\* The client changes network, its NAT forgets the mapping, or WireGuard
\* restarts with another port.
Move ==
  /\ moves < MaxMoves /\ moves' = moves + 1
  /\ \/ \E h \in Hosts \ {host} : host' = h /\ UNCHANGED <<nat, wg>>
     \/ \E p \in NatPorts \ {nat} : nat' = p /\ UNCHANGED <<host, wg>>
     \/ \E a \in WgAddrs \ {wg} : wg' = a /\ UNCHANGED <<host, nat>>
  /\ UNCHANGED <<config, used, net, cliExt, cliWg, server, intact, dups>>

\* Bytes that are no packet of any tunnel.
Foreign(len, look) == [NoWire EXCEPT !.len = len, !.head.hdr = 0, !.head.look = look]

\* A QUIC packet of another version, and a packet of a tunnel with another key.
OtherVersion == Foreign(1200, "long")
OtherTunnel == obfs_encap(Datagram(4, 80, "x"), "other key", "gut", FALSE, 1, 0, "plain")

\* Datagrams of other programs that reach the server's port: these and a SIP
\* request without and with a payload.
Unrelated ==
  {Sip("OPTIONS", NoWire), Sip("INVITE", [NoWire EXCEPT !.len = 60]),
   Plain(OtherVersion), Plain(OtherTunnel)}

Stray ==
  /\ moves < MaxMoves /\ moves' = moves + 1
  /\ \E d \in Unrelated : Send({Msg(Addr("stray", 9), SrvAddr(1), d, FALSE)}, net)
  /\ UNCHANGED <<config, client, server, cliExt, cliWg, intact, dups>>

-----------------------------------------------------------------------------
(* Egress                                                                  *)

\* SIP sends data from any media socket to the port of the same rank, and
\* signalling from the first; the other modes use the first socket and leave
\* the destination's port alone.
SockIdx(obfs, w) ==
  IF obfs = "sip" /\ IsRtp(w) /\ Len(SrvPorts) > 1 THEN Sockets \ {1} ELSE {1}

\* Variant that sets the port in every mode.
FinalDestAlways(obfs, dest, k, ports) == [dest EXCEPT !.port = ports[k]]

FinalDest(obfs, dest, k, ports) ==
  IF obfs = "sip" THEN [dest EXCEPT !.port = ports[k]] ELSE dest

\* What either side makes of a datagram of its WireGuard.
Packed(w, obfs, is_server, draw, look) ==
  obfs_encap(w, Key, obfs, is_server, 51820, draw, look)

\* The client: note where WireGuard sends from, then send to the server's last
\* known address, or the configured one.
ClientEgress(w, draw, look) ==
  LET wire == Packed(w, cm, FALSE, draw, look)
      dest == IF cliExt # NoAddr THEN cliExt ELSE SrvConfigured
  IN /\ wire # NoWire
     /\ cliWg' = wg
     /\ \E k \in SockIdx(cm, w) :
          Send({Msg(CliAddr(k), FinalDest(cm, dest, k, SrvPorts),
                    Wrap(cm, w, wire, Domain), FALSE)}, net)
     /\ used' = used \cup CliAddrs
     /\ UNCHANGED <<config, host, nat, wg, server, cliExt, intact, moves, dups>>

\* 25 seconds without traffic: 17 bytes to the configured address.
ClientIdle ==
  /\ Send({Msg(CliAddr(1), SrvConfigured, Plain([NoWire EXCEPT !.len = 17]), FALSE)}, net)
  /\ used' = used \cup CliAddrs
  /\ UNCHANGED <<config, host, nat, wg, server, cliExt, cliWg, intact, moves, dups>>

\* The server's egress thread takes a datagram and the endpoint learned last.
ServerLoad(w) ==
  /\ eg = NoEgress
  /\ eg' = [w |-> w, learned |-> srvExt # NoAddr,
            dest |-> IF srvExt # NoAddr THEN srvExt ELSE CliConfigured]
  /\ UNCHANGED <<config, client, net, cliExt, cliWg, intact, srvExt, srvObfs, job, moves,
                 dups>>

\* It then looks up the mode of that endpoint, encapsulates and sends.
ServerSend(draw, look) ==
  LET obfs == IF eg.dest \in DOMAIN srvObfs THEN srvObfs[eg.dest] ELSE sm
      wire == Packed(eg.w, obfs, TRUE, draw, look)
  IN /\ eg # NoEgress
     /\ \E k \in SockIdx(obfs, eg.w) :
          Send({Msg(SrvAddr(k), FinalDest(obfs, eg.dest, k, CliPorts),
                    Wrap(obfs, eg.w, wire, Domain), eg.learned)}, net)
     /\ eg' = NoEgress
     /\ UNCHANGED <<config, client, cliExt, cliWg, intact, srvExt, srvObfs, job,
                    moves, dups>>

-----------------------------------------------------------------------------
(* Ingress                                                                 *)

\* What stands before the packet is looked for in this order, in every mode.
Unwrap(d) ==
  IF syslog_check(d)
    THEN [prepend |-> "syslog", probe |-> FALSE, rtp |-> FALSE, wire |-> d.wire]
  ELSE IF sip_check(d)
    THEN [prepend |-> "sip", probe |-> d.wire = NoWire, rtp |-> FALSE, wire |-> d.wire]
  ELSE IF check_rtp_header(d)
    THEN [prepend |-> "sip", probe |-> FALSE, rtp |-> TRUE, wire |-> Beheaded(d)]
  ELSE [prepend |-> "none", probe |-> FALSE, rtp |-> FALSE,
        wire |-> IF d.wrap = "none" THEN d.wire ELSE NoWire]

QuicLook(wire) == wire.head.look \in {"short", "long"}

\* The server tries "quic" and then "gut"; the wrapping names the text modes.
ServerDetect(u) ==
  IF QuicLook(u.wire) /\ obfs_verify(u.wire, Key, "quic") THEN "quic"
  ELSE IF obfs_verify(u.wire, Key, "gut")
    THEN IF u.prepend = "none" THEN "gut" ELSE u.prepend
  ELSE "no"

ClientDetect(u) ==
  IF cm # "quic"
    THEN IF u.wire.len >= ShortHdr + 16 /\ obfs_verify(u.wire, Key, "gut")
           THEN cm ELSE "no"
  ELSE IF QuicLook(u.wire) /\ obfs_verify(u.wire, Key, "quic") THEN "quic"
  ELSE "no"

\* The server answers what is not a packet of its tunnel as the protocol it
\* poses as would: a SIP status, or QUIC version negotiation.
SipStatus(kind) ==
  CASE kind = "OPTIONS" -> "200" [] kind = "REGISTER" -> "401" [] OTHER -> "403"

ForeignQuic(d) ==
  [size |-> d.size, long |-> d.wrap = "none" /\ d.wire.head.look = "long",
   version |-> "other", dcid |-> 8, scid |-> 8]

Answer(d, u) ==
  IF u.probe \/ (u.prepend = "sip" /\ ~u.rtp)
    THEN {Sip(SipStatus(d.kind), NoWire)}
  ELSE IF sm = "quic" /\ generate_quic_version_negotiation(ForeignQuic(d)) # 0
    THEN {Plain(Foreign(generate_quic_version_negotiation(ForeignQuic(d)), "plain"))}
  ELSE {}

\* A datagram arrives at socket k: it is unwrapped, verified, and either refused
\* (and perhaps answered), or its mode is put down for its source.
ServerIngress(k) ==
  /\ job[k] = NoJob
  /\ \E m \in net, kept \in BOOLEAN :
       LET u    == Unwrap(m.d)
           mode == IF u.probe THEN "no" ELSE ServerDetect(u)
       IN /\ m.dst = SrvAddr(k) /\ Take(m, kept)
          /\ IF mode = "no"
               THEN /\ Send({Msg(SrvAddr(k), m.src, a, FALSE) : a \in Answer(m.d, u)},
                            Rest(m, kept))
                    /\ UNCHANGED <<srvObfs, job>>
               ELSE /\ net' = Rest(m, kept)
                    /\ srvObfs' = [a \in DOMAIN srvObfs \cup {m.src} |->
                                     IF a = m.src THEN mode ELSE srvObfs[a]]
                    /\ job' = [job EXCEPT ![k] =
                                 [src |-> m.src, w |-> obfs_decap(u.wire, Key, mode).w]]
  /\ UNCHANGED <<config, client, cliExt, cliWg, intact, srvExt, eg, moves>>

\* Variant of the learning step that keeps the first endpoint.
ServerLearnOnce(k) ==
  /\ job[k] # NoJob
  /\ srvExt' = IF srvExt = NoAddr THEN job[k].src ELSE srvExt
  /\ intact' = (intact /\ job[k].w \in CliPkts)
  /\ job' = [job EXCEPT ![k] = NoJob]
  /\ UNCHANGED <<config, client, net, cliExt, cliWg, srvObfs, eg, moves, dups>>

\* The source becomes the endpoint and the datagram goes to WireGuard.
ServerLearn(k) ==
  /\ job[k] # NoJob
  /\ srvExt' = job[k].src
  /\ intact' = (intact /\ job[k].w \in CliPkts)
  /\ job' = [job EXCEPT ![k] = NoJob]
  /\ UNCHANGED <<config, client, net, cliExt, cliWg, srvObfs, eg, moves, dups>>

\* The client's ingress thread k.  Nothing is delivered before WireGuard has
\* been heard of.
ClientIngress(k) ==
  /\ \E m \in net, kept \in BOOLEAN :
       LET u    == Unwrap(m.d)
           mode == IF u.probe THEN "no" ELSE ClientDetect(u)
       IN /\ m.dst = CliAddr(k) /\ Take(m, kept) /\ net' = Rest(m, kept)
          /\ IF mode = "no" THEN UNCHANGED <<cliExt, intact>>
             ELSE /\ cliExt' = m.src
                  /\ intact' = (intact /\ (cliWg # 0 =>
                                  obfs_decap(u.wire, Key, mode).w \in SrvPkts))
  /\ UNCHANGED <<config, client, cliWg, server, moves>>

-----------------------------------------------------------------------------

\* Only an unwrapped "gut" header shows its first bytes.
LooksOf(obfs) == IF obfs = "gut" THEN Looks ELSE {"plain"}

\* check_rtp_header is right about the datagram.
Marked(d) == check_rtp_header(d) => d.wrap = "rtp"

Egress ==
  \E w \in CliPkts, draw \in Draws, look \in LooksOf(cm) : ClientEgress(w, draw, look)

Reply == \E draw \in Draws, look \in Looks : ServerSend(draw, look)

Next ==
  \/ Egress \/ ClientIdle \/ Reply
  \/ \E w \in SrvPkts : ServerLoad(w)
  \/ \E k \in Sockets : ServerIngress(k) \/ ServerLearn(k) \/ ClientIngress(k)
  \/ Lose \/ Move \/ Stray

Spec == Init /\ [][Next]_vars

\* The client's WireGuard keeps sending, as it does with PersistentKeepalive or
\* traffic; the network does not lose for ever what is sent again and again, and
\* keeps nothing for ever; not every random "gut" header looks like RTP; the
\* server's ingress threads go on.
FairSpec ==
  /\ Spec
  /\ SF_vars(Egress /\ \E m \in net' \ net : Marked(m.d))
  /\ WF_vars(Lose)
  /\ WF_vars(\E k \in Sockets : ServerLearn(k))
  /\ SF_vars(\E k \in Sockets : ServerIngress(k) /\ job'[k].src \in CliAddrs)

-----------------------------------------------------------------------------
(* Properties                                                              *)

\* What either WireGuard receives is a datagram the other one sent, unmasked
\* and cut to its length, whichever mode, header and padding it travelled in.
DeliveredIntact == intact

\* What is in flight from the client is recognised by the server whatever modes
\* the two are configured with, and what the server sends to an endpoint it has
\* learned is recognised by the client: the mode of the endpoint is known before
\* the endpoint is.  The exception is a "gut" packet that looks like RTP.
ArrivalsRecognised ==
  \A m \in {n \in net : Marked(n.d)} :
    /\ m.src.host \in Hosts /\ m.d.wire \notin {NoWire, [NoWire EXCEPT !.len = 17]}
         => ServerDetect(Unwrap(m.d)) = cm
    /\ m.src.host = "srv" /\ m.learned /\ m.d.wire # NoWire
         => ClientDetect(Unwrap(m.d)) = cm

\* A reply to a learned endpoint goes to an address that a socket of the client
\* had when it sent, which is what "the peer's real (possibly ephemeral) port" asks for.
RepliesReturn ==
  \A m \in net : m.src.host = "srv" /\ m.learned => m.dst \in used

\* Once the client stays where it is, the server's endpoint ends up being one of
\* its addresses, and the client's idea of WireGuard's address the right one.
EndpointSettles ==
  <>[](srvExt \in CliAddrs /\ cliWg = wg)
=============================================================================
