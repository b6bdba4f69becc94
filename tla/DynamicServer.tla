--------------------------- MODULE DynamicServer ----------------------------
(***************************************************************************)
(* The userspace proxy of src/userspace.rs as a server with                *)
(* peer_ip = dynamic: one egress thread, one ingress thread per listening  *)
(* port, and the three mutex-protected maps through which they tell each   *)
(* other where a client is (client_map), which client a server session     *)
(* belongs to (session_map) and which wire format it speaks (client_obfs). *)
(* The clients, the network and the server's WireGuard are the             *)
(* environment.                                                            *)
(*                                                                         *)
(* A WireGuard index names a handshake: a client draws CIdx in its Type 1, *)
(* the server answers with SIdx in its Type 2, and from then on Type 4     *)
(* packets carry the receiver's index.  Each index, and each address and   *)
(* port the server sees, belongs to one client.  SIP replies go to a fixed *)
(* port of the client's host, so a host belongs to one client as well; one *)
(* address stands for all the ports of peer_ports on its host.             *)
(***************************************************************************)
EXTENDS Naturals, FiniteSets

CONSTANTS
    Client,        \* the WireGuard clients
    CIdx, SIdx,    \* indices drawn by clients, by the server's WireGuard
    Addr,          \* source addresses as the server sees them
    OwnerOf,       \* [CIdx \cup Addr -> Client]
    ModeOf,        \* [Client -> Mode], the client's own obfs setting
    AtPeerPort,    \* [Addr -> Addr], the same host at the ports of peer_ports
    Obfs,          \* the server's own obfs setting
    ZeroIdx,       \* the index 0, which the learning code ignores
    Ingress,       \* ingress threads, those of the listening ports that get traffic
    NumPorts,      \* length of ports: the sockets run() binds
    NumPeerPorts,  \* length of peer_ports
    WgTypes,       \* the packet types the server's WireGuard sends
    None,
    MaxNet, MaxOut,  \* bounds: datagrams in flight, per direction
    MaxRestarts      \* bound: restarts of the proxy

Mode == {"quic", "gut", "syslog", "sip"}

ASSUME EnvironmentAssumption ==
    /\ OwnerOf \in [CIdx \cup Addr -> Client]
    /\ ModeOf \in [Client -> Mode]
    /\ AtPeerPort \in [Addr -> Addr]
    /\ \A a \in Addr : OwnerOf[AtPeerPort[a]] = OwnerOf[a]
    /\ Obfs \in Mode
    /\ None \notin CIdx \cup SIdx \cup Addr \cup Mode \cup Ingress

ASSUME BoundAssumption ==
    /\ {MaxNet, MaxOut, MaxRestarts} \subseteq Nat
    /\ {NumPorts, NumPeerPorts} \subseteq Nat \ {0}
    /\ IsFiniteSet(Ingress) => Cardinality(Ingress) <= NumPorts
    /\ WgTypes \subseteq 1 .. 4

\* What clients send: handshake initiations, data and keepalives.
ToServer == [type : {1}, ka : {FALSE}, idx : CIdx, src : Addr]
              \cup [type : {4}, ka : BOOLEAN, idx : SIdx, src : Addr]
\* What the server's WireGuard hands to the egress thread; ka marks a keepalive.
FromWg == [type : WgTypes, ka : BOOLEAN, s : SIdx \cup {None}, i : CIdx \cup {None}]
\* What the egress thread sends.
ToClient == [type : {2, 3, 4}, s : SIdx \cup {None}, i : CIdx \cup {None},
             to : Addr, mode : Mode]

VARIABLES
    clientMap,    \* client_map: where each client index was last seen
    sessionMap,   \* session_map: server index -> client index
    clientObfs,   \* client_obfs: wire format detected per source address
    sessionLock,  \* ingress thread holding session_map's mutex, or None
    egress,       \* egress thread: [pc, pkt, dest]
    ingress,      \* ingress threads: [pc, msg, cidx]
    net,          \* datagrams on their way to the server
    toClients,    \* datagrams on their way to clients
    where,        \* the address each client currently sends from
    known,        \* server sessions each client has been told of
    heard,        \* client indices whose Type 1 reached the server's WireGuard
    sOwner,       \* the client index each server session answers
    restarts

maps == <<clientMap, sessionMap, clientObfs, sessionLock>>
world == <<where, known>>
wireguard == <<heard, sOwner>>
vars == <<maps, egress, ingress, net, toClients, world, wireguard, restarts>>

NoMsg == [type |-> 0, ka |-> FALSE, idx |-> None, src |-> None]
NoPkt == [type |-> 0, ka |-> FALSE, s |-> None, i |-> None]
IdleEgress == [pc |-> "idle", pkt |-> NoPkt, dest |-> None]
IdleIngress == [pc |-> "idle", msg |-> NoMsg, cidx |-> None]

TypeOK ==
    /\ clientMap \in [CIdx -> Addr \cup {None}]
    /\ sessionMap \in [SIdx -> CIdx \cup {None}]
    /\ clientObfs \in [Addr -> Mode \cup {None}]
    /\ sessionLock \in Ingress \cup {None}
    /\ egress \in [pc : {"idle", "session", "client", "send", "panicked"},
                   pkt : FromWg \cup {NoPkt}, dest : Addr \cup {None}]
    /\ ingress \in [Ingress -> [pc : {"idle", "obfs", "client", "session", "bridge", "forward"},
                                msg : ToServer \cup {NoMsg}, cidx : CIdx \cup {None}]]
    /\ net \in SUBSET ToServer
    /\ toClients \in SUBSET ToClient
    /\ where \in [Client -> Addr]
    /\ known \in [Client -> SUBSET SIdx]
    /\ heard \in SUBSET CIdx
    /\ sOwner \in [SIdx -> CIdx \cup {None}]
    /\ restarts \in Nat

\* HashMap::new() for the three maps.
NoClients == [i \in CIdx |-> None]
NoSessions == [s \in SIdx |-> None]
NoModes == [a \in Addr |-> None]

Init ==
    /\ clientMap = NoClients
    /\ sessionMap = NoSessions
    /\ clientObfs = NoModes
    /\ sessionLock = None
    /\ egress = IdleEgress
    /\ ingress = [t \in Ingress |-> IdleIngress]
    /\ net = {}
    /\ toClients = {}
    /\ where \in {w \in [Client -> Addr] : \A c \in Client : OwnerOf[w[c]] = c}
    /\ known = [c \in Client |-> {}]
    /\ heard = {}
    /\ sOwner = [s \in SIdx |-> None]
    /\ restarts = 0

Alive == egress.pc # "panicked"

-----------------------------------------------------------------------------
(* The egress thread: WireGuard -> encapsulate -> client.                  *)

\* send_to(): a network that already holds MaxOut datagrams loses one of them.
Transmit(p) ==
    IF Cardinality(toClients) < MaxOut
      THEN toClients' = toClients \cup {p}
      ELSE \E lost \in toClients : toClients' = (toClients \ {lost}) \cup {p}

\* Take a packet of WireGuard's and look at its type: a server-initiated Type 1
\* has no client to go to and is dropped.
EgressRecv(p) ==
    /\ egress.pc = "idle"
    /\ p.type \in WgTypes
    /\ egress' = IF p.type = 1 THEN IdleEgress
                 ELSE [pc |-> IF p.type = 2 THEN "session" ELSE "client",
                       pkt |-> p, dest |-> None]
    /\ UNCHANGED <<maps, ingress, net, toClients, world, restarts>>

\* Variant of EgressSession with try_lock(): it skips the insert under contention.
EgressSessionTryLock ==
    /\ egress.pc = "session"
    /\ sessionMap' = IF sessionLock = None
                       THEN [sessionMap EXCEPT ![egress.pkt.s] = egress.pkt.i] ELSE sessionMap
    /\ egress' = [egress EXCEPT !.pc = "client"]
    /\ UNCHANGED <<clientMap, clientObfs, sessionLock, ingress, net, toClients,
                   world, wireguard, restarts>>

\* Variant of EgressSession that takes an initiator heard before for the client.
EgressSessionAnyHeard ==
    /\ egress.pc = "session"
    /\ sessionLock = None
    /\ \E i \in heard : sessionMap' = [sessionMap EXCEPT ![egress.pkt.s] = i]
    /\ egress' = [egress EXCEPT !.pc = "client"]
    /\ UNCHANGED <<clientMap, clientObfs, sessionLock, ingress, net, toClients,
                   world, wireguard, restarts>>

\* Type 2: remember which client the new server session belongs to; the mutex
\* is released before the next statement.
EgressSession ==
    /\ egress.pc = "session"
    /\ sessionLock = None
    /\ sessionMap' = [sessionMap EXCEPT ![egress.pkt.s] = egress.pkt.i]
    /\ egress' = [egress EXCEPT !.pc = "client"]
    /\ UNCHANGED <<clientMap, clientObfs, sessionLock, ingress, net, toClients,
                   world, wireguard, restarts>>

\* Types 2, 3 and 4: look the client up; a packet for an unknown one is dropped.
EgressClient ==
    /\ egress.pc = "client"
    /\ LET dest == clientMap[egress.pkt.i] IN
         egress' = IF dest = None THEN IdleEgress
                   ELSE [egress EXCEPT !.pc = "send", !.dest = dest]
    /\ UNCHANGED <<maps, ingress, net, toClients, world, wireguard, restarts>>

\* The wire format for a destination: the one its last packet came in, or the
\* server's own.
ReplyMode(a) == IF clientObfs[a] = None THEN Obfs ELSE clientObfs[a]

\* Data proper is sent as RTP in SIP mode; a keepalive is an OPTIONS request.
IsMedia(p) == p.type = 4 /\ ~p.ka

\* Variant of SocketsFor that spreads signalling as well.
SocketsForAll(mode, p) ==
    IF mode = "sip" /\ NumPeerPorts > 1 THEN 1 .. (NumPeerPorts - 1) ELSE {0}

\* The socket a packet leaves from: SIP spreads media over sockets 1 and up by
\* the packet's nonce, everything else uses socket 0.
SocketsFor(mode, p) ==
    IF mode = "sip" /\ IsMedia(p) /\ NumPeerPorts > 1 THEN 1 .. (NumPeerPorts - 1) ELSE {0}

\* final_dest: SIP replaces the port of the learned address by one of peer_ports,
\* unless it sends media and peer_ports has only one entry.
FinalDest(mode, p, a) ==
    IF mode = "sip" /\ (~IsMedia(p) \/ NumPeerPorts > 1) THEN AtPeerPort[a] ELSE a

\* Encapsulate and send; indexing past the bound sockets panics the thread.
EgressSend(sock) ==
    /\ egress.pc = "send"
    /\ LET mode == ReplyMode(egress.dest) IN
         /\ sock \in SocketsFor(mode, egress.pkt)
         /\ IF sock < NumPorts
              THEN /\ Transmit([type |-> egress.pkt.type, s |-> egress.pkt.s,
                                i |-> egress.pkt.i, mode |-> mode,
                                to |-> FinalDest(mode, egress.pkt, egress.dest)])
                   /\ egress' = IdleEgress
              ELSE /\ egress' = [egress EXCEPT !.pc = "panicked"]
                   /\ UNCHANGED toClients
    /\ UNCHANGED <<maps, ingress, net, world, wireguard, restarts>>

-----------------------------------------------------------------------------
(* An ingress thread: client -> verify -> learn -> WireGuard.              *)

\* The userspace client sends a SIP keepalive as an OPTIONS request without a
\* payload, so there is nothing in it to decode.
CarriesPayload(m) == ~(m.ka /\ ModeOf[OwnerOf[m.src]] = "sip")

\* The network delivers a datagram, keeping a copy if it duplicates it.  A SIP
\* request without a payload is answered and forgotten; so is every datagram that
\* fails verification, which is why those are not modelled.
IngressRecv(t, m, dup) ==
    /\ Alive
    /\ ingress[t].pc = "idle"
    /\ m \in net
    /\ net' = IF dup THEN net ELSE net \ {m}
    /\ ingress' = IF CarriesPayload(m)
                    THEN [ingress EXCEPT ![t] = [pc |-> "obfs", msg |-> m, cidx |-> None]]
                    ELSE ingress
    /\ UNCHANGED <<maps, egress, toClients, world, wireguard, restarts>>

\* Variant of IngressObfs that records the wire format of handshakes only.
IngressObfsHandshakeOnly(t) ==
    /\ Alive
    /\ ingress[t].pc = "obfs"
    /\ LET m == ingress[t].msg IN
         /\ clientObfs' = IF m.type = 1
                            THEN [clientObfs EXCEPT ![m.src] = ModeOf[OwnerOf[m.src]]]
                            ELSE clientObfs
         /\ ingress' = [ingress EXCEPT ![t].pc =
                          IF m.type = 4 THEN "session"
                          ELSE IF m.idx # ZeroIdx THEN "client" ELSE "forward"]
    /\ UNCHANGED <<clientMap, sessionMap, sessionLock, egress, net, toClients,
                   world, wireguard, restarts>>

\* Store the detected wire format, decapsulate, and look at the type.
IngressObfs(t) ==
    /\ Alive
    /\ ingress[t].pc = "obfs"
    /\ LET m == ingress[t].msg IN
         /\ clientObfs' = [clientObfs EXCEPT ![m.src] = ModeOf[OwnerOf[m.src]]]
         /\ ingress' = [ingress EXCEPT ![t].pc =
                          IF m.type = 4 THEN "session"
                          ELSE IF m.idx # ZeroIdx THEN "client" ELSE "forward"]
    /\ UNCHANGED <<clientMap, sessionMap, sessionLock, egress, net, toClients,
                   world, wireguard, restarts>>

\* Variant of IngressLearn that updates an entry but never adds one.
IngressLearnKnownOnly(t) ==
    /\ Alive
    /\ ingress[t].pc = "client"
    /\ clientMap' = IF clientMap[ingress[t].msg.idx] = None THEN clientMap
                    ELSE [clientMap EXCEPT ![ingress[t].msg.idx] = ingress[t].msg.src]
    /\ ingress' = [ingress EXCEPT ![t].pc = "forward"]
    /\ UNCHANGED <<sessionMap, clientObfs, sessionLock, egress, net, toClients,
                   world, wireguard, restarts>>

\* Type 1: the sender index is reachable at the packet's source.
IngressLearn(t) ==
    /\ Alive
    /\ ingress[t].pc = "client"
    /\ clientMap' = [clientMap EXCEPT ![ingress[t].msg.idx] = ingress[t].msg.src]
    /\ ingress' = [ingress EXCEPT ![t].pc = "forward"]
    /\ UNCHANGED <<sessionMap, clientObfs, sessionLock, egress, net, toClients,
                   world, wireguard, restarts>>

\* Type 4: find the client behind the server session.  The guard of the `if let`
\* keeps session_map locked until the end of its body.
IngressSession(t) ==
    /\ Alive
    /\ ingress[t].pc = "session"
    /\ sessionLock = None
    /\ LET i == sessionMap[ingress[t].msg.idx] IN
         IF i = None
           THEN /\ ingress' = [ingress EXCEPT ![t].pc = "forward"]
                /\ UNCHANGED sessionLock
           ELSE /\ ingress' = [ingress EXCEPT ![t].pc = "bridge", ![t].cidx = i]
                /\ sessionLock' = t
    /\ UNCHANGED <<clientMap, sessionMap, clientObfs, egress, net, toClients,
                   world, wireguard, restarts>>

\* Variant of IngressBridge that returns with session_map still locked.
IngressBridgeKeepsLock(t) ==
    /\ Alive
    /\ ingress[t].pc = "bridge"
    /\ clientMap' = [clientMap EXCEPT ![ingress[t].cidx] = ingress[t].msg.src]
    /\ ingress' = [ingress EXCEPT ![t].pc = "forward"]
    /\ UNCHANGED <<sessionMap, clientObfs, sessionLock, egress, net, toClients,
                   world, wireguard, restarts>>

\* The body of that `if let`: update client_map, then release session_map.
IngressBridge(t) ==
    /\ Alive
    /\ ingress[t].pc = "bridge"
    /\ clientMap' = [clientMap EXCEPT ![ingress[t].cidx] = ingress[t].msg.src]
    /\ sessionLock' = None
    /\ ingress' = [ingress EXCEPT ![t].pc = "forward"]
    /\ UNCHANGED <<sessionMap, clientObfs, egress, net, toClients,
                   world, wireguard, restarts>>

\* Hand the packet to the server's WireGuard.
IngressForward(t) ==
    /\ Alive
    /\ ingress[t].pc = "forward"
    /\ LET m == ingress[t].msg IN
         heard' = IF m.type = 1 THEN heard \cup {m.idx} ELSE heard
    /\ ingress' = [ingress EXCEPT ![t] = IdleIngress]
    /\ UNCHANGED <<maps, egress, net, toClients, world, sOwner, restarts>>

\* The process ends (a panic makes run() return an error) and the service
\* manager starts it again: maps, threads and socket buffers are gone.
Restart ==
    /\ restarts < MaxRestarts
    /\ restarts' = restarts + 1
    /\ clientMap' = NoClients
    /\ sessionMap' = NoSessions
    /\ clientObfs' = NoModes
    /\ sessionLock' = None
    /\ egress' = IdleEgress
    /\ ingress' = [t \in Ingress |-> IdleIngress]
    /\ UNCHANGED <<net, toClients, world, wireguard>>

-----------------------------------------------------------------------------
(* The environment: clients, network, the server's WireGuard.              *)

Server == <<maps, egress, ingress, restarts>>

SendToServer(m) ==
    /\ Cardinality(net) < MaxNet
    /\ net' = net \cup {m}

\* A client starts, or repeats, a handshake.
ClientInit(c, i) ==
    /\ OwnerOf[i] = c
    /\ SendToServer([type |-> 1, ka |-> FALSE, idx |-> i, src |-> where[c]])
    /\ UNCHANGED <<Server, toClients, world, wireguard>>

\* A client sends data, or a keepalive, in a session it has been told of.  Only
\* SIP tells the two apart.
ClientData(c, s, ka) ==
    /\ s \in known[c]
    /\ ka => ModeOf[c] = "sip"
    /\ SendToServer([type |-> 4, ka |-> ka, idx |-> s, src |-> where[c]])
    /\ UNCHANGED <<Server, toClients, world, wireguard>>

\* A datagram reaches the client that is at its address, or nobody.
ClientRecv(p) ==
    /\ p \in toClients
    /\ toClients' = toClients \ {p}
    /\ known' = [c \in Client |->
                   IF p.type = 2 /\ where[c] = p.to /\ OwnerOf[p.i] = c
                     THEN known[c] \cup {p.s} ELSE known[c]]
    /\ UNCHANGED <<Server, net, where, wireguard>>

\* A client moves to another network.
Roam(c, a) ==
    /\ OwnerOf[a] = c /\ a # where[c]
    /\ where' = [where EXCEPT ![c] = a]
    /\ UNCHANGED <<Server, net, toClients, known, wireguard>>

\* The network loses a datagram.
Lose(m) ==
    /\ net' = net \ {m}
    /\ m \in net
    /\ UNCHANGED <<Server, toClients, world, wireguard>>

\* WireGuard answers a handshake with a session of its own.  A packet may wait on
\* the loopback socket before the egress thread takes it; what WireGuard may send
\* only grows, so taking it at once loses no behaviour.
WgRespond(i, s) ==
    /\ i \in heard
    /\ sOwner[s] = i \/ (sOwner[s] = None /\ i \notin {sOwner[r] : r \in SIdx})
    /\ sOwner' = [sOwner EXCEPT ![s] = i]
    /\ EgressRecv([type |-> 2, ka |-> FALSE, s |-> s, i |-> i])
    /\ UNCHANGED heard

\* WireGuard under load answers a handshake with a cookie.
WgCookie(i) ==
    /\ i \in heard
    /\ EgressRecv([type |-> 3, ka |-> FALSE, s |-> None, i |-> i])
    /\ UNCHANGED wireguard

\* WireGuard sends data, or a keepalive, in a session.
WgData(s, ka) ==
    /\ sOwner[s] # None
    /\ ka => ModeOf[OwnerOf[sOwner[s]]] = "sip"
    /\ EgressRecv([type |-> 4, ka |-> ka, s |-> None, i |-> sOwner[s]])
    /\ UNCHANGED wireguard

\* WireGuard starts a rekey of its own.
WgRekey(s) ==
    /\ sOwner[s] # None
    /\ EgressRecv([type |-> 1, ka |-> FALSE, s |-> s, i |-> None])
    /\ UNCHANGED wireguard

IngressStep(t) ==
    \/ IngressObfs(t)
    \/ IngressLearn(t)
    \/ IngressSession(t)
    \/ IngressBridge(t)
    \/ IngressForward(t)

EgressStep ==
    \/ EgressSession
    \/ EgressClient
    \/ \E sock \in 0 .. NumPeerPorts : EgressSend(sock)

Next ==
    \/ EgressStep
    \/ \E t \in Ingress : IngressStep(t)
    \/ \E t \in Ingress, m \in net, dup \in BOOLEAN : IngressRecv(t, m, dup)
    \/ Restart
    \/ \E c \in Client, i \in CIdx : ClientInit(c, i)
    \/ \E c \in Client, s \in SIdx, ka \in BOOLEAN : ClientData(c, s, ka)
    \/ \E p \in toClients : ClientRecv(p)
    \/ \E c \in Client, a \in Addr : Roam(c, a)
    \/ \E m \in net : Lose(m)
    \/ \E i \in CIdx, s \in SIdx : WgRespond(i, s)
    \/ \E i \in CIdx : WgCookie(i)
    \/ \E s \in SIdx, ka \in BOOLEAN : WgData(s, ka)
    \/ \E s \in SIdx : WgRekey(s)

Spec == Init /\ [][Next]_vars

\* Threads are scheduled, and a thread waiting for session_map's mutex gets it if
\* it is free again and again.
ThreadFairness ==
    /\ SF_vars(EgressStep)
    /\ \A t \in Ingress : SF_vars(IngressStep(t))

\* From an address that sends again and again something gets through, and nothing
\* is duplicated or delayed forever.
NetFairness ==
    /\ \A a \in Addr :
         SF_vars(\E t \in Ingress, m \in net : m.src = a /\ IngressRecv(t, m, FALSE))
    /\ \A c \in Client :
         SF_vars(\E p \in toClients : OwnerOf[p.i] = c /\ p.type = 2 /\ ClientRecv(p))

\* A client without a session keeps trying to get one, the server's WireGuard
\* answers, and a client with a session keeps sending data in it.
ClientTalks(c) ==
    \/ known[c] = {} /\ \E i \in CIdx : ClientInit(c, i)
    \/ \E s \in SIdx : ClientData(c, s, FALSE)

PeerFairness ==
    /\ \A c \in Client : SF_vars(ClientTalks(c))
    /\ \A i \in CIdx : SF_vars(\E s \in SIdx : WgRespond(i, s))

\* WireGuard also rekeys.  Only after a restart of the proxy does it matter that a
\* client repeats its handshake from time to time.
RekeyFairness ==
    \A c \in Client : SF_vars(restarts > 0 /\ \E i \in CIdx : ClientInit(c, i))

FairSpec == Spec /\ ThreadFairness /\ NetFairness /\ PeerFairness /\ RekeyFairness

-----------------------------------------------------------------------------
\* Every packet the egress thread sends goes to an address of the client whose
\* index it carries, whatever roaming, reordering, duplication and restarts did
\* to client_map and session_map in between.
RightClient ==
    \A p \in toClients : OwnerOf[p.to] = OwnerOf[p.i]

\* Every packet the egress thread sends is in the wire format its receiver
\* speaks: an ingress thread publishes the format of an address before it
\* publishes the address.
ReplyInClientMode ==
    \A p \in toClients : p.mode = ModeOf[OwnerOf[p.to]]

\* A session a client has been told of can be resolved: session_map has it
\* before the Type 2 leaves, so no data packet comes too early to be learned from
\* (until a restart empties the maps).
AnnouncedSessionsResolve ==
    restarts = 0 =>
        \A c \in Client : \A s \in known[c] : sessionMap[s] # None /\ sessionMap[s] = sOwner[s]

\* The egress thread takes the number of its socket from peer_ports, and nothing
\* compares that list with the ports that were bound.  What panics for it, and ends
\* the proxy for every client, is media for a SIP client while peer_ports is the
\* longer list; signalling, keepalives and the other formats never do.
PanicsPastPortsOnly ==
    egress.pc = "panicked" =>
        /\ NumPeerPorts > NumPorts
        /\ IsMedia(egress.pkt) /\ ReplyMode(egress.dest) = "sip"

\* Every packet an ingress or the egress thread takes in is handled to the end:
\* the nested locking of session_map and client_map cannot block forever.
ThreadsReturn ==
    /\ \A t \in Ingress : ingress[t].pc # "idle" ~> ingress[t].pc = "idle"
    /\ egress.pc # "idle" ~> egress.pc = "idle"

\* A client that stays at an address from some time on is, in the end, routed to
\* that address, and the server never forgets it again.
RoutesSettle ==
    \A c \in Client, a \in Addr :
        <>[](where[c] = a) =>
            <>[](\E s \in known[c] : sOwner[s] # None /\ clientMap[sOwner[s]] = a)
=============================================================================
