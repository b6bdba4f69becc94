------------------------ MODULE DynamicServerProofs -------------------------
(***************************************************************************)
(* Proofs about DynamicServer for any number of clients, addresses,        *)
(* indices and ingress threads, and any amount of traffic in flight.       *)
(***************************************************************************)
EXTENDS DynamicServer, TLAPS

\* The session s was created for the client index i.
Answers(s, i) == s \in SIdx /\ i \in CIdx /\ sOwner[s] = i

\* The address a belongs to the client that drew the index i, and the wire format
\* that client speaks is on record.
Reaches(a, i) ==
    /\ a \in Addr /\ i \in CIdx
    /\ OwnerOf[a] = OwnerOf[i]

Recorded(a) == a \in Addr /\ clientObfs[a] = ModeOf[OwnerOf[a]]

\* A datagram a client may have sent.
Genuine(m) ==
    \/ m \in ToServer /\ m.type = 1 /\ Reaches(m.src, m.idx)
    \/ /\ m \in ToServer /\ m.type = 4
       /\ Answers(m.idx, sOwner[m.idx]) /\ Reaches(m.src, sOwner[m.idx])

MapsInv ==
    /\ \A i \in CIdx : clientMap[i] # None => Reaches(clientMap[i], i) /\ Recorded(clientMap[i])
    /\ \A s \in SIdx : sessionMap[s] # None => Answers(s, sessionMap[s])
    /\ \A a \in Addr : clientObfs[a] # None => Recorded(a)

EgressInv ==
    /\ egress.pc \in {"session", "client", "send"} =>
         /\ egress.pkt \in FromWg /\ egress.pkt.type # 1 /\ egress.pkt.i \in CIdx
         /\ egress.pkt.type = 2 => Answers(egress.pkt.s, egress.pkt.i)
    /\ egress.pc = "session" => egress.pkt.type = 2
    /\ egress.pc \in {"client", "send"} /\ egress.pkt.type = 2 /\ restarts = 0 =>
         sessionMap[egress.pkt.s] # None
    /\ egress.pc = "send" => Reaches(egress.dest, egress.pkt.i) /\ Recorded(egress.dest)

ThreadOK(r) ==
    /\ r.pc # "idle" => Genuine(r.msg)
    /\ r.pc \in {"client", "session", "bridge"} => Recorded(r.msg.src)
    /\ r.pc = "client" => r.msg.type = 1
    /\ r.pc = "session" => r.msg.type = 4
    /\ r.pc = "bridge" => r.msg.type = 4 /\ Answers(r.msg.idx, r.cidx)

IngressInv == \A t \in Ingress : ThreadOK(ingress[t])

NetInv ==
    /\ \A m \in net : Genuine(m)
    /\ \A p \in toClients :
         /\ Reaches(p.to, p.i)
         /\ p.mode = ModeOf[OwnerOf[p.to]]
         /\ p.type = 2 => Answers(p.s, p.i) /\ (restarts = 0 => sessionMap[p.s] # None)

ClientInv ==
    \A c \in Client :
        /\ OwnerOf[where[c]] = c
        /\ \A s \in known[c] : /\ sOwner[s] \in CIdx /\ OwnerOf[sOwner[s]] = c
                               /\ restarts = 0 => sessionMap[s] # None

\* The inductive invariant behind RightClient, ReplyInClientMode and
\* AnnouncedSessionsResolve.
RoutingInv == TypeOK /\ MapsInv /\ EgressInv /\ IngressInv /\ NetInv /\ ClientInv

\* A step that forgets no session: what WireGuard created stays, and what
\* session_map holds stays unless the proxy restarts.
KeepsSessions ==
    /\ \A s \in SIdx : sOwner[s] \in CIdx => sOwner'[s] = sOwner[s]
    /\ restarts' = 0 =>
         restarts = 0 /\ \A s \in SIdx : sessionMap[s] # None => sessionMap'[s] # None

\* A step that forgets no wire format.
KeepsModes == \A a \in Addr : Recorded(a) => Recorded(a)'

-----------------------------------------------------------------------------
\* None is none of the values the maps hold.
LEMMA NoneIsNothing ==
    /\ None \notin CIdx /\ None \notin SIdx /\ None \notin Addr
    /\ None \notin Mode /\ None \notin Ingress
    /\ \A c \in CIdx \cup Addr : OwnerOf[c] \in Client
    /\ \A c \in Client : ModeOf[c] \in Mode
    /\ Obfs \in Mode
BY EnvironmentAssumption, Zenon

\* Most steps leave both tables of facts alone.
LEMMA KeepsIfUnchanged ==
    ASSUME UNCHANGED <<sOwner, sessionMap, restarts, clientObfs>>
    PROVE  KeepsSessions /\ KeepsModes
BY Zenon DEF KeepsSessions, KeepsModes, Recorded

\* A genuine datagram stays genuine while sessions are kept.
LEMMA GenuineKept ==
    ASSUME KeepsSessions PROVE \A m : Genuine(m) => Genuine(m)'
BY Zenon DEF KeepsSessions, Genuine, Reaches, Answers

\* What a genuine datagram looks like.
LEMMA GenuineShape ==
    ASSUME NEW m, Genuine(m)
    PROVE  /\ m \in ToServer /\ m.type \in {1, 4} /\ m.src \in Addr
           /\ m.type = 1 => m.idx \in CIdx /\ Reaches(m.src, m.idx)
           /\ m.type = 4 => m.idx \in SIdx /\ Reaches(m.src, sOwner[m.idx])
BY DEF Genuine, Reaches, Answers

\* A thread that is fine stays fine while sessions and formats are kept.
LEMMA ThreadKept ==
    ASSUME KeepsSessions, KeepsModes PROVE \A r : ThreadOK(r) => ThreadOK(r)'
<1>1. \A a : Recorded(a) => Recorded(a)'
  BY Zenon DEF KeepsModes, Recorded
<1>2. \A s, i : Answers(s, i) => Answers(s, i)'
  BY Zenon DEF KeepsSessions, Answers
<1>3. QED
  BY <1>1, <1>2, GenuineKept, Zenon DEF ThreadOK

\* Ingress threads that do not move stay fine.
LEMMA IngressKept ==
    ASSUME IngressInv, KeepsSessions, KeepsModes, UNCHANGED ingress
    PROVE  IngressInv'
BY ThreadKept, Zenon DEF IngressInv

\* A step of one ingress thread keeps the others fine.
LEMMA OthersKept ==
    ASSUME IngressInv, KeepsSessions, KeepsModes, NEW t \in Ingress,
           \A u \in Ingress \ {t} : ingress'[u] = ingress[u],
           ThreadOK(ingress[t])'
    PROVE  IngressInv'
<1>1. \A u \in Ingress \ {t} : ThreadOK(ingress[u])'
  BY ThreadKept, Zenon DEF IngressInv
<1>2. QED
  BY <1>1, Zenon DEF IngressInv

\* What the maps hold stays true while they are not written.
LEMMA MapsKept ==
    ASSUME MapsInv, KeepsSessions, UNCHANGED <<clientMap, sessionMap, clientObfs>>
    PROVE  MapsInv'
<1>1. \A s, i : Answers(s, i) => Answers(s, i)'
  BY Zenon DEF KeepsSessions, Answers
<1>2. QED
  BY <1>1, Zenon DEF MapsInv, Reaches, Recorded

\* What the egress thread knows stays true while it does not move.
LEMMA EgressKept ==
    ASSUME EgressInv, KeepsSessions, KeepsModes, UNCHANGED egress
    PROVE  EgressInv'
BY Zenon DEF EgressInv, KeepsSessions, KeepsModes, Reaches, Recorded, Answers

\* What is in flight stays true while nothing is added.
LEMMA NetKept ==
    ASSUME NetInv, KeepsSessions, net' \subseteq net, toClients' \subseteq toClients
    PROVE  NetInv'
<1>1. \A m \in net' : Genuine(m)'
  BY GenuineKept, Zenon DEF NetInv
<1>2. \A p \in toClients' :
         /\ Reaches(p.to, p.i)'
         /\ p.mode = ModeOf[OwnerOf[p.to]]
         /\ p.type = 2 => Answers(p.s, p.i)' /\ (restarts' = 0 => sessionMap'[p.s] # None)
  BY DEF NetInv, KeepsSessions, Reaches, Answers
<1>3. QED
  BY <1>1, <1>2, Zenon DEF NetInv

\* What clients know stays true while they learn nothing and do not move.
LEMMA ClientKept ==
    ASSUME ClientInv, KeepsSessions, UNCHANGED world, known \in [Client -> SUBSET SIdx]
    PROVE  ClientInv'
BY DEF ClientInv, KeepsSessions, world

\* The proxy starts with empty maps and idle threads, so the invariant holds.
LEMMA RoutingInit == Init => RoutingInv
<1> SUFFICES ASSUME Init PROVE RoutingInv
  BY Zenon
<1>1. TypeOK
  BY NoneIsNothing, BoundAssumption, Zenon DEF Init, TypeOK, NoClients, NoSessions, NoModes,
     IdleEgress, IdleIngress
<1>2. MapsInv
  BY Zenon DEF Init, MapsInv, NoClients, NoSessions, NoModes
<1>3. EgressInv /\ IngressInv
  BY Zenon DEF Init, EgressInv, IngressInv, ThreadOK, IdleEgress, IdleIngress
<1>4. NetInv /\ ClientInv
  BY Zenon DEF Init, NetInv, ClientInv
<1>5. QED
  BY <1>1, <1>2, <1>3, <1>4, Zenon DEF RoutingInv

\* Storing the session of a Type 2 keeps the invariant: the egress thread knows
\* which client index WireGuard answered.
LEMMA EgressSessionRouting == RoutingInv /\ EgressSession => RoutingInv'
<1> SUFFICES ASSUME RoutingInv, EgressSession PROVE RoutingInv'
  BY Zenon
<1> USE DEF RoutingInv
<1>1. Answers(egress.pkt.s, egress.pkt.i) /\ egress.pkt \in FromWg
  BY Zenon DEF EgressInv, EgressSession
<1>2. /\ UNCHANGED <<clientMap, clientObfs, sessionLock, ingress, net, toClients>>
      /\ UNCHANGED <<world, wireguard, sOwner, restarts>>
      /\ egress' = [egress EXCEPT !.pc = "client"]
      /\ sessionMap' = [sessionMap EXCEPT ![egress.pkt.s] = egress.pkt.i]
  BY Zenon DEF EgressSession, wireguard
<1>3. TypeOK'
  BY <1>1, <1>2, Zenon DEF TypeOK, Answers, world, wireguard
<1>4. \A s \in SIdx : sessionMap'[s] = IF s = egress.pkt.s THEN egress.pkt.i ELSE sessionMap[s]
  BY <1>1, <1>2, Zenon DEF TypeOK
<1>5. KeepsSessions /\ KeepsModes
  BY <1>1, <1>2, <1>4, NoneIsNothing, Zenon DEF KeepsSessions, KeepsModes, Recorded, Answers
<1>6. MapsInv'
  BY <1>1, <1>2, <1>4 DEF MapsInv, Reaches, Recorded, Answers
<1>7. EgressInv'
  <2>1. egress'.pc = "client" /\ egress'.pkt = egress.pkt
    BY <1>2, Zenon DEF TypeOK
  <2>2. egress.pkt.type = 2 /\ sessionMap'[egress.pkt.s] = egress.pkt.i /\ egress.pkt.i # None
    BY <1>1, <1>4, NoneIsNothing, Zenon DEF EgressInv, EgressSession, Answers
  <2>3. QED
    BY <1>1, <1>2, <2>1, <2>2 DEF EgressInv, Answers
<1>8. IngressInv' /\ NetInv' /\ ClientInv'
  BY <1>2, <1>5, IngressKept, NetKept, ClientKept, Zenon DEF TypeOK
<1>9. QED
  BY <1>3, <1>6, <1>7, <1>8, Zenon

\* Looking a client up keeps the invariant: client_map only holds addresses of
\* the right client whose wire format is on record.
LEMMA EgressClientRouting == RoutingInv /\ EgressClient => RoutingInv'
<1> SUFFICES ASSUME RoutingInv, EgressClient PROVE RoutingInv'
  OBVIOUS
<1> USE DEF RoutingInv
<1>1. /\ egress.pkt \in FromWg /\ egress.pkt.type # 1 /\ egress.pkt.i \in CIdx
      /\ egress.pkt.type = 2 => Answers(egress.pkt.s, egress.pkt.i)
      /\ egress.pkt.type = 2 /\ restarts = 0 => sessionMap[egress.pkt.s] # None
  BY Zenon DEF EgressInv, EgressClient
<1>2. UNCHANGED <<maps, clientMap, sessionMap, clientObfs, ingress, net, toClients,
                  world, wireguard, sOwner, restarts>>
  BY Zenon DEF EgressClient, maps, wireguard
<1>3. PICK d \in Addr \cup {None} : d = clientMap[egress.pkt.i]
  BY <1>1, Zenon DEF TypeOK
<1>4. egress' = IF d = None THEN IdleEgress ELSE [egress EXCEPT !.pc = "send", !.dest = d]
  BY <1>3, Zenon DEF EgressClient
<1>5. TypeOK'
  BY <1>2, <1>4, Zenon DEF TypeOK, IdleEgress, maps, world, wireguard
<1>6. KeepsSessions /\ KeepsModes
  BY <1>2, KeepsIfUnchanged, Zenon
<1>7. MapsInv' /\ IngressInv' /\ NetInv' /\ ClientInv'
  BY <1>2, <1>6, MapsKept, IngressKept, NetKept, ClientKept, Zenon DEF TypeOK
<1>8. EgressInv'
  <2>1. CASE d = None
    BY <1>4, <2>1, Zenon DEF EgressInv, IdleEgress
  <2>2. CASE d # None
    <3>1. egress'.pc = "send" /\ egress'.dest = d /\ egress'.pkt = egress.pkt
      BY <1>4, <2>2, Zenon DEF TypeOK
    <3>2. Reaches(d, egress.pkt.i) /\ Recorded(d)
      BY <1>1, <1>3, <2>2, Zenon DEF MapsInv
    <3>3. QED
      BY <1>1, <1>2, <3>1, <3>2, Zenon DEF EgressInv, Reaches, Recorded, Answers
  <2>3. QED
    BY <2>1, <2>2, Zenon
<1>9. QED
  BY <1>5, <1>7, <1>8, Zenon

\* Sending keeps the invariant: the format on record for the destination is the
\* one its client speaks.
LEMMA EgressSendRouting ==
    ASSUME RoutingInv, NEW sock \in 0 .. NumPeerPorts, EgressSend(sock)
    PROVE  RoutingInv'
<1> USE DEF RoutingInv
<1>1. /\ egress.pkt \in FromWg /\ egress.pkt.type \in {2, 3, 4} /\ egress.pkt.i \in CIdx
      /\ egress.pkt.type = 2 => Answers(egress.pkt.s, egress.pkt.i)
      /\ egress.pkt.type = 2 /\ restarts = 0 => sessionMap[egress.pkt.s] # None
      /\ Reaches(egress.dest, egress.pkt.i) /\ Recorded(egress.dest)
  BY BoundAssumption DEF EgressSend, EgressInv, FromWg
<1>2. ReplyMode(egress.dest) = ModeOf[OwnerOf[egress.dest]]
  BY <1>1, NoneIsNothing, Zenon DEF ReplyMode, Recorded
<1>3. UNCHANGED <<maps, clientMap, sessionMap, clientObfs, ingress, net, world, wireguard,
                  sOwner, restarts>>
  BY Zenon DEF EgressSend, maps, wireguard
<1>4. KeepsSessions /\ KeepsModes
  BY <1>3, KeepsIfUnchanged, Zenon
<1>5. MapsInv' /\ IngressInv' /\ ClientInv'
  BY <1>3, <1>4, MapsKept, IngressKept, ClientKept, Zenon DEF TypeOK
<1>6. CASE sock < NumPorts
  <2> DEFINE p == [type |-> egress.pkt.type, s |-> egress.pkt.s, i |-> egress.pkt.i,
                   mode |-> ReplyMode(egress.dest),
                   to |-> FinalDest(ReplyMode(egress.dest), egress.pkt, egress.dest)]
  <2>1. Transmit(p) /\ egress' = IdleEgress
    BY <1>6, Zenon DEF EgressSend
  <2>2. toClients' \subseteq toClients \cup {p}
    BY <2>1, Zenon DEF Transmit
  <2>3. Reaches(p.to, egress.pkt.i) /\ OwnerOf[p.to] = OwnerOf[egress.dest]
    BY <1>1, EnvironmentAssumption, Zenon DEF FinalDest, Reaches
  <2>4. p \in ToClient
    BY <1>1, <1>2, <2>3, NoneIsNothing, Zenon DEF ToClient, FromWg, Reaches
  <2>5. /\ Reaches(p.to, p.i) /\ p.mode = ModeOf[OwnerOf[p.to]]
        /\ p.type = 2 => Answers(p.s, p.i) /\ (restarts = 0 => sessionMap[p.s] # None)
    BY <1>1, <1>2, <2>3, Zenon
  <2> HIDE DEF p
  <2>6. TypeOK'
    BY <2>1, <2>2, <2>4, <1>3, Zenon DEF TypeOK, IdleEgress, maps, world, wireguard
  <2>7. EgressInv'
    BY <2>1, Zenon DEF EgressInv, IdleEgress
  <2>8. NetInv'
    BY <2>2, <2>5, <1>3 DEF NetInv, Genuine, Reaches, Answers
  <2>9. QED
    BY <2>6, <2>7, <2>8, <1>5, Zenon
<1>7. CASE ~(sock < NumPorts)
  <2>1. toClients' = toClients /\ egress' = [egress EXCEPT !.pc = "panicked"]
    BY <1>7, Zenon DEF EgressSend
  <2>2. TypeOK'
    BY <2>1, <1>3, Zenon DEF TypeOK, maps, world, wireguard
  <2>3. EgressInv'
    BY <2>1, Zenon DEF EgressInv, TypeOK
  <2>4. NetInv'
    BY <2>1, <1>3, <1>4, NetKept, Zenon
  <2>5. QED
    BY <2>2, <2>3, <2>4, <1>5
<1>8. QED
  BY <1>6, <1>7, Zenon

\* What WireGuard hands over keeps the invariant, whichever packet it is: a new
\* session answers the index it was created for, and is not taken from another.
LEMMA WgRouting ==
    ASSUME RoutingInv,
           \/ \E i \in CIdx, s \in SIdx : WgRespond(i, s)
           \/ \E i \in CIdx : WgCookie(i)
           \/ \E s \in SIdx, ka \in BOOLEAN : WgData(s, ka)
           \/ \E s \in SIdx : WgRekey(s)
    PROVE  RoutingInv'
<1> USE DEF RoutingInv
<1>1. ASSUME NEW p \in FromWg, EgressRecv(p),
             sOwner' \in [SIdx -> CIdx \cup {None}], heard' \in SUBSET CIdx,
             \A s \in SIdx : sOwner[s] # None => sOwner'[s] = sOwner[s],
             p.type # 1 => p.i \in CIdx,
             p.type = 2 => p.s \in SIdx /\ sOwner'[p.s] = p.i
      PROVE  RoutingInv'
  <2>1. UNCHANGED <<maps, clientMap, sessionMap, clientObfs, ingress, net, toClients,
                    world, restarts>>
    BY <1>1, Zenon DEF EgressRecv, maps
  <2>2. TypeOK'
    BY <1>1, <2>1 DEF TypeOK, EgressRecv, IdleEgress, maps, world
  <2>3. KeepsSessions /\ KeepsModes
    BY <1>1, <2>1, NoneIsNothing, Zenon DEF KeepsSessions, KeepsModes, Recorded
  <2>4. MapsInv' /\ IngressInv' /\ NetInv' /\ ClientInv'
    BY <2>1, <2>3, MapsKept, IngressKept, NetKept, ClientKept, Zenon DEF TypeOK
  <2>5. EgressInv'
    <3>1. CASE p.type = 1
      BY <1>1, <3>1, Zenon DEF EgressInv, EgressRecv, IdleEgress
    <3>2. CASE p.type # 1
      <4>1. egress'.pc = (IF p.type = 2 THEN "session" ELSE "client") /\ egress'.pkt = p
        BY <1>1, <3>2, Zenon DEF EgressRecv
      <4>2. QED
        BY <1>1, <3>2, <4>1, Zenon DEF EgressInv, Answers
    <3>3. QED
      BY <3>1, <3>2, Zenon
  <2>6. QED
    BY <2>2, <2>4, <2>5, Zenon
<1>2. ASSUME NEW i \in CIdx, NEW s \in SIdx, WgRespond(i, s) PROVE RoutingInv'
  <2> DEFINE p == [type |-> 2, ka |-> FALSE, s |-> s, i |-> i]
  <2>1. p \in FromWg /\ EgressRecv(p)
    BY <1>2, Zenon DEF WgRespond, FromWg, EgressRecv
  <2>2. \A r \in SIdx : sOwner[r] # None => sOwner'[r] = sOwner[r]
    BY <1>2, Zenon DEF WgRespond, TypeOK
  <2>3. sOwner'[s] = i /\ sOwner' \in [SIdx -> CIdx \cup {None}] /\ heard' \in SUBSET CIdx
    BY <1>2, Zenon DEF WgRespond, TypeOK
  <2>4. QED
    BY <1>1, <2>1, <2>2, <2>3, Zenon
<1>3. ASSUME NEW p \in FromWg, EgressRecv(p), UNCHANGED wireguard, p.type \in {1, 3, 4},
             p.type # 1 => p.i \in CIdx
      PROVE  RoutingInv'
  <2>1. sOwner' = sOwner /\ heard' = heard
    BY <1>3, Zenon DEF wireguard
  <2>2. sOwner' \in [SIdx -> CIdx \cup {None}] /\ heard' \in SUBSET CIdx
    BY <2>1, Zenon DEF TypeOK
  <2>3. QED
    BY <1>1, <1>3, <2>1, <2>2
<1>4. ASSUME NEW i \in CIdx, WgCookie(i) PROVE RoutingInv'
  <2> DEFINE p == [type |-> 3, ka |-> FALSE, s |-> None, i |-> i]
  <2>1. p \in FromWg /\ EgressRecv(p) /\ UNCHANGED wireguard /\ p.type = 3 /\ p.i \in CIdx
    BY <1>4, Zenon DEF WgCookie, FromWg, EgressRecv
  <2> HIDE DEF p
  <2>2. QED
    BY <1>3, <2>1, Zenon
<1>5. ASSUME NEW s \in SIdx, NEW ka \in BOOLEAN, WgData(s, ka) PROVE RoutingInv'
  <2> DEFINE p == [type |-> 4, ka |-> ka, s |-> None, i |-> sOwner[s]]
  <2>1. p \in FromWg /\ EgressRecv(p) /\ UNCHANGED wireguard /\ p.type = 4 /\ p.i \in CIdx
    BY <1>5, Zenon DEF WgData, FromWg, EgressRecv, TypeOK
  <2> HIDE DEF p
  <2>2. QED
    BY <1>3, <2>1, Zenon
<1>6. ASSUME NEW s \in SIdx, WgRekey(s) PROVE RoutingInv'
  <2> DEFINE p == [type |-> 1, ka |-> FALSE, s |-> s, i |-> None]
  <2>1. p \in FromWg /\ EgressRecv(p) /\ UNCHANGED wireguard /\ p.type = 1
    BY <1>6, Zenon DEF WgRekey, FromWg, EgressRecv
  <2> HIDE DEF p
  <2>2. QED
    BY <1>3, <2>1, Zenon
<1>7. QED
  BY <1>2, <1>4, <1>5, <1>6, Zenon

\* Taking a datagram in keeps the invariant.
LEMMA IngressRecvRouting ==
    ASSUME RoutingInv, NEW t \in Ingress, NEW m \in net, NEW dup \in BOOLEAN,
           IngressRecv(t, m, dup)
    PROVE  RoutingInv'
<1> USE DEF RoutingInv
<1>1. /\ UNCHANGED <<maps, clientMap, sessionMap, clientObfs, egress, toClients, world,
                     wireguard, sOwner, restarts>>
      /\ net' \subseteq net
  BY Zenon DEF IngressRecv, maps, wireguard
<1>2. Genuine(m) /\ m \in ToServer
  BY Zenon DEF NetInv, TypeOK
<1>3. KeepsSessions /\ KeepsModes
  BY <1>1, KeepsIfUnchanged, Zenon
<1>4. MapsInv' /\ EgressInv' /\ NetInv' /\ ClientInv'
  BY <1>1, <1>3, MapsKept, EgressKept, NetKept, ClientKept, Zenon DEF TypeOK
<1>5. CASE CarriesPayload(m)
  <2>1. ingress' = [ingress EXCEPT ![t] = [pc |-> "obfs", msg |-> m, cidx |-> None]]
    BY <1>5, Zenon DEF IngressRecv
  <2>2. TypeOK'
    BY <1>1, <1>2, <2>1, Zenon DEF TypeOK, maps, world, wireguard
  <2>3. \A u \in Ingress \ {t} : ingress'[u] = ingress[u]
    BY <2>1, Zenon DEF TypeOK
  <2>4. Genuine(m)'
    BY <1>2, <1>3, GenuineKept, Zenon
  <2>5. ThreadOK(ingress[t])'
    <3>1. ingress'[t] = [pc |-> "obfs", msg |-> m, cidx |-> None]
      BY <2>1, Zenon DEF TypeOK
    <3>2. ingress'[t].pc = "obfs" /\ ingress'[t].msg = m
      BY <3>1
    <3>3. QED
      BY <2>4, <3>2, Zenon DEF ThreadOK
  <2>6. IngressInv'
    BY <1>3, <2>3, <2>5, OthersKept, Zenon
  <2>7. QED
    BY <2>2, <2>6, <1>4, Zenon
<1>6. CASE ~CarriesPayload(m)
  <2>1. ingress' = ingress
    BY <1>6, Zenon DEF IngressRecv
  <2>2. TypeOK'
    BY <1>1, <2>1, Zenon DEF TypeOK, maps, world, wireguard
  <2>3. IngressInv'
    BY <1>3, <2>1, IngressKept, Zenon
  <2>4. QED
    BY <2>2, <2>3, <1>4
<1>7. QED
  BY <1>5, <1>6, Zenon

\* Recording a wire format keeps the invariant: it is the sender's own.
LEMMA IngressObfsRouting ==
    ASSUME RoutingInv, NEW t \in Ingress, IngressObfs(t)
    PROVE  RoutingInv'
<1> USE DEF RoutingInv
<1>1. PICK m : m = ingress[t].msg
  BY Zenon
<1>2. /\ UNCHANGED <<clientMap, sessionMap, sessionLock, egress, net, toClients, world,
                     wireguard, sOwner, restarts>>
      /\ clientObfs' = [clientObfs EXCEPT ![m.src] = ModeOf[OwnerOf[m.src]]]
  BY <1>1, Zenon DEF IngressObfs, wireguard
<1>3. Genuine(m) /\ m \in ToServer /\ m.src \in Addr /\ m.type \in {1, 4}
  <2>1. Genuine(m)
    BY <1>1, Zenon DEF IngressObfs, IngressInv, ThreadOK
  <2>2. QED
    BY <2>1, GenuineShape, Zenon
<1>4. \A a \in Addr : clientObfs'[a] = IF a = m.src THEN ModeOf[OwnerOf[m.src]] ELSE clientObfs[a]
  BY <1>2, <1>3, Zenon DEF TypeOK
<1>5. KeepsSessions /\ KeepsModes /\ Recorded(m.src)'
  BY <1>2, <1>3, <1>4, Zenon DEF KeepsSessions, KeepsModes, Recorded
<1>6. MapsInv'
  <2>1. \A a \in Addr : clientObfs'[a] # None => Recorded(a)'
    BY <1>4, Zenon DEF MapsInv, Recorded
  <2>2. QED
    BY <1>2, <1>5, <2>1, Zenon DEF MapsInv, KeepsModes, Reaches, Answers
<1>7. EgressInv' /\ NetInv' /\ ClientInv'
  BY <1>2, <1>5, EgressKept, NetKept, ClientKept, Zenon DEF TypeOK
<1>8. PICK pc \in {"session", "client", "forward"} :
        /\ ingress' = [ingress EXCEPT ![t].pc = pc]
        /\ pc = "session" <=> m.type = 4
  BY <1>1, <1>3, Zenon DEF IngressObfs
<1>9. /\ ingress'[t].pc = pc /\ ingress'[t].msg = m
      /\ \A u \in Ingress \ {t} : ingress'[u] = ingress[u]
  BY <1>1, <1>8 DEF TypeOK
<1>10. TypeOK'
  <2>1. ingress' \in [Ingress -> [pc : {"idle", "obfs", "client", "session", "bridge", "forward"},
                                  msg : ToServer \cup {NoMsg}, cidx : CIdx \cup {None}]]
    <3>1. ingress' = [ingress EXCEPT ![t] = [ingress[t] EXCEPT !.pc = pc]]
      BY <1>8, Zenon
    <3>2. [ingress[t] EXCEPT !.pc = pc] \in
             [pc : {"idle", "obfs", "client", "session", "bridge", "forward"},
              msg : ToServer \cup {NoMsg}, cidx : CIdx \cup {None}]
      BY DEF TypeOK
    <3>3. QED
      BY <3>1, <3>2, Zenon DEF TypeOK
  <2>2. clientObfs' \in [Addr -> Mode \cup {None}]
    BY <1>2, <1>3, NoneIsNothing, Zenon DEF TypeOK
  <2>3. QED
    BY <1>2, <2>1, <2>2, Zenon DEF TypeOK, world, wireguard
<1>11. IngressInv'
  <2>1. Genuine(m)'
    BY <1>3, <1>5, GenuineKept, Zenon
  <2>2. ThreadOK(ingress[t])'
    BY <1>3, <1>5, <1>8, <1>9, <2>1, Zenon DEF ThreadOK
  <2>3. QED
    BY <1>5, <1>9, <2>2, OthersKept, Zenon
<1>12. QED
  BY <1>6, <1>7, <1>10, <1>11, Zenon

\* An ingress step that leaves the threads, the maps' truth and the packets in
\* flight consistent keeps the invariant.  Used by the three learning steps.
LEMMA LearningRouting ==
    ASSUME RoutingInv, NEW t \in Ingress,
           UNCHANGED <<sessionMap, clientObfs, egress, net, toClients, world, sOwner, restarts>>,
           NEW pc \in {"bridge", "forward", "idle"},
           NEW msg \in ToServer \cup {NoMsg}, NEW cidx \in CIdx \cup {None},
           ingress' = [ingress EXCEPT ![t] = [pc |-> pc, msg |-> msg, cidx |-> cidx]],
           ThreadOK([pc |-> pc, msg |-> msg, cidx |-> cidx]),
           clientMap' \in [CIdx -> Addr \cup {None}],
           \A i \in CIdx : clientMap'[i] = clientMap[i]
                             \/ (Reaches(clientMap'[i], i) /\ Recorded(clientMap'[i])),
           sessionLock' \in Ingress \cup {None}, heard' \in SUBSET CIdx
    PROVE  RoutingInv'
<1> USE DEF RoutingInv
<1>1. TypeOK'
  BY DEF TypeOK, world
<1>2. KeepsSessions /\ KeepsModes
  BY KeepsIfUnchanged, Zenon
<1>3. MapsInv'
  BY Zenon DEF MapsInv, Reaches, Recorded, Answers
<1>4. EgressInv' /\ NetInv' /\ ClientInv'
  BY <1>2, EgressKept, NetKept, ClientKept, Zenon DEF TypeOK
<1>5. IngressInv'
  <2>1. /\ \A u \in Ingress \ {t} : ingress'[u] = ingress[u]
        /\ ingress'[t] = [pc |-> pc, msg |-> msg, cidx |-> cidx]
    BY Zenon DEF TypeOK
  <2>2. ThreadOK(ingress[t])'
    BY <1>2, <2>1, ThreadKept, Zenon
  <2>3. QED
    BY <1>2, <2>1, <2>2, OthersKept, Zenon
<1>6. QED
  BY <1>1, <1>3, <1>4, <1>5, Zenon

\* Learning from a Type 1 keeps the invariant: its source belongs to the client
\* that drew the sender index, and its format is already on record.
LEMMA IngressLearnRouting ==
    ASSUME RoutingInv, NEW t \in Ingress, IngressLearn(t)
    PROVE  RoutingInv'
<1> USE DEF RoutingInv
<1>1. PICK r : r = ingress[t]
  BY Zenon
<1>2. ThreadOK(r) /\ r.pc = "client"
  BY <1>1, Zenon DEF IngressLearn, IngressInv
<1>3. /\ r.msg \in ToServer /\ r.msg.type = 1 /\ Genuine(r.msg)
      /\ Reaches(r.msg.src, r.msg.idx) /\ Recorded(r.msg.src)
  BY <1>2, GenuineShape, Zenon DEF ThreadOK
<1>4. /\ ingress' = [ingress EXCEPT ![t] = [pc |-> "forward", msg |-> r.msg, cidx |-> r.cidx]]
      /\ r.cidx \in CIdx \cup {None}
  <2>1. r.cidx \in CIdx \cup {None}
    BY <1>1, Zenon DEF TypeOK
  <2>2. [ingress[t] EXCEPT !.pc = "forward"] = [pc |-> "forward", msg |-> r.msg, cidx |-> r.cidx]
    BY <1>1 DEF TypeOK
  <2>3. ingress' = [ingress EXCEPT ![t] = [ingress[t] EXCEPT !.pc = "forward"]]
    BY Zenon DEF IngressLearn, TypeOK
  <2>4. QED
    BY <2>1, <2>2, <2>3, Zenon
<1>5. ThreadOK([pc |-> "forward", msg |-> r.msg, cidx |-> r.cidx])
  BY <1>3, Zenon DEF ThreadOK
<1>6. clientMap' = [clientMap EXCEPT ![r.msg.idx] = r.msg.src]
  BY <1>1, Zenon DEF IngressLearn
<1>7. /\ clientMap' \in [CIdx -> Addr \cup {None}]
      /\ \A i \in CIdx : clientMap'[i] = clientMap[i]
                           \/ (Reaches(clientMap'[i], i) /\ Recorded(clientMap'[i]))
  <2>1. r.msg.idx \in CIdx /\ r.msg.src \in Addr
    BY <1>3, Zenon DEF Reaches
  <2>2. \A i \in CIdx : i # r.msg.idx => clientMap'[i] = clientMap[i]
    BY <1>6, Zenon DEF TypeOK
  <2>3. clientMap'[r.msg.idx] = r.msg.src
    BY <1>6, <2>1, Zenon DEF TypeOK
  <2>4. clientMap' \in [CIdx -> Addr \cup {None}]
    BY <1>6, <2>1, Zenon DEF TypeOK
  <2>5. QED
    BY <1>3, <2>2, <2>3, <2>4, Zenon DEF Reaches, Recorded
<1>8. UNCHANGED <<sessionMap, clientObfs, sessionLock, egress, net, toClients, world,
                  wireguard, sOwner, heard, restarts>>
  BY Zenon DEF IngressLearn, wireguard
<1>9. QED
  BY <1>3, <1>4, <1>5, <1>7, <1>8, LearningRouting, Zenon DEF TypeOK

\* Resolving a Type 4's session keeps the invariant: session_map has the client
\* index the session was created for.
LEMMA IngressSessionRouting ==
    ASSUME RoutingInv, NEW t \in Ingress, IngressSession(t)
    PROVE  RoutingInv'
<1> USE DEF RoutingInv
<1>1. PICK r : r = ingress[t]
  OBVIOUS
<1>2. ThreadOK(r) /\ r.pc = "session"
  BY <1>1, Zenon DEF IngressSession, IngressInv
<1>3. r.msg \in ToServer /\ r.msg.type = 4 /\ r.msg.idx \in SIdx /\ Genuine(r.msg) /\ Recorded(r.msg.src)
  BY <1>2, GenuineShape, Zenon DEF ThreadOK
<1>4. UNCHANGED <<clientMap, sessionMap, clientObfs, egress, net, toClients, world,
                  wireguard, sOwner, heard, restarts>>
  BY Zenon DEF IngressSession, wireguard
<1>5. /\ clientMap' \in [CIdx -> Addr \cup {None}]
      /\ \A i \in CIdx : clientMap'[i] = clientMap[i]
                           \/ (Reaches(clientMap'[i], i) /\ Recorded(clientMap'[i]))
  BY <1>4, Zenon DEF TypeOK
<1>6. r.cidx \in CIdx \cup {None}
  BY <1>1 DEF TypeOK
<1>7. PICK i \in CIdx \cup {None} : i = sessionMap[r.msg.idx]
  BY <1>3, Zenon DEF TypeOK
<1>8. CASE i = None
  <2>1. /\ ingress' = [ingress EXCEPT ![t] = [pc |-> "forward", msg |-> r.msg, cidx |-> r.cidx]]
        /\ sessionLock' \in Ingress \cup {None}
    BY <1>1, <1>7, <1>8 DEF IngressSession, TypeOK
  <2>2. ThreadOK([pc |-> "forward", msg |-> r.msg, cidx |-> r.cidx])
    BY <1>3, Zenon DEF ThreadOK
  <2>3. QED
    BY <1>3, <1>4, <1>5, <1>6, <2>1, <2>2, LearningRouting, Zenon DEF TypeOK
<1>9. CASE i # None
  <2>1. /\ ingress' = [ingress EXCEPT ![t] = [pc |-> "bridge", msg |-> r.msg, cidx |-> i]]
        /\ sessionLock' \in Ingress \cup {None}
    BY <1>1, <1>7, <1>9 DEF IngressSession, TypeOK
  <2>2. Answers(r.msg.idx, i)
    BY <1>3, <1>7, <1>9, Zenon DEF MapsInv
  <2>3. ThreadOK([pc |-> "bridge", msg |-> r.msg, cidx |-> i])
    BY <1>3, <2>2, Zenon DEF ThreadOK
  <2>4. QED
    BY <1>3, <1>4, <1>5, <2>1, <2>3, LearningRouting, Zenon DEF TypeOK
<1>10. QED
  BY <1>8, <1>9, Zenon

\* Bridging a Type 4 to its client keeps the invariant: the packet's source
\* belongs to the client the session was created for.
LEMMA IngressBridgeRouting ==
    ASSUME RoutingInv, NEW t \in Ingress, IngressBridge(t)
    PROVE  RoutingInv'
<1> USE DEF RoutingInv
<1>1. PICK r : r = ingress[t]
  OBVIOUS
<1>2. ThreadOK(r) /\ r.pc = "bridge"
  BY <1>1, Zenon DEF IngressBridge, IngressInv
<1>3. /\ r.msg \in ToServer /\ Genuine(r.msg) /\ Recorded(r.msg.src)
      /\ r.cidx \in CIdx /\ Reaches(r.msg.src, r.cidx)
  BY <1>2, GenuineShape, Zenon DEF ThreadOK, Answers
<1>4. ingress' = [ingress EXCEPT ![t] = [pc |-> "forward", msg |-> r.msg, cidx |-> r.cidx]]
  <2>1. [ingress[t] EXCEPT !.pc = "forward"] = [pc |-> "forward", msg |-> r.msg, cidx |-> r.cidx]
    BY <1>1 DEF TypeOK
  <2>2. ingress' = [ingress EXCEPT ![t] = [ingress[t] EXCEPT !.pc = "forward"]]
    BY Zenon DEF IngressBridge, TypeOK
  <2>3. QED
    BY <2>1, <2>2, Zenon
<1>5. ThreadOK([pc |-> "forward", msg |-> r.msg, cidx |-> r.cidx])
  BY <1>3, Zenon DEF ThreadOK
<1>6. clientMap' = [clientMap EXCEPT ![r.cidx] = r.msg.src]
  BY <1>1, Zenon DEF IngressBridge
<1>7. /\ clientMap' \in [CIdx -> Addr \cup {None}]
      /\ \A i \in CIdx : clientMap'[i] = clientMap[i]
                           \/ (Reaches(clientMap'[i], i) /\ Recorded(clientMap'[i]))
  BY <1>3, <1>6, Zenon DEF Reaches, TypeOK
<1>8. /\ UNCHANGED <<sessionMap, clientObfs, egress, net, toClients, world, wireguard, restarts>>
      /\ UNCHANGED <<sOwner, heard>>
      /\ sessionLock' = None
  BY Zenon DEF IngressBridge, wireguard
<1>9. QED
  BY <1>3, <1>4, <1>5, <1>7, <1>8, LearningRouting, Zenon DEF TypeOK

\* Handing a packet to WireGuard keeps the invariant.
LEMMA IngressForwardRouting ==
    ASSUME RoutingInv, NEW t \in Ingress, IngressForward(t)
    PROVE  RoutingInv'
<1> USE DEF RoutingInv
<1>1. PICK m : m = ingress[t].msg
  OBVIOUS
<1>2. Genuine(m)
  BY <1>1, Zenon DEF IngressForward, IngressInv, ThreadOK
<1>3. heard' \in SUBSET CIdx
  <2>1. heard' = IF m.type = 1 THEN heard \cup {m.idx} ELSE heard
    BY <1>1, Zenon DEF IngressForward
  <2>2. m.type = 1 => m.idx \in CIdx
    BY <1>2, GenuineShape, Zenon
  <2>3. heard \in SUBSET CIdx
    BY Zenon DEF TypeOK
  <2>4. QED
    BY <2>1, <2>2, <2>3, Zenon
<1>4. /\ UNCHANGED <<clientMap, sessionMap, clientObfs, sessionLock, egress, net>>
      /\ UNCHANGED <<toClients, world, sOwner, restarts>>
      /\ ingress' = [ingress EXCEPT ![t] = [pc |-> "idle", msg |-> NoMsg, cidx |-> None]]
  BY Zenon DEF IngressForward, IdleIngress, maps
<1>5. /\ clientMap' \in [CIdx -> Addr \cup {None}]
      /\ \A i \in CIdx : clientMap'[i] = clientMap[i]
                           \/ (Reaches(clientMap'[i], i) /\ Recorded(clientMap'[i]))
  BY <1>4, Zenon DEF TypeOK
<1>6. ThreadOK([pc |-> "idle", msg |-> NoMsg, cidx |-> None])
  BY Zenon DEF ThreadOK
<1>7. sessionLock' \in Ingress \cup {None}
  BY <1>4, Zenon DEF TypeOK
<1>8. QED
  BY <1>3, <1>4, <1>5, <1>6, <1>7, LearningRouting, Zenon

\* A restart empties the maps and the threads; what is in flight stays genuine.
LEMMA RestartRouting == RoutingInv /\ Restart => RoutingInv'
<1> SUFFICES ASSUME RoutingInv, Restart PROVE RoutingInv'
  OBVIOUS
<1> USE DEF RoutingInv
<1>1. TypeOK'
  <2>1. /\ clientMap' \in [CIdx -> Addr \cup {None}]
        /\ sessionMap' \in [SIdx -> CIdx \cup {None}]
        /\ clientObfs' \in [Addr -> Mode \cup {None}]
    BY Zenon DEF Restart, NoClients, NoSessions, NoModes
  <2>2. /\ egress' = IdleEgress /\ ingress' = [t \in Ingress |-> IdleIngress]
        /\ sessionLock' = None /\ restarts' = restarts + 1
        /\ UNCHANGED <<net, toClients, where, known, heard, sOwner>>
    BY Zenon DEF Restart, world, wireguard
  <2>3. /\ egress' \in [pc : {"idle", "session", "client", "send", "panicked"},
                        pkt : FromWg \cup {NoPkt}, dest : Addr \cup {None}]
        /\ ingress' \in [Ingress -> [pc : {"idle", "obfs", "client", "session", "bridge", "forward"},
                                     msg : ToServer \cup {NoMsg}, cidx : CIdx \cup {None}]]
    BY <2>2, Zenon DEF IdleEgress, IdleIngress
  <2>4. QED
    BY <2>1, <2>2, <2>3 DEF TypeOK
<1>2. MapsInv'
  BY Zenon DEF Restart, MapsInv, NoClients, NoSessions, NoModes
<1>3. EgressInv' /\ IngressInv'
  BY Zenon DEF Restart, EgressInv, IngressInv, ThreadOK, IdleEgress, IdleIngress
<1>4. KeepsSessions
  <2>1. sOwner' = sOwner /\ restarts' = restarts + 1 /\ restarts \in Nat
    BY Zenon DEF Restart, TypeOK, wireguard
  <2>2. QED
    BY <2>1 DEF KeepsSessions
<1>5. NetInv' /\ ClientInv'
  BY <1>4, NetKept, ClientKept, Zenon DEF Restart, TypeOK
<1>6. QED
  BY <1>1, <1>2, <1>3, <1>5, Zenon

\* What a client sends is genuine: it sends from its own address, with its own
\* index or in a session it was told of.
LEMMA ClientSendRouting ==
    ASSUME RoutingInv,
           \/ \E c \in Client, i \in CIdx : ClientInit(c, i)
           \/ \E c \in Client, s \in SIdx, ka \in BOOLEAN : ClientData(c, s, ka)
    PROVE  RoutingInv'
<1> USE DEF RoutingInv
<1>1. ASSUME NEW m \in ToServer, Genuine(m), net' = net \cup {m},
             UNCHANGED <<Server, toClients, world, wireguard>>
      PROVE  RoutingInv'
  <2>1. TypeOK'
    BY <1>1, Zenon DEF TypeOK, Server, maps, world, wireguard
  <2>2. UNCHANGED <<clientMap, sessionMap, clientObfs, egress, ingress, toClients, world,
                    sOwner, restarts>>
    BY <1>1, Zenon DEF Server, maps, wireguard
  <2>3. KeepsSessions /\ KeepsModes
    BY <2>2, KeepsIfUnchanged, Zenon
  <2>4. MapsInv' /\ EgressInv' /\ IngressInv' /\ ClientInv'
    BY <2>2, <2>3, MapsKept, EgressKept, IngressKept, ClientKept, Zenon DEF TypeOK
  <2>5. NetInv'
    BY <1>1, <2>2, Zenon DEF NetInv, Genuine, Reaches, Answers
  <2>6. QED
    BY <2>1, <2>4, <2>5, Zenon
<1>2. ASSUME NEW c \in Client, NEW i \in CIdx, ClientInit(c, i) PROVE RoutingInv'
  <2> DEFINE m == [type |-> 1, ka |-> FALSE, idx |-> i, src |-> where[c]]
  <2>1. m \in ToServer
    BY Zenon DEF ToServer, TypeOK
  <2>2. Genuine(m)
    BY <1>2, <2>1, Zenon DEF Genuine, Reaches, ClientInit, ClientInv, TypeOK
  <2>3. QED
    BY <1>1, <1>2, <2>1, <2>2, Zenon DEF ClientInit, SendToServer
<1>3. ASSUME NEW c \in Client, NEW s \in SIdx, NEW ka \in BOOLEAN, ClientData(c, s, ka)
      PROVE RoutingInv'
  <2> DEFINE m == [type |-> 4, ka |-> ka, idx |-> s, src |-> where[c]]
  <2>1. m \in ToServer
    BY Zenon DEF ToServer, TypeOK
  <2>2. Genuine(m)
    BY <1>3, <2>1, Zenon DEF Genuine, Reaches, Answers, ClientData, ClientInv, TypeOK
  <2>3. QED
    BY <1>1, <1>3, <2>1, <2>2, Zenon DEF ClientData, SendToServer
<1>4. QED
  BY <1>2, <1>3, Zenon

\* A client that hears of a session hears of one of its own.
LEMMA ClientRecvRouting ==
    ASSUME RoutingInv, NEW p \in toClients, ClientRecv(p)
    PROVE  RoutingInv'
<1> USE DEF RoutingInv
<1>1. /\ UNCHANGED <<Server, maps, clientMap, sessionMap, clientObfs, egress, ingress>>
      /\ UNCHANGED <<restarts, net, where, wireguard, sOwner>>
      /\ toClients' \subseteq toClients
  BY Zenon DEF ClientRecv, Server, maps, wireguard
<1>2. /\ Reaches(p.to, p.i)
      /\ p.type = 2 => Answers(p.s, p.i) /\ (restarts = 0 => sessionMap[p.s] # None)
  BY Zenon DEF NetInv
<1>3. \A c \in Client : known'[c] = IF p.type = 2 /\ where[c] = p.to /\ OwnerOf[p.i] = c
                                      THEN known[c] \cup {p.s} ELSE known[c]
  BY Zenon DEF ClientRecv
<1>4. known' \in [Client -> SUBSET SIdx]
  BY <1>2, <1>3 DEF ClientRecv, Answers, TypeOK
<1>5. TypeOK'
  BY <1>1, <1>4, Zenon DEF TypeOK, Server, maps, wireguard
<1>6. KeepsSessions /\ KeepsModes
  BY <1>1, KeepsIfUnchanged, Zenon
<1>7. MapsInv' /\ EgressInv' /\ IngressInv' /\ NetInv'
  BY <1>1, <1>6, MapsKept, EgressKept, IngressKept, NetKept, Zenon
<1>8. ClientInv'
  <2>1. ASSUME NEW c \in Client, NEW s \in known'[c]
        PROVE  sOwner[s] \in CIdx /\ OwnerOf[sOwner[s]] = c /\ (restarts = 0 => sessionMap[s] # None)
    <3>1. CASE s \in known[c]
      BY <3>1, Zenon DEF ClientInv
    <3>2. CASE s \notin known[c]
      <4> DEFINE told == p.type = 2 /\ where[c] = p.to /\ OwnerOf[p.i] = c
      <4>1. known'[c] = (IF told THEN known[c] \cup {p.s} ELSE known[c])
        BY <1>3, Zenon
      <4> HIDE DEF told
      <4>2. told /\ s = p.s
        BY <4>1, <3>2, Zenon
      <4>3. p.type = 2 /\ s = p.s /\ OwnerOf[p.i] = c
        BY <4>2, Zenon DEF told
      <4>4. QED
        BY <1>2, <4>3, Zenon DEF Answers
    <3>3. QED
      BY <3>1, <3>2, Zenon
  <2>2. QED
    BY <1>1, <2>1, Zenon DEF ClientInv
<1>9. QED
  BY <1>5, <1>7, <1>8, Zenon

\* Moving, losing a datagram and standing still keep the invariant.
LEMMA QuietRouting ==
    ASSUME RoutingInv,
           \/ \E c \in Client, a \in Addr : Roam(c, a)
           \/ \E m \in net : Lose(m)
           \/ UNCHANGED vars
    PROVE  RoutingInv'
<1> USE DEF RoutingInv
<1>1. /\ UNCHANGED <<Server, toClients, known, wireguard>>
      /\ net' \subseteq net
  BY Zenon DEF Roam, Lose, vars, world, Server
<1>2. where' \in [Client -> Addr] /\ \A c \in Client : OwnerOf[where'[c]] = c
  <2>1. where \in [Client -> Addr] /\ \A c \in Client : OwnerOf[where[c]] = c
    BY Zenon DEF ClientInv, TypeOK
  <2>2. \/ where' = where
        \/ \E c \in Client, a \in Addr : OwnerOf[a] = c /\ where' = [where EXCEPT ![c] = a]
    BY Zenon DEF Roam, Lose, vars, world
  <2>3. QED
    BY <2>1, <2>2, Zenon
<1>3. TypeOK'
  BY <1>1, <1>2, Zenon DEF TypeOK, Server, maps, wireguard
<1>4. UNCHANGED <<clientMap, sessionMap, clientObfs, egress, ingress, known, sOwner, restarts>>
  BY <1>1, Zenon DEF Server, maps, wireguard
<1>5. KeepsSessions /\ KeepsModes
  BY <1>4, KeepsIfUnchanged, Zenon
<1>6. MapsInv' /\ EgressInv' /\ IngressInv' /\ NetInv'
  BY <1>1, <1>4, <1>5, MapsKept, EgressKept, IngressKept, NetKept, Zenon
<1>7. ClientInv'
  BY <1>2, <1>4, Zenon DEF ClientInv
<1>8. QED
  BY <1>3, <1>6, <1>7, Zenon

\* Every step of the threads, the clients, the network and WireGuard keeps the
\* invariant.
LEMMA RoutingNext == RoutingInv /\ [Next]_vars => RoutingInv'
<1> SUFFICES ASSUME RoutingInv, [Next]_vars PROVE RoutingInv'
  BY Zenon
<1>1. CASE EgressStep
  BY <1>1, EgressSessionRouting, EgressClientRouting, EgressSendRouting, Zenon DEF EgressStep
<1>2. CASE \E t \in Ingress : IngressStep(t)
  BY <1>2, IngressObfsRouting, IngressLearnRouting, IngressSessionRouting,
     IngressBridgeRouting, IngressForwardRouting, Zenon DEF IngressStep
<1>3. CASE \E t \in Ingress, m \in net, dup \in BOOLEAN : IngressRecv(t, m, dup)
  BY <1>3, IngressRecvRouting, Zenon
<1>4. CASE Restart
  BY <1>4, RestartRouting, Zenon
<1>5. CASE \/ \E c \in Client, i \in CIdx : ClientInit(c, i)
           \/ \E c \in Client, s \in SIdx, ka \in BOOLEAN : ClientData(c, s, ka)
  BY <1>5, ClientSendRouting, Zenon
<1>6. CASE \E p \in toClients : ClientRecv(p)
  BY <1>6, ClientRecvRouting, Zenon
<1>7. CASE \/ \E c \in Client, a \in Addr : Roam(c, a)
           \/ \E m \in net : Lose(m)
           \/ UNCHANGED vars
  BY <1>7, QuietRouting, Zenon
<1>8. CASE \/ \E i \in CIdx, s \in SIdx : WgRespond(i, s)
           \/ \E i \in CIdx : WgCookie(i)
           \/ \E s \in SIdx, ka \in BOOLEAN : WgData(s, ka)
           \/ \E s \in SIdx : WgRekey(s)
  BY <1>8, WgRouting, Zenon
<1>9. QED
  BY <1>1, <1>2, <1>3, <1>4, <1>5, <1>6, <1>7, <1>8, Zenon DEF Next

\* The routing invariant holds in every state of the dynamic-peer server.
THEOREM RoutingInvariant == Spec => []RoutingInv
BY RoutingInit, RoutingNext, PTL DEF Spec

\* Type correctness of the three maps, the threads and the packets in flight.
THEOREM TypeCorrect == Spec => []TypeOK
<1>1. RoutingInv => TypeOK
  BY Zenon DEF RoutingInv
<1>2. QED
  BY <1>1, RoutingInvariant, PTL

\* No packet is ever sent to an address of another client, for any number of
\* clients, sessions and ingress threads and through any roaming and restarting.
THEOREM NoMisrouting == Spec => []RightClient
<1>1. RoutingInv => RightClient
  BY Zenon DEF RoutingInv, NetInv, Reaches, RightClient
<1>2. QED
  BY <1>1, RoutingInvariant, PTL

\* No packet is ever sent in a wire format its receiver does not speak: recording
\* the format in client_obfs before learning the address is enough.
THEOREM RepliesAreUnderstood == Spec => []ReplyInClientMode
<1>1. RoutingInv => ReplyInClientMode
  BY Zenon DEF RoutingInv, NetInv, ReplyInClientMode
<1>2. QED
  BY <1>1, RoutingInvariant, PTL

\* Until a restart, session_map resolves every session a client knows of.
THEOREM SessionsResolve == Spec => []AnnouncedSessionsResolve
<1>1. ASSUME RoutingInv PROVE AnnouncedSessionsResolve
  <2>1. ASSUME NEW c \in Client, NEW s \in known[c], restarts = 0
        PROVE  sessionMap[s] # None /\ sessionMap[s] = sOwner[s]
    <3>1. s \in SIdx
      BY <1>1, Zenon DEF RoutingInv, TypeOK
    <3>2. sessionMap[s] # None
      BY <1>1, <2>1, Zenon DEF RoutingInv, ClientInv
    <3>3. QED
      BY <1>1, <3>1, <3>2, Zenon DEF RoutingInv, MapsInv, Answers
  <2>2. QED
    BY <2>1, Zenon DEF AnnouncedSessionsResolve
<1>2. QED
  BY <1>1, RoutingInvariant, PTL

\* The egress thread panics on media for a SIP client only, and only if the peer is
\* configured with more ports than the server listens on.  With lists of equal
\* length, the default, it never does.
THEOREM PanicsOnLongerPeerPortsOnly == Spec => []PanicsPastPortsOnly
<1>1. NumPorts \in Nat \ {0} /\ NumPeerPorts \in Nat \ {0}
  BY BoundAssumption, Zenon
<1>a. IdleEgress.pc # "panicked"
  BY DEF IdleEgress
<1>2. Init => PanicsPastPortsOnly
  BY <1>a, Zenon DEF Init, PanicsPastPortsOnly
<1>3. PanicsPastPortsOnly /\ RoutingInv /\ [Next]_vars => PanicsPastPortsOnly'
  <2> SUFFICES ASSUME PanicsPastPortsOnly, RoutingInv, [Next]_vars, egress'.pc = "panicked"
               PROVE  /\ NumPeerPorts > NumPorts
                      /\ IsMedia(egress'.pkt) /\ ReplyMode(egress.dest)' = "sip"
    BY Zenon DEF PanicsPastPortsOnly
  <2>1. egress = [pc |-> egress.pc, pkt |-> egress.pkt, dest |-> egress.dest]
    BY Zenon DEF RoutingInv, TypeOK
  <2>2. ASSUME egress' = egress, clientObfs' = clientObfs
        PROVE  /\ NumPeerPorts > NumPorts
               /\ IsMedia(egress'.pkt) /\ ReplyMode(egress.dest)' = "sip"
    <3>1. ReplyMode(egress.dest)' = ReplyMode(egress.dest)
      BY <2>2, Zenon DEF ReplyMode
    <3>2. QED
      BY <2>2, <3>1, Zenon DEF PanicsPastPortsOnly
  <2>3. ~EgressSession
    BY <2>1, Zenon DEF EgressSession
  <2>4. ~EgressClient
    <3> SUFFICES ASSUME EgressClient PROVE FALSE
      BY Zenon
    <3>1. egress' = IdleEgress \/ egress'.pc = "send"
      BY <2>1, Zenon DEF EgressClient
    <3>2. QED
      BY <1>a, <3>1
  <2>5. ASSUME NEW sock \in 0 .. NumPeerPorts, EgressSend(sock)
        PROVE  /\ NumPeerPorts > NumPorts
               /\ IsMedia(egress'.pkt) /\ ReplyMode(egress.dest)' = "sip"
    <3>1. /\ sock \in SocketsFor(ReplyMode(egress.dest), egress.pkt)
          /\ ~(sock < NumPorts) /\ egress' = [egress EXCEPT !.pc = "panicked"]
      <4>1. CASE sock < NumPorts
        <5>1. egress' = IdleEgress
          BY <2>5, <4>1, Zenon DEF EgressSend
        <5>2. QED
          BY <1>a, <5>1, Zenon
      <4>2. CASE ~(sock < NumPorts)
        BY <2>5, <4>2, Zenon DEF EgressSend
      <4>3. QED
        BY <4>1, <4>2, Zenon
    <3>2. egress'.pkt = egress.pkt /\ egress'.dest = egress.dest
      BY <2>1, <3>1, Zenon
    <3>3. clientObfs' = clientObfs
      BY <2>5, Zenon DEF EgressSend, maps
    <3>4. sock # 0
      BY <1>1, <3>1
    <3>5. /\ ReplyMode(egress.dest) = "sip" /\ IsMedia(egress.pkt)
          /\ sock \in 1 .. (NumPeerPorts - 1)
      BY <3>1, <3>4, Zenon DEF SocketsFor
    <3>6. NumPeerPorts > NumPorts
      BY <1>1, <3>1, <3>5
    <3>7. ReplyMode(egress.dest)' = ReplyMode(egress.dest)
      BY <3>2, <3>3, Zenon DEF ReplyMode
    <3>8. QED
      BY <3>2, <3>5, <3>6, <3>7, Zenon
  <2>6. ASSUME NEW t \in Ingress, IngressStep(t)
        PROVE  /\ NumPeerPorts > NumPorts
               /\ IsMedia(egress'.pkt) /\ ReplyMode(egress.dest)' = "sip"
    BY <2>6, Zenon
    DEF IngressStep, IngressObfs, IngressLearn, IngressSession, IngressBridge, IngressForward, Alive
  <2>7. ASSUME NEW p PROVE ~EgressRecv(p)
    <3> SUFFICES ASSUME EgressRecv(p) PROVE FALSE
      BY Zenon
    <3>1. egress' = IdleEgress \/ egress'.pc = "session" \/ egress'.pc = "client"
      BY Zenon DEF EgressRecv
    <3>2. QED
      BY <1>a, <3>1
  <2>8. /\ \A i \in CIdx, s \in SIdx : ~WgRespond(i, s)
        /\ \A i \in CIdx : ~WgCookie(i)
        /\ \A s \in SIdx, ka \in BOOLEAN : ~WgData(s, ka)
        /\ \A s \in SIdx : ~WgRekey(s)
    BY <2>7, Zenon DEF WgRespond, WgCookie, WgData, WgRekey
  <2>9. CASE \/ \E t \in Ingress, m \in net, dup \in BOOLEAN : IngressRecv(t, m, dup)
             \/ \E c \in Client, i \in CIdx : ClientInit(c, i)
             \/ \E c \in Client, s \in SIdx, ka \in BOOLEAN : ClientData(c, s, ka)
             \/ \E p \in toClients : ClientRecv(p)
             \/ \E c \in Client, a \in Addr : Roam(c, a)
             \/ \E m \in net : Lose(m)
             \/ UNCHANGED vars
    <3>1. egress' = egress /\ clientObfs' = clientObfs
      BY <2>9, Zenon
      DEF IngressRecv, ClientInit, ClientData, ClientRecv, Roam, Lose, Server, vars, maps
    <3>2. QED
      BY <3>1, <2>2, Zenon
  <2>10. ~Restart
    BY <1>a, Zenon DEF Restart
  <2>11. QED
    BY <2>3, <2>4, <2>5, <2>6, <2>8, <2>9, <2>10, Zenon DEF Next, EgressStep
<1>4. QED
  BY <1>2, <1>3, RoutingInvariant, PTL DEF Spec
=============================================================================
