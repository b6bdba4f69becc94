---------------------------- MODULE ConfigProofs ----------------------------
(***************************************************************************)
(* The properties of Config for any sections, values of outer_mtu and      *)
(* sizes of a file.                                                        *)
(***************************************************************************)
EXTENDS Config, TLAPS

\* The values of outer_mtu, and the one without a [global] section.
AnyMtu == OuterMtus \union {1500}

\* What the two readers can make of a section.
Built ==
  ({build(b, m, i) : b \in Blocks, m \in AnyMtu, i \in Nat}
   \union {load_config_from_env(b, m) : b \in Blocks, m \in OuterMtus}) \ {Err}

\* The values of the variables: finished peers come from sections and are no
\* errors.
TypeOK ==
  /\ pc \in {"start", "parse", "checked", "loaded", "exit"}
  /\ outer_mtu \in AnyMtu
  /\ builder \in Blocks \union {None}
  /\ peers \in Seq(Built)
  /\ blocks \in Seq(Blocks)
  /\ late \in BOOLEAN
  /\ served \in Seq(SUBSET Nat)

\* The first peers, as many as are served, own the ports of the map.
Registered ==
  /\ Len(served) <= Len(peers)
  /\ \A i \in 1..Len(served) :
       /\ served[i] = Range(from_config(peers[i]))
       /\ \A port \in Ports(peers[i]) : port \in DOMAIN port_map /\ port_map[port] = i - 1
  /\ \A port \in DOMAIN port_map : \E i \in 1..Len(served) : port \in Ports(peers[i])

LoadInv ==
  /\ pc \notin {"checked", "loaded"} => served = <<>> /\ port_map = <<>>
  /\ pc \in {"checked", "loaded"} => ~PortsClash(peers) /\ Registered
  /\ pc = "loaded" => Len(served) = Len(peers)

MtuInv ==
  /\ pc = "start" => peers = <<>>
  /\ ~late => \A i \in DOMAIN peers : peers[i].outer_mtu = outer_mtu

\* A peer that the parser made of section b is the environment's.
SamePeer(b, m, ps) ==
  LET env == load_config_from_env(b, m) IN
    /\ Len(ps) = 1 /\ env # Err
    /\ [ps[1] EXCEPT !.sip_domain = None] = [env EXCEPT !.sip_domain = None]
    /\ b.sip_domain # None => ps[1].sip_domain = env.sip_domain

\* Up to the first section nothing is read, and after it that one is the builder.
FirstInv ==
  /\ pc = "start" \/ (pc = "parse" /\ blocks = <<>>) =>
       blocks = <<>> /\ builder = None /\ peers = <<>>
  /\ pc = "parse" /\ Len(blocks) = 1 =>
       builder = blocks[1] /\ peers = <<>> /\ ~ParseError(blocks[1])
  /\ EnvAgrees

(***************************************************************************)
(* The readers.                                                            *)
(***************************************************************************)
\* A key that was read is no error, whatever it was read from.
LEMMA KeyOrError ==
  \A x : derive_key(x) # Err /\ (x # "short" => parse_hex_key(x) # Err)
<1>1. \A x : [derived |-> x] # [err |-> TRUE] /\ [key |-> x] # [err |-> TRUE]
  <2> TAKE x
  <2>1. "err" \notin DOMAIN [derived |-> x] /\ "err" \notin DOMAIN [key |-> x]
    BY Zenon
  <2>2. "err" \in DOMAIN [err |-> TRUE]
    BY Zenon
  <2>3. QED  BY <2>1, <2>2, Zenon
<1>2. QED  BY <1>1, Zenon DEF derive_key, parse_hex_key, Err

\* build and load_config_from_env give the same answer for the first section of
\* a file, and what the parser refuses the environment refuses: the peers are
\* equal but for a sip_domain that is not given.
THEOREM ReadersAgree ==
  ASSUME NEW b \in Blocks, NEW m, Or(b.keepalive, 0) <= 100
  PROVE  LET file == build(b, m, 0)
             env  == load_config_from_env(b, m)
         IN  /\ ParseError(b) => env = Err
             /\ ~ParseError(b) /\ env = Err => file = Err
             /\ ~ParseError(b) /\ env # Err =>
                  /\ file # Err
                  /\ [file EXCEPT !.sip_domain = None] = [env EXCEPT !.sip_domain = None]
                  /\ b.sip_domain # None => file.sip_domain = env.sip_domain
<1> DEFINE file == build(b, m, 0)
           env  == load_config_from_env(b, m)
<1>1. b.keepalive # None => ~(b.keepalive > 100)
  BY BlocksAssumption DEF Or
<1>2. ParseError(b) => env = Err
  BY <1>1, Zenon DEF ParseError, load_config_from_env, EnvKey
<1>3. ASSUME ~ParseError(b)
      PROVE  /\ env = Err => file = Err
             /\ env # Err =>
                  /\ file # Err
                  /\ [file EXCEPT !.sip_domain = None] = [env EXCEPT !.sip_domain = None]
                  /\ b.sip_domain # None => file.sip_domain = env.sip_domain
  <2> DEFINE role == responder(b, b.peer_ip = "dynamic")
             key  == IF b.key # None THEN parse_hex_key(b.key) ELSE derive_key(b.passphrase)
             refused == \/ b.peer_ip = None \/ b.ports = None
                        \/ b.obfs = "sip" /\ Len(Or(b.peer_ports, b.ports)) < 2
                        \/ b.key = None /\ b.passphrase = None
             peer(s) == [name |-> Or(b.name, "gut0"), address |-> Or(b.address, IF role THEN 1 ELSE 2),
                         dynamic |-> b.peer_ip = "dynamic", responder |-> role, ports |-> b.ports,
                         peer_ports |-> Or(b.peer_ports, b.ports), key |-> key,
                         keepalive |-> Or(b.keepalive, 30), obfs |-> Or(b.obfs, "gut"),
                         outer_mtu |-> m, sip_domain |-> s]
  <2>1. /\ ~(b.ports # None /\ \E i \in DOMAIN b.ports : b.ports[i] = 0)
        /\ EnvKey(b) = Err <=> b.key = None /\ b.passphrase = None
        /\ EnvKey(b) # Err => EnvKey(b) = key
    BY <1>3, KeyOrError, Zenon DEF ParseError, EnvKey
  <2>2. 0 * 4 + 1 = 1 /\ 0 * 4 + 2 = 2
    OBVIOUS
  <2>3. file = IF refused THEN Err ELSE peer(Or(b.sip_domain, "127.0.0.1"))
    BY <2>2, Zenon DEF build
  <2>4. env = IF refused THEN Err ELSE peer(Or(b.sip_domain, "nginx"))
    BY <2>1, Zenon DEF load_config_from_env
  <2>5. \A s : peer(s) # Err /\ peer(s).sip_domain = s
    <3> TAKE s
    <3>1. "name" \in DOMAIN peer(s) /\ "name" \notin DOMAIN Err
      BY Zenon DEF Err
    <3>2. QED  BY <3>1, Zenon
  <2>6. \A s : [peer(s) EXCEPT !.sip_domain = None] = peer(None)
    <3> TAKE s
    <3>1. PICK n, a, d, r, po, pp, k, ka, o :
            /\ n = Or(b.name, "gut0") /\ a = Or(b.address, IF role THEN 1 ELSE 2)
            /\ d = (b.peer_ip = "dynamic") /\ r = role /\ po = b.ports
            /\ pp = Or(b.peer_ports, b.ports) /\ k = key
            /\ ka = Or(b.keepalive, 30) /\ o = Or(b.obfs, "gut")
      BY Zenon
    <3> DEFINE rec(x) ==
          [name |-> n, address |-> a, dynamic |-> d, responder |-> r, ports |-> po,
           peer_ports |-> pp, key |-> k, keepalive |-> ka, obfs |-> o, outer_mtu |-> m,
           sip_domain |-> x]
    <3>2. peer(s) = rec(s) /\ peer(None) = rec(None)
      BY <3>1, Zenon
    <3>3. [rec(s) EXCEPT !.sip_domain = None] = rec(None)
      OBVIOUS
    <3> HIDE DEF rec, peer
    <3>4. QED  BY <3>2, <3>3, Zenon
  <2>7. b.sip_domain # None => Or(b.sip_domain, "127.0.0.1") = Or(b.sip_domain, "nginx")
    BY Zenon DEF Or
  <2> HIDE DEF file, env, refused, peer
  <2>8. QED  BY <2>3, <2>4, <2>5, <2>6, <2>7, Zenon
<1>4. QED  BY <1>2, <1>3, Zenon

\* Where sip_domain is not given, a file and the environment that are accepted
\* give peers that present themselves under different names (config.rs:330 and
\* config.rs:478).
THEOREM SipDomainDefaultsDiffer ==
  ASSUME NEW b \in Blocks, NEW m, NEW i, b.sip_domain = None,
         build(b, m, i) # Err, load_config_from_env(b, m) # Err
  PROVE  /\ build(b, m, i).sip_domain = "127.0.0.1"
         /\ load_config_from_env(b, m).sip_domain = "nginx"
<1>1. Or(b.sip_domain, "127.0.0.1") = "127.0.0.1" /\ Or(b.sip_domain, "nginx") = "nginx"
  BY Zenon DEF Or
<1>2. build(b, m, i).sip_domain = "127.0.0.1"
  BY <1>1, Zenon DEF build
<1>3. load_config_from_env(b, m).sip_domain = "nginx"
  BY <1>1, Zenon DEF load_config_from_env
<1>4. QED  BY <1>2, <1>3, Zenon

\* A built peer keeps the ports of its section and takes the outer_mtu it is
\* given.
LEMMA BuiltFields ==
  ASSUME NEW b \in Blocks, NEW m, NEW i
  PROVE  /\ build(b, m, i) # Err =>
              build(b, m, i).ports \in Seq(Nat) /\ build(b, m, i).outer_mtu = m
         /\ load_config_from_env(b, m) # Err =>
              /\ load_config_from_env(b, m).ports \in Seq(Nat)
              /\ load_config_from_env(b, m).outer_mtu = m
<1>1. b.ports = None \/ b.ports \in Seq(Nat)  BY BlocksAssumption, Zenon
<1>2. build(b, m, i) # Err =>
        build(b, m, i).ports \in Seq(Nat) /\ build(b, m, i).outer_mtu = m
  BY <1>1, Zenon DEF build
<1>3. load_config_from_env(b, m) # Err =>
        /\ load_config_from_env(b, m).ports \in Seq(Nat)
        /\ load_config_from_env(b, m).outer_mtu = m
  BY <1>1, Zenon DEF load_config_from_env
<1>4. QED  BY <1>2, <1>3, Zenon

\* The ports of a finished peer are a list of numbers.
LEMMA PortsOfBuilt ==
  ASSUME NEW p \in Built
  PROVE  /\ p.ports \in Seq(Nat) /\ Ports(p) \subseteq Nat
         /\ from_config(p) \in Seq(Nat) /\ Range(from_config(p)) \subseteq Nat
<1>1. p.ports \in Seq(Nat)  BY BuiltFields DEF Built
<1>2. \A s \in Seq(Nat) : Range(s) \subseteq Nat  BY DEF Range
<1>3. from_config(p) \in Seq(Nat)  BY <1>1 DEF from_config, MAX_PORTS
<1>4. QED  BY <1>1, <1>2, <1>3, Zenon DEF Ports

\* Finishing a section adds no peer, one peer, or an error.
LEMMA Finalized ==
  ASSUME TypeOK
  PROVE  \/ builder = None /\ finalize_peer = <<>>
         \/ /\ builder \in Blocks
            /\ finalize_peer = <<build(builder, outer_mtu, Len(peers))>>
            /\ finalize_peer # <<Err>> => build(builder, outer_mtu, Len(peers)) \in Built
<1>1. CASE builder = None  BY <1>1, Zenon DEF finalize_peer
<1>2. CASE builder # None
  <2>1. builder \in Blocks /\ Len(peers) \in Nat  BY <1>2 DEF TypeOK
  <2>2. build(builder, outer_mtu, Len(peers)) # Err =>
          build(builder, outer_mtu, Len(peers)) \in Built
    <3>1. outer_mtu \in AnyMtu  BY Zenon DEF TypeOK
    <3> HIDE DEF TypeOK
    <3> DEFINE p == build(builder, outer_mtu, Len(peers))
    <3>2. \E b \in Blocks, m \in AnyMtu, i \in Nat : p = build(b, m, i)
      BY <2>1, <3>1, Zenon
    <3> HIDE DEF p
    <3>3. p # Err => p \in Built  BY <3>2 DEF Built
    <3>4. QED  BY <3>3, Zenon DEF p
  <2>3. QED  BY <1>2, <2>1, <2>2, Zenon DEF finalize_peer
<1>3. QED  BY <1>1, <1>2, Zenon

\* Appending what was finished, when it is no error.
LEMMA AppendFinalized ==
  ASSUME TypeOK, finalize_peer # <<Err>>
  PROVE  /\ peers \o finalize_peer \in Seq(Built)
         /\ \A i \in DOMAIN (peers \o finalize_peer) :
              \/ i \in DOMAIN peers /\ (peers \o finalize_peer)[i] = peers[i]
              \/ /\ builder \in Blocks
                 /\ (peers \o finalize_peer)[i] = build(builder, outer_mtu, Len(peers))
                 /\ build(builder, outer_mtu, Len(peers)) # Err
<1>1. peers \in Seq(Built)  BY Zenon DEF TypeOK
<1>2. CASE builder = None /\ finalize_peer = <<>>
  <2>1. peers \o <<>> = peers  BY <1>1
  <2>2. QED  BY <1>1, <1>2, <2>1, Zenon
<1>3. CASE /\ builder \in Blocks /\ build(builder, outer_mtu, Len(peers)) \in Built
           /\ finalize_peer = <<build(builder, outer_mtu, Len(peers))>>
  <2> DEFINE p == build(builder, outer_mtu, Len(peers))
             ps == peers \o <<p>>
  <2>1. p \in Built /\ p # Err  BY <1>3 DEF Built
  <2> HIDE DEF p
  <2>2. ps \in Seq(Built) /\ \A i \in DOMAIN ps : (i \in DOMAIN peers /\ ps[i] = peers[i]) \/ ps[i] = p
    BY <1>1, <2>1
  <2>3. QED  BY <1>3, <2>1, <2>2, Zenon DEF p
<1>4. QED  BY <1>2, <1>3, Finalized, Zenon

\* Every step keeps the types.
LEMMA TypeStep ==
  ASSUME TypeOK, [Next]_vars
  PROVE  TypeOK'
<1>1. CASE UNCHANGED vars  BY <1>1, Zenon DEF TypeOK, vars
<1>2. CASE StartFile \/ StartNone
  <2>1. /\ pc' \in {"parse", "exit"}
        /\ UNCHANGED <<outer_mtu, builder, peers, blocks, late, served>>
    BY <1>2, Zenon DEF StartFile, StartNone
  <2>2. QED  BY <2>1, Zenon DEF TypeOK
<1>3. CASE StartEnv
  <2> PICK b \in Blocks, m \in OuterMtus :
        /\ blocks' = <<b>> /\ outer_mtu' = m
        /\ peers' = IF load_config_from_env(b, m) = Err THEN <<>>
                    ELSE <<load_config_from_env(b, m)>>
        /\ pc' = IF load_config_from_env(b, m) = Err THEN "exit" ELSE "checked"
    BY <1>3, Zenon DEF StartEnv
  <2>1. load_config_from_env(b, m) # Err => load_config_from_env(b, m) \in Built  BY DEF Built
  <2>2. peers' \in Seq(Built)  BY <2>1
  <2>3. blocks' \in Seq(Blocks) /\ pc' \in {"checked", "exit"}
    OBVIOUS
  <2>4. outer_mtu' \in AnyMtu  BY DEF AnyMtu
  <2>5. UNCHANGED <<builder, late, served>>  BY <1>3, Zenon DEF StartEnv
  <2>6. QED  BY <2>2, <2>3, <2>4, <2>5, Zenon DEF TypeOK
<1>4. ASSUME NEW b \in Blocks, PeerSection(b) PROVE TypeOK'
  <2>1. blocks' \in Seq(Blocks)  BY <1>4 DEF PeerSection, TypeOK
  <2>2. peers' \in Seq(Built) /\ builder' \in Blocks \union {None}
        /\ pc' \in {"parse", "exit"}
    <3>1. \/ /\ pc' = "exit" /\ UNCHANGED <<builder, peers>>
          \/ /\ finalize_peer # <<Err>> /\ builder' = b /\ peers' = peers \o finalize_peer
             /\ pc' = "parse"
      BY <1>4, Zenon DEF PeerSection
    <3>2. /\ pc \in {"start", "parse", "checked", "loaded", "exit"} /\ builder \in Blocks \union {None}
          /\ peers \in Seq(Built)
      BY Zenon DEF TypeOK
    <3>3. peers' \in Seq(Built)  BY <3>1, <3>2, AppendFinalized, Zenon
    <3>4. QED  BY <1>4, <3>1, <3>2, <3>3, Zenon
  <2>3. QED  BY <1>4, <2>1, <2>2, Zenon DEF PeerSection, TypeOK
<1>5. ASSUME NEW m \in OuterMtus, GlobalSection(m) PROVE TypeOK'
  BY <1>5 DEF GlobalSection, TypeOK, AnyMtu
<1>6. CASE EndOfFile
  <2>1. peers' \in Seq(Built)
    <3>1. peers' = peers \/ (finalize_peer # <<Err>> /\ peers' = peers \o finalize_peer)
      BY <1>6, Zenon DEF EndOfFile
    <3>2. peers \in Seq(Built)  BY Zenon DEF TypeOK
    <3>3. QED  BY <3>1, <3>2, AppendFinalized, Zenon
  <2>2. QED  BY <1>6, <2>1, Zenon DEF EndOfFile, TypeOK
<1>7. CASE LoadPeer
  <2>1. Len(served) \in Nat /\ Len(peers) \in Nat /\ Len(served) < Len(peers)
    BY <1>7 DEF LoadPeer, TypeOK
  <2>2. peers[Len(served) + 1] \in Built  BY <2>1 DEF TypeOK
  <2>3. Range(from_config(peers[Len(served) + 1])) \in SUBSET Nat  BY <2>2, PortsOfBuilt, Zenon
  <2>4. served' \in Seq(SUBSET Nat)  BY <1>7, <2>3 DEF LoadPeer, TypeOK
  <2>5. QED  BY <1>7, <2>4, Zenon DEF LoadPeer, TypeOK
<1>8. QED  BY <1>1, <1>2, <1>3, <1>4, <1>5, <1>6, <1>7, Zenon DEF Next

\* Every finished peer was built from a section, and none is an error.
THEOREM TypeCorrect == Spec => []TypeOK
<1>1. Init => TypeOK
  <2>1. \A S : <<>> \in Seq(S)
    OBVIOUS
  <2>2. Init => peers \in Seq(Built) /\ blocks \in Seq(Blocks) /\ served \in Seq(SUBSET Nat)
    <3>1. Init => peers = <<>> /\ blocks = <<>> /\ served = <<>>  BY DEF Init
    <3>2. QED  BY <2>1, <3>1, Zenon
  <2>3. Init => outer_mtu \in AnyMtu  BY DEF Init, AnyMtu
  <2>4. Init => pc = "start" /\ builder = None /\ late = FALSE  BY DEF Init
  <2>5. QED  BY <2>2, <2>3, <2>4, Zenon DEF TypeOK
<1>2. TypeOK /\ [Next]_vars => TypeOK'  BY TypeStep, Zenon
<1>3. QED  BY <1>1, <1>2, PTL DEF Spec

(***************************************************************************)
(* outer_mtu.                                                              *)
(***************************************************************************)
\* A section finished now takes the outer_mtu read so far.
LEMMA FinalizedMtu ==
  ASSUME TypeOK, MtuInv, pc' # "start", UNCHANGED <<outer_mtu, late>>,
         peers' = peers \/ (finalize_peer # <<Err>> /\ peers' = peers \o finalize_peer)
  PROVE  MtuInv'
<1> SUFFICES ASSUME ~late, NEW i \in DOMAIN peers' PROVE peers'[i].outer_mtu = outer_mtu
  BY Zenon DEF MtuInv
<1>1. CASE peers' = peers  BY <1>1, Zenon DEF MtuInv
<1>2. CASE finalize_peer # <<Err>> /\ peers' = peers \o finalize_peer
  <2>1. \/ i \in DOMAIN peers /\ peers'[i] = peers[i]
        \/ /\ builder \in Blocks /\ peers'[i] = build(builder, outer_mtu, Len(peers))
           /\ build(builder, outer_mtu, Len(peers)) # Err
    BY <1>2, AppendFinalized, Zenon
  <2>2. QED  BY <2>1, BuiltFields DEF MtuInv
<1>3. QED  BY <1>1, <1>2, Zenon

\* Every step of the parser keeps what is known of the MTU of finished peers.
LEMMA MtuStep ==
  ASSUME TypeOK, MtuInv, [Next]_vars
  PROVE  MtuInv'
<1>1. CASE UNCHANGED <<pc, outer_mtu, peers, late>>  BY <1>1, Zenon DEF MtuInv
<1>2. CASE StartFile \/ StartNone
  <2>1. pc' # "start" /\ UNCHANGED <<outer_mtu, peers, late>>
    BY <1>2, Zenon DEF StartFile, StartNone
  <2>2. QED  BY <2>1, Zenon DEF MtuInv
<1>3. CASE StartEnv
  <2> PICK b \in Blocks, m \in OuterMtus :
        /\ outer_mtu' = m
        /\ peers' = IF load_config_from_env(b, m) = Err THEN <<>>
                    ELSE <<load_config_from_env(b, m)>>
        /\ pc' = IF load_config_from_env(b, m) = Err THEN "exit" ELSE "checked"
    BY <1>3, Zenon DEF StartEnv
  <2> DEFINE p == load_config_from_env(b, m)
  <2>1. p # Err => p.outer_mtu = m  BY BuiltFields, Zenon
  <2> HIDE DEF p
  <2>2. pc' # "start" /\ (peers' = <<>> \/ (p # Err /\ peers' = <<p>>))
    BY Zenon DEF p
  <2>3. \A i \in DOMAIN peers' : peers'[i].outer_mtu = m  BY <2>1, <2>2
  <2>4. QED  BY <2>2, <2>3, Zenon DEF MtuInv
<1>4. ASSUME NEW b \in Blocks, PeerSection(b) PROVE MtuInv'
  <2>1. /\ pc = "parse" /\ pc' # "start" /\ UNCHANGED <<outer_mtu, late>>
        /\ peers' = peers \/ (finalize_peer # <<Err>> /\ peers' = peers \o finalize_peer)
    BY <1>4, Zenon DEF PeerSection
  <2>2. QED  BY <2>1, FinalizedMtu, Zenon
<1>5. ASSUME NEW m \in OuterMtus, GlobalSection(m) PROVE MtuInv'
  <2>1. /\ pc = "parse" /\ UNCHANGED <<pc, peers>>
        /\ peers # <<>> => late'
    BY <1>5, Zenon DEF GlobalSection
  <2>2. peers = <<>> => DOMAIN peers = {}
    OBVIOUS
  <2>3. QED  BY <2>1, <2>2, Zenon DEF MtuInv
<1>6. CASE EndOfFile
  <2>1. /\ pc = "parse" /\ pc' # "start" /\ UNCHANGED <<outer_mtu, late>>
        /\ peers' = peers \/ (finalize_peer # <<Err>> /\ peers' = peers \o finalize_peer)
    BY <1>6, Zenon DEF EndOfFile
  <2>2. QED  BY <2>1, FinalizedMtu, Zenon
<1>7. CASE LoadPeer
  <2>1. pc' # "start" /\ UNCHANGED <<outer_mtu, peers, late>>  BY <1>7, Zenon DEF LoadPeer
  <2>2. QED  BY <2>1 DEF MtuInv
<1>8. QED  BY <1>1, <1>2, <1>3, <1>4, <1>5, <1>6, <1>7, Zenon DEF Next, vars

\* The peers and [global] agree on outer_mtu unless a [global] section stands
\* after a finished peer, for files of any length.
THEOREM OuterMtuAlwaysAgrees == Spec => []OuterMtuAgrees
<1>1. Init => MtuInv  BY DEF Init, MtuInv
<1>2. TypeOK /\ MtuInv /\ [Next]_vars => MtuInv'  BY MtuStep, Zenon
<1>3. MtuInv => OuterMtuAgrees  BY Zenon DEF MtuInv, OuterMtuAgrees
<1>4. QED  BY <1>1, <1>2, <1>3, TypeCorrect, PTL DEF Spec

(***************************************************************************)
(* The environment and a file with one peer.                               *)
(***************************************************************************)
\* One peer alone clashes with none.
LEMMA OneAlone ==
  ASSUME NEW p
  PROVE  ~NamesClash(<<p>>) /\ ~PortsClash(<<p>>) /\ <<p>> # <<>>
<1>1. DOMAIN <<p>> = {1} /\ <<p>> # <<>>
  OBVIOUS
<1>2. ~ \E i, j \in DOMAIN <<p>> : i < j  BY <1>1
<1>3. QED  BY <1>1, <1>2, Zenon DEF NamesClash, PortsClash

\* Every step keeps what the file and the environment make of the first peer.
LEMMA FirstStep ==
  ASSUME TypeOK, FirstInv, [Next]_vars
  PROVE  FirstInv'
<1>1. CASE UNCHANGED <<pc, outer_mtu, builder, peers, blocks>>
  BY <1>1, Zenon DEF FirstInv, EnvAgrees
<1>2. CASE StartFile \/ StartNone
  <2>1. pc = "start" /\ pc' \in {"parse", "exit"} /\ UNCHANGED <<builder, peers, blocks>>
    BY <1>2, Zenon DEF StartFile, StartNone
  <2>2. Len(<<>>) = 0
    BY Zenon
  <2>3. QED  BY <2>1, <2>2 DEF FirstInv, EnvAgrees
<1>3. CASE StartEnv
  <2> PICK b \in Blocks, m \in OuterMtus :
        /\ blocks' = <<b>> /\ outer_mtu' = m
        /\ peers' = IF load_config_from_env(b, m) = Err THEN <<>>
                    ELSE <<load_config_from_env(b, m)>>
        /\ pc' = IF load_config_from_env(b, m) = Err THEN "exit" ELSE "checked"
    BY <1>3, Zenon DEF StartEnv
  <2>1. pc' \in {"checked", "exit"}
    BY Zenon
  <2>2. blocks'[1] = b
    BY Zenon
  <2> DEFINE env == load_config_from_env(b, m)
  <2>3. /\ pc' = "checked" => peers' = <<env>> /\ env # Err
        /\ pc' = "exit" => env = Err
    BY Zenon
  <2> HIDE DEF env
  <2>4. Len(<<env>>) = 1 /\ <<env>>[1] = env
    OBVIOUS
  <2>5. pc' = "checked" =>
          /\ Len(peers') = 1 /\ env # Err
          /\ [peers'[1] EXCEPT !.sip_domain = None] = [env EXCEPT !.sip_domain = None]
          /\ b.sip_domain # None => peers'[1].sip_domain = env.sip_domain
    BY <2>3, <2>4, Zenon
  <2>6. QED  BY <2>1, <2>2, <2>3, <2>5, Zenon DEF FirstInv, EnvAgrees, env
<1>4. ASSUME NEW b \in Blocks, PeerSection(b) PROVE FirstInv'
  <2>1. /\ pc = "parse" /\ blocks' = Append(blocks, b) /\ blocks \in Seq(Blocks)
        /\ \/ /\ finalize_peer = <<Err>> \/ ParseError(b)
              /\ pc' = "exit"
           \/ /\ ~ParseError(b)
              /\ pc' = "parse" /\ builder' = b /\ peers' = peers \o finalize_peer
        /\ outer_mtu' = outer_mtu
    BY <1>4, Zenon DEF PeerSection, TypeOK
  <2>2. blocks' # <<>>  BY <2>1
  <2>3. CASE Len(blocks') # 1  BY <2>1, <2>2, <2>3, Zenon DEF FirstInv, EnvAgrees
  <2>4. CASE Len(blocks') = 1
    <3>1. blocks = <<>> /\ blocks'[1] = b  BY <2>1, <2>4
    <3>2. builder = None /\ peers = <<>> /\ finalize_peer = <<>>
      BY <2>1, <3>1, Zenon DEF FirstInv, finalize_peer
    <3>3. <<>> # <<Err>> /\ <<>> \o <<>> = <<>>
      OBVIOUS
    <3>4. CASE pc' = "exit"
      <4>1. ParseError(b)  BY <2>1, <3>2, <3>3, <3>4, Zenon
      <4>2. Or(b.keepalive, 0) <= 100 => load_config_from_env(b, outer_mtu') = Err
        BY <4>1, ReadersAgree, Zenon
      <4>3. QED  BY <2>2, <3>1, <3>4, <4>2, Zenon DEF FirstInv, EnvAgrees
    <3>5. CASE pc' = "parse"
      <4>1. builder' = b /\ peers' = <<>> /\ ~ParseError(b)  BY <2>1, <3>2, <3>3, <3>5, Zenon
      <4>2. QED  BY <2>2, <3>1, <3>5, <4>1, Zenon DEF FirstInv, EnvAgrees
    <3>6. QED  BY <2>1, <3>4, <3>5, Zenon
  <2>5. QED  BY <2>3, <2>4, Zenon
<1>5. ASSUME NEW m \in OuterMtus, GlobalSection(m) PROVE FirstInv'
  <2>1. pc = "parse" /\ UNCHANGED <<pc, builder, peers, blocks>>  BY <1>5, Zenon DEF GlobalSection
  <2>2. QED  BY <2>1, Zenon DEF FirstInv, EnvAgrees
<1>6. CASE EndOfFile
  <2> DEFINE ps == peers \o finalize_peer
  <2>1. /\ pc = "parse" /\ UNCHANGED <<outer_mtu, blocks>> /\ blocks \in Seq(Blocks)
        /\ \/ /\ finalize_peer = <<Err>> \/ ps = <<>> \/ NamesClash(ps) \/ PortsClash(ps)
              /\ pc' = "exit"
           \/ finalize_peer # <<Err>> /\ pc' = "checked" /\ peers' = ps
    BY <1>6, Zenon DEF EndOfFile, TypeOK
  <2> SUFFICES ASSUME Len(blocks) = 1, Or(blocks[1].keepalive, 0) <= 100
               PROVE  /\ pc' = "checked" => SamePeer(blocks[1], outer_mtu, peers')
                      /\ pc' = "exit" => load_config_from_env(blocks[1], outer_mtu) = Err
    BY <2>1, Zenon DEF FirstInv, EnvAgrees, SamePeer
  <2> DEFINE b == blocks[1]
             p == build(b, outer_mtu, 0)
             env == load_config_from_env(b, outer_mtu)
  <2>2. b \in Blocks /\ b # None  BY <2>1, BlocksAssumption
  <2>3. builder = b /\ peers = <<>> /\ ~ParseError(b)  BY <2>1, Zenon DEF FirstInv
  <2>4. /\ env = Err => p = Err
        /\ env # Err =>
             /\ p # Err
             /\ [p EXCEPT !.sip_domain = None] = [env EXCEPT !.sip_domain = None]
             /\ b.sip_domain # None => p.sip_domain = env.sip_domain
    BY <2>2, <2>3, ReadersAgree, Zenon
  <2>5. Len(<<>>) = 0
    BY Zenon
  <2>6. finalize_peer = <<p>>  BY <2>2, <2>3, <2>5, Zenon DEF finalize_peer
  <2>7. ps = <<p>>  BY <2>3, <2>6
  <2> HIDE DEF p, ps, env
  <2>8. ~NamesClash(<<p>>) /\ ~PortsClash(<<p>>) /\ <<p>> # <<>>  BY OneAlone, Zenon
  <2>9. (<<p>> = <<Err>> <=> p = Err) /\ Len(<<p>>) = 1 /\ <<p>>[1] = p
    OBVIOUS
  <2>10. pc' = "exit" => env = Err  BY <2>1, <2>4, <2>6, <2>7, <2>8, <2>9, Zenon
  <2>11. pc' = "checked" => env # Err /\ peers' = <<p>>
    BY <2>1, <2>4, <2>6, <2>7, <2>9, Zenon
  <2>12. pc' = "checked" =>
           /\ Len(peers') = 1 /\ env # Err
           /\ [peers'[1] EXCEPT !.sip_domain = None] = [env EXCEPT !.sip_domain = None]
           /\ b.sip_domain # None => peers'[1].sip_domain = env.sip_domain
    BY <2>4, <2>9, <2>11, Zenon
  <2>13. QED  BY <2>10, <2>12, Zenon DEF env, SamePeer
<1>7. CASE LoadPeer
  <2>1. pc = "checked" /\ pc' \in {"checked", "loaded"} /\ UNCHANGED <<outer_mtu, peers, blocks>>
    BY <1>7, Zenon DEF LoadPeer
  <2>2. QED  BY <2>1, Zenon DEF FirstInv, EnvAgrees
<1>8. QED  BY <1>1, <1>2, <1>3, <1>4, <1>5, <1>6, <1>7, Zenon DEF Next, vars

\* parse_config of a file with one [peer] section and load_config_from_env give
\* the same peer or both refuse, for any values of the keys.
THEOREM EnvAlwaysAgrees == Spec => []EnvAgrees
<1>1. Init => FirstInv
  <2>1. Len(<<>>) # 1
    OBVIOUS
  <2>2. QED  BY <2>1 DEF Init, FirstInv, EnvAgrees
<1>2. TypeOK /\ FirstInv /\ [Next]_vars => FirstInv'  BY FirstStep
<1>3. FirstInv => EnvAgrees  BY Zenon DEF FirstInv
<1>4. QED  BY <1>1, <1>2, <1>3, TypeCorrect, PTL DEF Spec

(***************************************************************************)
(* The dispatcher's map.                                                   *)
(***************************************************************************)
\* Registering the next peer of a list without clashes leaves the ports of the
\* earlier ones where they lead.
LEMMA RegisterNext ==
  ASSUME TypeOK, LoadInv, LoadPeer
  PROVE  Registered'
<1> DEFINE n == Len(served)
           p == peers[n + 1]
<1>1. /\ n \in Nat /\ Len(peers) \in Nat /\ n < Len(peers) /\ DOMAIN peers = 1..Len(peers)
      /\ peers' = peers /\ ~PortsClash(peers) /\ Registered
      /\ served' = Append(served, Range(from_config(p)))
      /\ port_map' = register_peer(port_map, p, n)
  BY DEF LoadPeer, LoadInv, TypeOK
<1>2. Len(served') = n + 1 /\ served'[n + 1] = Range(from_config(p))
      /\ \A i \in 1..n : served'[i] = served[i]
  BY <1>1 DEF TypeOK
<1> HIDE DEF n, p
<1>3. /\ DOMAIN port_map' = DOMAIN port_map \union Ports(p)
      /\ \A port \in DOMAIN port_map' :
           port_map'[port] = IF port \in Ports(p) THEN n ELSE port_map[port]
  BY <1>1, Zenon DEF register_peer
<1>4. ASSUME NEW i \in 1..n PROVE Ports(peers[i]) \cap Ports(p) = {}
  <2>1. i \in DOMAIN peers /\ n + 1 \in DOMAIN peers /\ i < n + 1  BY <1>1
  <2>2. ~(Ports(peers[i]) \cap Ports(peers[n + 1]) # {})  BY <1>1, <2>1, Zenon DEF PortsClash
  <2>3. QED  BY <2>2, Zenon DEF p
<1>5. \A i \in 1..n : /\ served[i] = Range(from_config(peers[i]))
                      /\ \A port \in Ports(peers[i]) :
                           port \in DOMAIN port_map /\ port_map[port] = i - 1
  BY <1>1, Zenon DEF Registered, n
<1>6. \A port \in DOMAIN port_map : \E i \in 1..n : port \in Ports(peers[i])
  BY <1>1, Zenon DEF Registered, n
<1>7. Len(served') <= Len(peers')  BY <1>1, <1>2
<1>8. ASSUME NEW i \in 1..Len(served')
      PROVE  /\ served'[i] = Range(from_config(peers'[i]))
             /\ \A port \in Ports(peers'[i]) :
                  port \in DOMAIN port_map' /\ port_map'[port] = i - 1
  <2>1. CASE i = n + 1
    <3>1. peers'[i] = p /\ i - 1 = n  BY <1>1, <2>1 DEF p
    <3>2. QED  BY <1>2, <1>3, <2>1, <3>1, Zenon
  <2>2. CASE i \in 1..n  BY <1>1, <1>2, <1>3, <1>4, <1>5, <2>2, Zenon
  <2>3. QED  BY <1>1, <1>2, <2>1, <2>2
<1>9. ASSUME NEW port \in DOMAIN port_map'
      PROVE  \E i \in 1..Len(served') : port \in Ports(peers'[i])
  <2>1. CASE port \in Ports(p)
    <3>1. n + 1 \in 1..Len(served') /\ port \in Ports(peers'[n + 1])  BY <1>1, <1>2, <2>1 DEF p
    <3>2. QED  BY <3>1, Zenon
  <2>2. CASE port \in DOMAIN port_map
    <3>1. PICK i \in 1..n : port \in Ports(peers[i])  BY <1>6, <2>2, Zenon
    <3>2. i \in 1..Len(served')  BY <1>1, <1>2
    <3>3. QED  BY <1>1, <3>1, <3>2, Zenon
  <2>3. QED  BY <1>3, <2>1, <2>2, Zenon
<1>10. QED  BY <1>7, <1>8, <1>9, Zenon DEF Registered, Ports, from_config

\* Before the first peer is loaded the map is empty.
LEMMA NothingServed ==
  ASSUME TypeOK', served' = <<>>, port_map' = <<>>
  PROVE  Registered'
<1>1. Len(peers') \in Nat  BY DEF TypeOK
<1>2. Len(<<>>) = 0 /\ DOMAIN <<>> = {}
  OBVIOUS
<1>3. Len(served') <= Len(peers') /\ 1..Len(served') = {} /\ DOMAIN port_map' = {}
  BY <1>1, <1>2
<1>4. QED  BY <1>3, Zenon DEF Registered

\* Every step of the loader keeps what its maps hold for the peers so far.
LEMMA LoadStep ==
  ASSUME TypeOK, TypeOK', LoadInv, [Next]_vars
  PROVE  LoadInv'
<1>1. CASE UNCHANGED <<pc, peers, port_map, served>>
  <2>1. pc' = pc /\ peers' = peers /\ port_map' = port_map /\ served' = served  BY <1>1, Zenon
  <2>2. Registered => Registered'  BY <2>1, Zenon DEF Registered, Ports, from_config
  <2>3. ~PortsClash(peers) => ~PortsClash(peers')  BY <2>1, Zenon DEF PortsClash, Ports
  <2>4. QED  BY <2>1, <2>2, <2>3, Zenon DEF LoadInv
<1>2. CASE StartFile \/ StartNone
  <2>1. pc = "start" /\ pc' \in {"parse", "exit"} /\ UNCHANGED <<port_map, served>>
    BY <1>2, Zenon DEF StartFile, StartNone
  <2>2. QED  BY <2>1, Zenon DEF LoadInv
<1>3. CASE StartEnv
  <2> PICK b \in Blocks, m \in OuterMtus :
        /\ peers' = IF load_config_from_env(b, m) = Err THEN <<>>
                    ELSE <<load_config_from_env(b, m)>>
        /\ pc' = IF load_config_from_env(b, m) = Err THEN "exit" ELSE "checked"
    BY <1>3, Zenon DEF StartEnv
  <2>1. pc = "start" /\ UNCHANGED <<port_map, served>>  BY <1>3, Zenon DEF StartEnv
  <2>2. pc' = "checked" => ~PortsClash(peers')  BY OneAlone, Zenon
  <2>3. QED  BY <2>1, <2>2, NothingServed, Zenon DEF LoadInv
<1>4. ASSUME NEW b \in Blocks, PeerSection(b) PROVE LoadInv'
  <2>1. pc = "parse" /\ pc' \in {"parse", "exit"} /\ UNCHANGED <<port_map, served>>
    BY <1>4, Zenon DEF PeerSection
  <2>2. QED  BY <2>1, Zenon DEF LoadInv
<1>5. CASE EndOfFile
  <2>1. /\ pc = "parse" /\ pc' \in {"checked", "exit"} /\ UNCHANGED <<port_map, served>>
        /\ pc' = "checked" => ~PortsClash(peers')
    BY <1>5, Zenon DEF EndOfFile
  <2>2. QED  BY <2>1, NothingServed, Zenon DEF LoadInv
<1>6. CASE LoadPeer
  <2>1. /\ pc = "checked" /\ peers' = peers
        /\ served' = Append(served, Range(from_config(peers[Len(served) + 1])))
        /\ pc' = IF Len(served) + 1 = Len(peers) THEN "loaded" ELSE "checked"
    BY <1>6, Zenon DEF LoadPeer
  <2>2. Len(served') = Len(served) + 1  BY <2>1 DEF TypeOK
  <2>3. ~PortsClash(peers')  BY <2>1, Zenon DEF LoadInv
  <2>4. QED  BY <1>6, <2>1, <2>2, <2>3, RegisterNext, Zenon DEF LoadInv
<1>7. QED  BY <1>1, <1>2, <1>3, <1>4, <1>5, <1>6, Zenon DEF Next, vars, GlobalSection

\* Whatever the file says, the dispatcher's map is at every step what the peers
\* registered so far list.
THEOREM PortMapAlwaysExact == Spec => []PortMapExact
<1>1. Init => LoadInv  BY DEF Init, LoadInv
<1>2. TypeOK /\ TypeOK' /\ LoadInv /\ [Next]_vars => LoadInv'  BY LoadStep
<1>3. TypeOK /\ LoadInv => PortMapExact
  <2> SUFFICES ASSUME TypeOK, LoadInv PROVE PortMapExact
    BY Zenon
  <2>1. DOMAIN served = 1..Len(served) /\ Len(served) \in Nat  BY DEF TypeOK
  <2>2. CASE pc \notin {"checked", "loaded"}
    <3>1. DOMAIN served = {} /\ DOMAIN port_map = {}  BY <2>2 DEF LoadInv
    <3>2. QED  BY <3>1, Zenon DEF PortMapExact
  <2>3. CASE pc \in {"checked", "loaded"}
    <3>1. Registered  BY <2>3, Zenon DEF LoadInv
    <3>2. \A i \in DOMAIN served : \A port \in Ports(peers[i]) :
            port \in DOMAIN port_map /\ port_map[port] = i - 1
      BY <2>1, <3>1, Zenon DEF Registered
    <3>3. ASSUME NEW port \in DOMAIN port_map PROVE port_map[port] + 1 \in DOMAIN served
      <4>1. PICK i \in 1..Len(served) : port \in Ports(peers[i])  BY <3>1, Zenon DEF Registered
      <4>2. port_map[port] = i - 1  BY <3>1, <4>1, Zenon DEF Registered
      <4>3. QED  BY <2>1, <4>1, <4>2
    <3>4. QED  BY <3>2, <3>3, Zenon DEF PortMapExact
  <2>4. QED  BY <2>2, <2>3, Zenon
<1>4. QED  BY <1>1, <1>2, <1>3, TypeCorrect, PTL DEF Spec

\* A port of a registered peer that stands only behind the first MAX_PORTS of its
\* list leads to the peer's program, whose config map does not have it: the
\* silent cut of GutConfig::from_config (maps.rs:97) loses its packets, although
\* no part of the loader refuses the list.
LateUnserved ==
  \A i \in DOMAIN served : \A port \in Ports(peers[i]) :
    (\A k \in DOMAIN peers[i].ports : peers[i].ports[k] = port => k > MAX_PORTS) =>
      port_map[port] = i - 1 /\ port \notin served[i]

\* Every list that is longer than MAX_PORTS is dispatched whole and served in
\* part.
THEOREM LongListsCut == Spec => []LateUnserved
<1>1. Init => LoadInv  BY DEF Init, LoadInv
<1>2. TypeOK /\ TypeOK' /\ LoadInv /\ [Next]_vars => LoadInv'  BY LoadStep
<1>3. TypeOK /\ LoadInv => LateUnserved
  <2> SUFFICES ASSUME TypeOK, LoadInv, NEW i \in DOMAIN served, NEW port \in Ports(peers[i]),
                      \A k \in DOMAIN peers[i].ports : peers[i].ports[k] = port => k > MAX_PORTS
               PROVE  port_map[port] = i - 1 /\ port \notin served[i]
    BY Zenon DEF LateUnserved
  <2>1. DOMAIN served = 1..Len(served) /\ Len(served) \in Nat  BY DEF TypeOK
  <2>2. pc \in {"checked", "loaded"}
    <3>1. served = <<>> => DOMAIN served = {}
      OBVIOUS
    <3>2. QED  BY <3>1, Zenon DEF LoadInv
  <2>3. Registered  BY <2>2, Zenon DEF LoadInv
  <2>4. port_map[port] = i - 1 /\ served[i] = Range(from_config(peers[i]))
    BY <2>1, <2>3, Zenon DEF Registered
  <2>5. peers[i] \in Built /\ Len(peers) \in Nat
    <3>1. i \in 1..Len(peers)  BY <2>1, <2>3 DEF Registered, TypeOK
    <3>2. QED  BY <3>1 DEF TypeOK
  <2>6. PICK ps \in Seq(Nat) : ps = peers[i].ports  BY <2>5, PortsOfBuilt, Zenon
  <2>7. from_config(peers[i]) = SubSeq(ps, 1, IF Len(ps) < 6 THEN Len(ps) ELSE 6)
    BY <2>6, Zenon DEF from_config, MAX_PORTS
  <2>8. \A k \in DOMAIN ps : ps[k] = port => k > 6  BY <2>6, Zenon DEF MAX_PORTS
  <2>9. \A k \in DOMAIN SubSeq(ps, 1, IF Len(ps) < 6 THEN Len(ps) ELSE 6) :
          SubSeq(ps, 1, IF Len(ps) < 6 THEN Len(ps) ELSE 6)[k] # port
    BY <2>8
  <2>10. port \notin Range(from_config(peers[i]))  BY <2>7, <2>9, Zenon DEF Range
  <2>11. QED  BY <2>4, <2>10, Zenon
<1>4. QED  BY <1>1, <1>2, <1>3, TypeCorrect, PTL DEF Spec
=============================================================================
