------------------------------- MODULE Config -------------------------------
(***************************************************************************)
(* How gutd comes to its configuration: main() chooses a source,           *)
(* parse_config reads the sections of a file one after the other,          *)
(* load_config_from_env reads the environment, and each peer that results  *)
(* is given to the kernel (GutConfig::from_config and register_peer).      *)
(*                                                                         *)
(* A [peer] section is a record of its keys, None where a key is absent.   *)
(* The order of the keys within a section does not matter; that of the     *)
(* sections does.  Keys that are only copied and have one default (mtu,    *)
(* nic, default_policy, bind_ip, own_http3, wg_host, bind_port) are left   *)
(* out.  Addresses are the last octet within 10.47.0.0/24.                 *)
(***************************************************************************)
EXTENDS Naturals, Sequences, Functions

CONSTANTS
  None,
  Blocks,    \* [peer] sections a file or the environment may hold
  OuterMtus, \* values of outer_mtu
  MaxGlobals, MaxPeers  \* bounds on the sections of a file

\* ports is a list of numbers and keepalive_drop_percent a number, if given.
ASSUME BlocksAssumption ==
  \A b \in Blocks : /\ b # None
                    /\ b.ports = None \/ b.ports \in Seq(Nat)
                    /\ b.keepalive = None \/ b.keepalive \in Nat

VARIABLES
  pc,        \* "start", "parse", "checked", "loaded" or "exit"
  outer_mtu, \* that of [global]
  builder,   \* section read last and not finished, or None
  peers,     \* finished peers
  blocks,    \* the [peer] sections read so far
  globals,   \* number of [global] sections read so far
  late,      \* an outer_mtu came after a peer was finished
  port_map, served  \* the dispatcher's map, and the ports in each peer's config map

vars == <<pc, outer_mtu, builder, peers, blocks, globals, late, port_map, served>>

Err == [err |-> TRUE]

Or(x, default) == IF x = None THEN default ELSE x

\* 64 hexadecimal digits or an error.
parse_hex_key(hex) == IF hex = "short" THEN Err ELSE [key |-> hex]

derive_key(passphrase) == [derived |-> passphrase]

\* Odd last octet: the server's side.
Parity(address) == address % 2 = 1

\* PeerBuilder::build and load_config_from_env: explicit, else from the address,
\* else from peer_ip.
responder(b, dynamic) ==
  IF b.responder # None THEN b.responder
  ELSE IF b.address # None THEN Parity(b.address)
  ELSE dynamic

\* What the keys of a section are refused for while it is read.
ParseError(b) ==
  \/ b.ports # None /\ \E i \in DOMAIN b.ports : b.ports[i] = 0
  \/ b.key # None /\ parse_hex_key(b.key) = Err
  \/ b.keepalive # None /\ b.keepalive > 100

\* PeerBuilder::build.
build(b, mtu, idx) ==
  LET dynamic == b.peer_ip = "dynamic"
      role == responder(b, dynamic)
      peer_ports == Or(b.peer_ports, b.ports)
  IN IF b.peer_ip = None \/ b.ports = None \/ (b.obfs = "sip" /\ Len(peer_ports) < 2)
        \/ (b.key = None /\ b.passphrase = None)
     THEN Err
     ELSE [name |-> Or(b.name, "gut0"), address |-> Or(b.address, idx * 4 + (IF role THEN 1 ELSE 2)),
           dynamic |-> dynamic, responder |-> role, ports |-> b.ports, peer_ports |-> peer_ports,
           key |-> IF b.key # None THEN parse_hex_key(b.key) ELSE derive_key(b.passphrase),
           keepalive |-> Or(b.keepalive, 30), obfs |-> Or(b.obfs, "gut"), outer_mtu |-> mtu,
           sip_domain |-> Or(b.sip_domain, "127.0.0.1")]

\* Variant that prefers the passphrase.
EnvKeyPhrase(b) ==
  IF b.passphrase # None THEN derive_key(b.passphrase)
  ELSE IF b.key # None THEN parse_hex_key(b.key) ELSE Err

\* GUTD_KEY or one of its aliases, else the passphrase.
EnvKey(b) ==
  IF b.key # None THEN parse_hex_key(b.key)
  ELSE IF b.passphrase # None THEN derive_key(b.passphrase) ELSE Err

\* load_config_from_env: the checks in the order the code makes them.
load_config_from_env(b, mtu) ==
  LET dynamic == b.peer_ip = "dynamic"
      role == responder(b, dynamic)
      key == EnvKey(b)
      peer_ports == Or(b.peer_ports, b.ports)
  IN IF b.peer_ip = None THEN Err
     ELSE IF b.ports = None THEN Err
     ELSE IF \E i \in DOMAIN b.ports : b.ports[i] = 0 THEN Err
     ELSE IF key = Err THEN Err
     ELSE IF b.obfs = "sip" /\ Len(peer_ports) < 2 THEN Err
     ELSE [name |-> Or(b.name, "gut0"), address |-> Or(b.address, IF role THEN 1 ELSE 2),
           dynamic |-> dynamic, responder |-> role, ports |-> b.ports, peer_ports |-> peer_ports,
           key |-> key, keepalive |-> Or(b.keepalive, 30), obfs |-> Or(b.obfs, "gut"),
           outer_mtu |-> mtu, sip_domain |-> Or(b.sip_domain, "nginx")]

-----------------------------------------------------------------------------

Init ==
  /\ pc = "start" /\ outer_mtu = 1500 /\ builder = None /\ peers = <<>>
  /\ blocks = <<>> /\ globals = 0 /\ late = FALSE /\ port_map = <<>> /\ served = <<>>

\* main(): an explicit path, else the environment if GUTD_PEER_IP is set, else
\* /etc/gutd.conf, else ./gutd.conf, else nothing.
main(explicit, env, etc, cwd) ==
  IF ~explicit /\ env THEN "env"
  ELSE IF explicit \/ etc \/ cwd THEN "file" ELSE "none"

\* load_config: the file is opened and read.
StartFile ==
  /\ pc = "start"
  /\ \E explicit, env, etc, cwd \in BOOLEAN : main(explicit, env, etc, cwd) = "file"
  /\ pc' = "parse"
  /\ UNCHANGED <<outer_mtu, builder, peers, blocks, globals, late, port_map, served>>

StartEnv ==
  /\ pc = "start"
  /\ \E explicit, etc, cwd \in BOOLEAN : main(explicit, TRUE, etc, cwd) = "env"
  /\ \E b \in Blocks, m \in OuterMtus :
       LET p == load_config_from_env(b, m) IN
         /\ b.peer_ip # None
         /\ blocks' = <<b>> /\ outer_mtu' = m
         /\ peers' = IF p = Err THEN <<>> ELSE <<p>>
         /\ pc' = IF p = Err THEN "exit" ELSE "checked"
  /\ UNCHANGED <<builder, globals, late, port_map, served>>

StartNone ==
  /\ pc = "start" /\ main(FALSE, FALSE, FALSE, FALSE) = "none"
  /\ pc' = "exit"
  /\ UNCHANGED <<outer_mtu, builder, peers, blocks, globals, late, port_map, served>>

\* Variant that builds with the default instead of the value read.
finalize_peer_default == IF builder = None THEN <<>> ELSE <<build(builder, 1500, Len(peers))>>

\* The section before, if any, becomes a peer.
finalize_peer == IF builder = None THEN <<>> ELSE <<build(builder, outer_mtu, Len(peers))>>

\* [peer] and the keys below it.
PeerSection(b) ==
  /\ pc = "parse" /\ Len(blocks) < MaxPeers
  /\ blocks' = Append(blocks, b)
  /\ IF \/ finalize_peer = <<Err>>
        \/ ParseError(b)
     THEN pc' = "exit" /\ UNCHANGED <<builder, peers>>
     ELSE builder' = b /\ peers' = peers \o finalize_peer /\ UNCHANGED pc
  /\ UNCHANGED <<outer_mtu, globals, late, port_map, served>>

\* [global] with outer_mtu.
GlobalSection(m) ==
  /\ pc = "parse" /\ globals < MaxGlobals
  /\ globals' = globals + 1
  /\ outer_mtu' = m
  /\ late' = (late \/ peers # <<>>)
  /\ UNCHANGED <<pc, builder, peers, blocks, port_map, served>>

Ports(p) == Range(p.ports)

\* Variant of the check across peers that compares neighbours in the file only.
PortsClashAdjacent(ps) ==
  \E i \in 1 .. (Len(ps) - 1) : ps[i].ports[1] = ps[i + 1].ports[1]

\* No port may appear with two peers; twice with one peer is fine.
PortsClash(ps) ==
  \E i, j \in DOMAIN ps : i < j /\ Ports(ps[i]) \cap Ports(ps[j]) # {}

NamesClash(ps) == \E i, j \in DOMAIN ps : i < j /\ ps[i].name = ps[j].name

\* The end of the file: the last section is finished, then the checks.
EndOfFile ==
  LET ps == peers \o finalize_peer IN
  /\ pc = "parse"
  /\ IF finalize_peer = <<Err>> \/ ps = <<>> \/ NamesClash(ps) \/ PortsClash(ps)
     THEN pc' = "exit" /\ UNCHANGED peers
     ELSE pc' = "checked" /\ peers' = ps
  /\ builder' = None
  /\ UNCHANGED <<outer_mtu, blocks, globals, late, port_map, served>>

MAX_PORTS == 6

\* GutConfig::from_config copies the first MAX_PORTS ports.
from_config(p) == SubSeq(p.ports, 1, IF Len(p.ports) < MAX_PORTS THEN Len(p.ports) ELSE MAX_PORTS)

\* register_peer: every port leads to this peer.
register_peer(map, p, idx) ==
  [port \in DOMAIN map \cup Ports(p) |-> IF port \in Ports(p) THEN idx ELSE map[port]]

\* run_daemon builds a manager for the next peer.
LoadPeer ==
  /\ pc = "checked" /\ Len(served) < Len(peers)
  /\ LET p == peers[Len(served) + 1] IN
       /\ port_map' = register_peer(port_map, p, Len(served))
       /\ served' = Append(served, Range(from_config(p)))
  /\ pc' = IF Len(served) + 1 = Len(peers) THEN "loaded" ELSE pc
  /\ UNCHANGED <<outer_mtu, builder, peers, blocks, globals, late>>

Next ==
  \/ StartFile \/ StartEnv \/ StartNone
  \/ \E b \in Blocks : PeerSection(b)
  \/ \E m \in OuterMtus : GlobalSection(m)
  \/ EndOfFile \/ LoadPeer

Spec == Init /\ [][Next]_vars

-----------------------------------------------------------------------------
(* Properties                                                              *)

\* At every step of the registration the dispatcher's map is exactly what the
\* peers registered so far list: each of their ports leads to the peer that
\* lists it, and no port leads anywhere else.  It takes the check across peers
\* and the order of registration together: a later peer writes over the entries
\* of an earlier one.
PortMapExact ==
  /\ \A i \in DOMAIN served : \A port \in Ports(peers[i]) :
       port \in DOMAIN port_map /\ port_map[port] = i - 1
  /\ \A port \in DOMAIN port_map : port_map[port] + 1 \in DOMAIN served

\* The peers and [global] agree on outer_mtu, wherever [global] stands in a
\* file with one peer and if it stands before the second [peer] otherwise.
OuterMtuAgrees ==
  pc = "checked" /\ ~late => \A i \in DOMAIN peers : peers[i].outer_mtu = outer_mtu

\* The two readers of a configuration agree: a section that parse_config turns
\* into the only peer of a file gives the same peer from the environment, and
\* what one refuses the other refuses.  Two differences are the code's: only the
\* parser bounds the keepalive percentage, and a sip_domain that is not given
\* becomes 127.0.0.1 in one and nginx in the other.
EnvAgrees ==
  Len(blocks) = 1 /\ pc \in {"checked", "exit"} /\ Or(blocks[1].keepalive, 0) <= 100 =>
    LET env == load_config_from_env(blocks[1], outer_mtu) IN
    /\ pc = "checked" =>
         /\ Len(peers) = 1 /\ env # Err
         /\ [peers[1] EXCEPT !.sip_domain = None] = [env EXCEPT !.sip_domain = None]
         /\ blocks[1].sip_domain # None => peers[1].sip_domain = env.sip_domain
    /\ pc = "exit" => env = Err
=============================================================================
