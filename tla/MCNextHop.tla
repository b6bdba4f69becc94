----------------------------- MODULE MCNextHop -----------------------------
(***************************************************************************)
(* A host with an uplink eth0 (gateway g) and a second NIC eth1 (gateway   *)
(* h).  Peer q is reached through g, or through h after a route change; s  *)
(* is an IPv6 neighbour.                                                   *)
(***************************************************************************)
EXTENDS NextHop, TLC

CONSTANTS eth0, eth1, tun, g, h, q, s, mg, mh, ms

Stations(at) == [n \in Nic |-> [ip \in Ip |->
                   IF <<n, ip>> \in DOMAIN at THEN at[<<n, ip>>] ELSE None]]

R(dst, plen, via, metric, dev) ==
  [dst |-> dst, plen |-> plen, gw |-> via, up |-> TRUE, metric |-> metric, dev |-> dev]

Peer(ip, bind, drop) == [ip |-> ip, nic |-> None, bind |-> bind, drop |-> drop]

MCNic == {eth0, eth1, tun}
MCV4 == {g, h, q}
MCV6 == {s}
MCMac == {mg, mh, ms}
MCMtu == [n \in MCNic |-> IF n = eth1 THEN 9000 ELSE 1500]

Lan == <<R({g}, 24, None, 0, eth0), R({h}, 24, None, 0, eth1)>>
Lan6 == <<R({s}, 64, None, 0, eth0)>>

\* Default routes by both uplinks; the second table prefers eth1.
UpEth0 == [v4 |-> <<R(MCV4, 0, g, 0, eth0), R(MCV4, 0, h, 5, eth1)>> \o Lan, v6 |-> Lan6]
UpEth1 == [v4 |-> <<R(MCV4, 0, h, 0, eth1), R(MCV4, 0, g, 5, eth0)>> \o Lan, v6 |-> Lan6]
MCTables == {UpEth0, UpEth1}

MCStation == Stations(<<eth0, g>> :> mg @@ <<eth1, h>> :> mh @@ <<eth0, s>> :> ms)

\* Everything, or neither CAP_NET_RAW nor netlink.
MCCaps == {{"raw", "netlink", "proc"}, {"proc"}}

MCPeers == {Peer(q, "any4", TRUE), Peer(s, "any6", FALSE), Peer(None, "set", TRUE)}
=============================================================================
