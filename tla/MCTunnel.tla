----------------------------- MODULE MCTunnel -----------------------------
(* One signalling and one media port a side, two networks, two NAT mappings. *)
EXTENDS Tunnel

MCSrvPorts == <<1, 2>>
MCCliPorts == <<3, 4>>
MCHosts == {"home", "away"}
MCCliPkts == {Datagram(1, 148, "ci"), Datagram(4, 80, "cd")}
MCSrvPkts == {Datagram(2, 92, "sr"), Datagram(4, 80, "sd")}
MCLooks == {"plain", "short", "rtp"}
=============================================================================
