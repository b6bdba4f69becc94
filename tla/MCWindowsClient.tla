-------------------------- MODULE MCWindowsClient --------------------------
(***************************************************************************)
(* Ethernet, Wi-Fi and a VPN adapter; WireGuard's sublayer, which takes    *)
(* filters, and an antivirus one, which refuses them.                      *)
(***************************************************************************)
EXTENDS WindowsClient

CONSTANTS eth, wifi, wintun, wg, av

R(type, hw, metric) ==
  [type |-> type, hardware |-> hw, dedicated |-> TRUE, vpnName |-> ~hw, metric |-> metric]

MCRow == [n \in Nic |-> CASE n = eth -> R("ethernet", TRUE, 1)
                          [] n = wifi -> R("wifi", TRUE, 2)
                          [] n = wintun -> R("ethernet", FALSE, 0)]
=============================================================================
