---------------------------- MODULE MCSharedAddr ----------------------------
EXTENDS SharedAddr, TLC

\* The ingress threads run the same code.
IngressSymmetry == Permutations(Storers)

V4(ip, port) ==
    [f \in Cells |-> CASE f = "fam" -> 4 [] f = "ip0" -> ip [] f = "port" -> port [] OTHER -> 0]

V6(w0, w1, w2, w3, port) ==
    [f \in Cells |-> CASE f = "fam" -> 6 [] f = "ip0" -> w0 [] f = "ip1" -> w1
                       [] f = "ip2" -> w2 [] f = "ip3" -> w3 [] OTHER -> port]

\* A peer that moves from one IPv4 network to another.
TwoV4 == {V4(1, 1), V4(2, 2)}

\* WireGuard on a dual-stack host: its port changes, or its address family does,
\* and the three fingerprints differ.
WgDualStack == {V4(1, 1), V4(1, 2), V6(2, 2, 3, 3, 2)}
=============================================================================
