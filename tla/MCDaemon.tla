------------------------------ MODULE MCDaemon ------------------------------
EXTENDS Daemon, TLC

CONSTANTS p1, p2, p3, x, y, z

TwoPeers == (p1 :> {x}) @@ (p2 :> {y})
MovedPort == (p1 :> {z}) @@ (p2 :> {y})
Clash == (p1 :> {x}) @@ (p2 :> {x})

\* Two peers; the second file gives p1 another port and its old one to a third
\* peer, one more than the dispatcher can hold; the third file gives both peers
\* the same port.
ThreeFiles == {TwoPeers, MovedPort @@ (p3 :> {x}), Clash}

\* Two peers, one of which moves to another port.
TwoFiles == {TwoPeers, MovedPort}
=============================================================================
