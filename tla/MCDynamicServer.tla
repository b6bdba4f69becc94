-------------------------- MODULE MCDynamicServer ---------------------------
EXTENDS DynamicServer, TLC

CONSTANTS c1, c2, i1, i2, a1, a2, b1

\* Client c1 owns the index i1 and moves between a1 and a2; client c2 owns the
\* index i2 and stays at b1.
TwoOwners == (i1 :> c1) @@ (a1 :> c1) @@ (a2 :> c1) @@ (i2 :> c2) @@ (b1 :> c2)
OneOwner == (i1 :> c1) @@ (a1 :> c1) @@ (a2 :> c1)

SipAndGut == (c1 :> "sip") @@ (c2 :> "gut")
OnlyQuic == c1 :> "quic"

\* Every address is at a configured port; or a2 is the port a NAT gave the host a1.
NoNat == (a1 :> a1) @@ (a2 :> a2)
BehindNat == (a1 :> a1) @@ (a2 :> a1) @@ (b1 :> b1)
=============================================================================
