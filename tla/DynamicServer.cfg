SPECIFICATION Spec
CONSTANTS
    c1 = c1  c2 = c2  i1 = i1  i2 = i2  a1 = a1  a2 = a2  b1 = b1
    None = None
    ZeroIdx = zero
    Client = {c1, c2}
    CIdx = {i1, i2}
    SIdx = {s1, s2}
    Addr = {a1, a2, b1}
    OwnerOf <- TwoOwners
    ModeOf <- SipAndGut
    AtPeerPort <- BehindNat
    Obfs = "syslog"
    Ingress = {t1}
    NumPorts = 2
    NumPeerPorts = 3
    WgTypes = {1, 2, 3, 4}
    MaxNet = 1
    MaxOut = 1
    MaxRestarts = 0
INVARIANTS
    RightClient
    ReplyInClientMode
    AnnouncedSessionsResolve
    PanicsPastPortsOnly
