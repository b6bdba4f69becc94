SPECIFICATION FairSpec
CONSTANTS
    c1 = c1  c2 = c2  i1 = i1  i2 = i2  a1 = a1  a2 = a2  b1 = b1
    None = None
    ZeroIdx = zero
    Client = {c1}
    CIdx = {i1}
    SIdx = {s1}
    Addr = {a1, a2}
    OwnerOf <- OneOwner
    ModeOf <- OnlyQuic
    AtPeerPort <- NoNat
    Obfs = "syslog"
    Ingress = {t1}
    NumPorts = 1
    NumPeerPorts = 1
    WgTypes = {2}
    MaxNet = 1
    MaxOut = 1
    MaxRestarts = 1
PROPERTIES
    ThreadsReturn
    RoutesSettle
