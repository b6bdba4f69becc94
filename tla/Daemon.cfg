SPECIFICATION FairSpec
CONSTANTS
    p1 = p1  p2 = p2  p3 = p3  x = x  y = y  z = z
    None = None
    Peer = {p1, p2, p3}
    Port = {x, y, z}
    RawConfig <- ThreeFiles
    Ip = {a1, a2}
    UserspaceOnly = {TRUE, FALSE}
    MayFail = TRUE
    MaxPeers = 2
    RefreshTicks = 2
    WatchdogTicks = 3
INVARIANTS
    NoLostSighup
    ManagersAreWhole
    CleanShutdown
PROPERTIES
    SighupIsServed
    AddressFollows
