SPECIFICATION Spec
CONSTANTS
    p1 = p1  p2 = p2  p3 = p3  x = x  y = y  z = z
    None = None
    Peer = {p1, p2}
    Port = {x, y, z}
    RawConfig <- TwoFiles
    Ip = {a1}
    UserspaceOnly = {FALSE}
    MayFail = FALSE
    MaxPeers = 2
    RefreshTicks = 2
    WatchdogTicks = 3
INVARIANTS
    ReloadSticks
