SPECIFICATION FairSpec
CONSTANTS
  eth0 = eth0
  eth1 = eth1
  tun = tun
  g = g
  h = h
  q = q
  s = s
  mg = mg
  mh = mh
  ms = ms
  None = None
  Nic <- MCNic
  Tun = tun
  V4 <- MCV4
  V6 <- MCV6
  Mac <- MCMac
  Station <- MCStation
  ArpSilent = {h}
  IcmpSilent = {}
  Unforwarded = {}
  Tables <- MCTables
  Mtu <- MCMtu
  OuterMtu = 1400
  Addr4 = {eth0, eth1}
  Addr6 = {eth0}
  Peers <- MCPeers
  NPeers = 1
  Caps <- MCCaps
  MaxChatter = 1
  Attempts = 2
  Sends = 2
  GwRounds = 2
  WatchdogSec = 155
INVARIANTS
  NextHopOnNic
  NoEarlyFallback
  FallbackAgrees
  MeetsWatchdog
  OuterMtuOfNic
PROPERTIES
  PassEnds
