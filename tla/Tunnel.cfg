SPECIFICATION FairSpec
CONSTANTS
  SrvPorts <- MCSrvPorts
  CliPorts <- MCCliPorts
  Hosts <- MCHosts
  NatPorts = {100, 200}
  NatKeepsPorts = TRUE
  WgAddrs = {7, 8}
  CliPkts <- MCCliPkts
  SrvPkts <- MCSrvPkts
  Looks <- MCLooks
  Draws = {63}
  Domain = 32
  ClientModes = {"quic", "gut", "syslog", "sip"}
  ServerModes = {"quic"}
  MaxNet = 1
  MaxMoves = 1
  MaxDups = 1
INVARIANTS
  DeliveredIntact
  ArrivalsRecognised
  RepliesReturn
PROPERTIES EndpointSettles
