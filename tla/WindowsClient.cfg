SPECIFICATION FairSpec
CONSTANTS
  eth = eth
  wifi = wifi
  wintun = wintun
  wg = wg
  av = av
  None = None
  Own = Own
  Nic = {eth, wifi, wintun}
  Row <- MCRow
  Vpn = wintun
  Sub = {wg, av}
  Refusing = {av}
  NumLayers = 2
  MaxFailures = 2
  MaxRuns = 2
INVARIANTS
  OwnSublayerFresh
  FailuresConsecutive
PROPERTIES
  CleanStop
  PinWinsOrRollsBack
  GivesUp
  StopEnds
