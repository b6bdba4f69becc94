SPECIFICATION FairSpec
CONSTANTS
  eth = eth
  wifi = wifi
  wintun = wintun
  wg = wg
  av = av
  None = None
  Own = Own
  Nic = {eth, wintun}
  Row <- MCRow
  Vpn = wintun
  Sub = {wg}
  Refusing = {}
  NumLayers = 1
  MaxFailures = 2
  MaxRuns = 1
PROPERTIES
  ReAdded
