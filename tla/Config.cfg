SPECIFICATION Spec
CONSTANTS
  None = None
  Blocks <- MCBlocks
  OuterMtus = {1400, 1500}
  MaxGlobals = 1
  MaxPeers = 2
INVARIANTS
  PortMapExact
  OuterMtuAgrees
  
CHECK_DEADLOCK FALSE
