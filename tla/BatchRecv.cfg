SPECIFICATION FairSpec
CONSTANTS
  MaxMsgs = 9
  Bad = {2, 5, 6}
  Size <- MCSize
  Long = {3, 8}
  Modes = {"quic", "sip"}
  OuterMtu = 20000
  RcvBuf = 4
INVARIANTS
  PanicsOnOversizeOnly
PROPERTIES
  ImplementsSocket
  AllHandedOut
CHECK_DEADLOCK FALSE
