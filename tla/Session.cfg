\* Every forced transport, with sockets opened early.
CONSTANTS
  Transports = {"none", "WS", "HTTP", "WS-STREAMING", "HTTP-STREAMING", "WS-POLLING", "HTTP-POLLING"}
  EarlyWSOpen = TRUE
SPECIFICATION FairSpec
INVARIANTS
  TypeOK
  FrozenKeepsTransport
  SwitchingIsHeeded
  OpenStreamIsOwned
  SleeperWillWake
PROPERTIES
  StaysDisconnected
  CreatingEnds
CHECK_DEADLOCK FALSE
