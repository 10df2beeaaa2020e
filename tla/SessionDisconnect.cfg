\* A client that connects, goes offline and disconnects.
CONSTANTS
  Transports = {"none"}
  EarlyWSOpen = TRUE
SPECIFICATION Spec
PROPERTY NothingAfterDisconnect
CHECK_DEADLOCK FALSE
