\* Every kind of request, two of them rivals for a key; the limit comes and goes.
CONSTANTS
  add1 = add1
  delete1 = delete1
  add2 = add2
  message1 = message1
  message2 = message2
  heartbeat = heartbeat
  destroy = destroy
  Requests = {add1, delete1, add2, destroy}
  Kind <- MCKind
  Key <- MCKey
  Length <- MCLength
  Limits = {0, 3}
  Connections = {c1, c2}
  NoHandle = NoHandle
  Wild = Wild
  PhaseModulus = 4
  MaxCloses = 2
SPECIFICATION FairSpec
INVARIANTS
  TypeOK
  OneConnection
  NoLostWakeup
  OngoingIsOnTheWire
PROPERTY
  Served
CHECK_DEADLOCK FALSE
