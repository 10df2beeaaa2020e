\* Closing twice, or closing with the pointer never set, leaves the manager ENDING.
CONSTANTS
  add1 = add1
  delete1 = delete1
  add2 = add2
  message1 = message1
  message2 = message2
  heartbeat = heartbeat
  destroy = destroy
  Requests = {add1, heartbeat}
  Kind <- MCKind
  Key <- MCKey
  Length <- MCLength
  Limits = {0, 3}
  Connections = {c1, c2}
  NoHandle = NoHandle
  Wild = Wild
  PhaseModulus = 4
  MaxCloses = 2
SPECIFICATION FairSpec
PROPERTY
  EndingEnds
CHECK_DEADLOCK FALSE
