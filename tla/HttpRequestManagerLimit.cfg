\* A batch may exceed the limit by the separator the test leaves out.
CONSTANTS
  add1 = add1
  delete1 = delete1
  add2 = add2
  message1 = message1
  message2 = message2
  heartbeat = heartbeat
  destroy = destroy
  Requests = {add1, message1, message2, heartbeat}
  Kind <- MCKind
  Key <- MCKey
  Length <- MCLength
  Limits = {0, 5}
  Connections = {c1, c2}
  NoHandle = NoHandle
  Wild = Wild
  PhaseModulus = 4
  MaxCloses = 2
SPECIFICATION Spec
PROPERTY
  LimitRespected
CHECK_DEADLOCK FALSE
