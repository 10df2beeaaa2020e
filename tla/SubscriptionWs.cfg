\* A Subscription added twice over two sessions, control requests over WebSocket.
CONSTANTS
  Subs = {s1}
  NoSub = NoSub
  Http = FALSE
  MaxId = 2
  MaxSession = 2
  MaxTasks = 1
  MaxNotes = 3
  MaxBroken = 0
SPECIFICATION FairSpec
INVARIANTS
  TypeOK
  TablesConsistent
  NotForgotten
  PushingIsSubscribed
PROPERTY
  OrphansRemoved
CHECK_DEADLOCK FALSE
