\* Control requests over HTTP: retransmissions, a broken connection, late answers.
CONSTANTS
  Subs = {s1}
  NoSub = NoSub
  Http = TRUE
  MaxId = 1
  MaxSession = 2
  MaxTasks = 2
  MaxNotes = 3
  MaxBroken = 1
SPECIFICATION FairSpec
INVARIANTS
  DeferredNotSent
  SingleTutor
PROPERTY
  SubscriptionSettles
CHECK_DEADLOCK FALSE
