\* Late answers of the HTTP control connection of a closed session.
CONSTANTS
  Subs = {s1}
  NoSub = NoSub
  Http = TRUE
  MaxId = 1
  MaxSession = 2
  MaxTasks = 2
  MaxNotes = 3
  MaxBroken = 0
SPECIFICATION FairSpec
PROPERTY
  Persisted
CHECK_DEADLOCK FALSE
