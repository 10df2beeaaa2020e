SPECIFICATION Spec
CONSTANTS
  Requests = {r1, r2}
  MaxSockets = 2
  MaxBinds = 2
  Intervals = {0, 2, 3}
  MaxChanges = 2
  Longest = 4
  MaxValues = 2
  MaxStreams = 2
  MaxFaults = 1
  MaxConnections = 3
  MaxTasks = 3
  MaxMembers = 2
  MaxSwitches = 1
  MaxPhase = 1
  Providers = {p1, p2, p3}
  PoolSize = 2
  FieldCount = 2
  MaxNotes = 2
  MaxRecoveries = 2
  Modes = {"MERGE", "DISTINCT", "RAW", "COMMAND"}
  MaxSettings = 3
  Items = {i1, i2}
  RowKeys = {k1, k2}
  RowValues = {v1, v2}
  MaxDataEvents = 3
  FieldNames = {"n1", "n2"}
  MaxFieldEvents = 3
  RowIds = {1, 2}
  ColumnIds = {1, 2}
  CellValues = {"", "NULL", "v"}
  RetryDelays = {0, 1, 3}
  MaxDelay = 5
  MaxAttempts = 13
  MaxAge = 6
  Rows = {k1, k2}
  Rates = {1, 2}
  MaxTables = 2
  MaxTableEvents = 1
  Addresses = {"a", "b"}
  MaxIds = 2
  Delays = {0, 100, 6000, 16000, 30000}
  MaxSyncs = 4
  MaxListeners = 3
INVARIANTS
  TypeOK
  HeartbeatInTime
  NothingTwice
  StreamIsHeard
  SubscriptionIsAsTold
  HighestIsTold
  OneServerPerSession
PROPERTIES
  ImplementsChannel
  SecondTaskByRace
  NoOldValue
  ImplementsQueue
  AttemptsArePaced
CHECK_DEADLOCK FALSE
