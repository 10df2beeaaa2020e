------------------------------ MODULE MCProtocol ------------------------------
(* Parts of the client that share no state and do not call each other: the    *)
(* control requests of a WebSocket, the listeners of those over HTTP, the     *)
(* heartbeats (SessionWS sends none), the requests that change something, with *)
(* a transport of their own, the stream connections of a protocol, the         *)
(* messages of the stream, the channels of WebSockets, the threads that work   *)
(* on queues, the configuration of a subscription, its items, its fields, the  *)
(* matrices it keeps values in, its second level, the pace of retries, the     *)
(* server that requests go to, what is late in the stream and the futures.     *)
(* part says which one a behaviour is of, so that one run checks all without    *)
(* their product; the others stay where nothing of theirs is under way.         *)
EXTENDS WebSocketRequestManager, ReverseHeartbeatTimer, ChangeRequests, ControlListeners, StreamConnections, StreamMessages,
        WebSocketPool, WorkerThreads, SubscriptionSettings, ItemData, FieldPositions, ValueMatrix, RetryPace, SubscriptionTables,
        SessionAddress, SlowingHandler, ListenableFuture

VARIABLE part
vars == <<wsVars, timerVars, changeVars, listenVars, connectionsVars, streamVars, poolVars, workerVars, settingsVars,
          dataVars, fieldsVars, matrixVars, paceVars, tablesVars, addressVars, slowingVars, listenableFutureVars, part>>

Init ==
  /\ part \in {"socket", "timer", "change", "batch", "connections", "stream", "pool", "worker", "settings", "items",
               "fields", "matrix", "pace", "tables", "address", "slowing", "future"}
  /\ WsInit /\ ConnectionsInit /\ StreamInit /\ PoolInit /\ TablesInit
  /\ TimerInit /\ (part # "timer" => maxIntervalMs = 0)
  /\ ChangeInit /\ (part # "change" => kind = "frequency" /\ http)
  /\ ListenInit /\ (part # "batch" => request = [i \in Members |-> "none"])
  /\ WorkerInit /\ (part # "worker" => owner = "CSJoinableExecutor")
  /\ SettingsInit /\ (part # "settings" => mode = "MERGE")
  /\ DataInit /\ (part # "items" => dataMode = "MERGE" /\ snapshot = "yes")
  /\ FieldsInit /\ (part # "fields" => descriptors = [level \in {"main", "sub"} |-> NameDescriptor] /\ ~SubDescriptor)
  /\ MatrixInit /\ (part # "matrix" => concurrent)
  /\ PaceInit /\ (part # "pace" => retry = RetryInit(1))
  /\ AddressInit /\ (part # "address" => serverAddress = "a")
  /\ SlowingInit /\ (part # "slowing" => polls = [polling |-> FALSE, forced |-> FALSE])
  /\ ListenableFutureInit /\ (part # "future" => future = "NOT_RESOLVED")

Next ==
  \/ part = "socket" /\ WsNext
     /\ UNCHANGED <<timerVars, changeVars, listenVars, connectionsVars, streamVars, poolVars, workerVars,
                    settingsVars, dataVars, fieldsVars, matrixVars, paceVars, tablesVars, addressVars, slowingVars,
                    listenableFutureVars, part>>
  \/ part = "timer" /\ TimerNext
     /\ UNCHANGED <<wsVars, changeVars, listenVars, connectionsVars, streamVars, poolVars, workerVars, settingsVars,
                    dataVars, fieldsVars, matrixVars, paceVars, tablesVars, addressVars, slowingVars,
                    listenableFutureVars, part>>
  \/ part = "change" /\ ChangeNext
     /\ UNCHANGED <<wsVars, timerVars, listenVars, connectionsVars, streamVars, poolVars, workerVars, settingsVars,
                    dataVars, fieldsVars, matrixVars, paceVars, tablesVars, addressVars, slowingVars,
                    listenableFutureVars, part>>
  \/ part = "batch" /\ ListenNext
     /\ UNCHANGED <<wsVars, timerVars, changeVars, connectionsVars, streamVars, poolVars, workerVars, settingsVars,
                    dataVars, fieldsVars, matrixVars, paceVars, tablesVars, addressVars, slowingVars,
                    listenableFutureVars, part>>
  \/ part = "connections" /\ ConnectionsNext
     /\ UNCHANGED <<wsVars, timerVars, changeVars, listenVars, streamVars, poolVars, workerVars, settingsVars,
                    dataVars, fieldsVars, matrixVars, paceVars, tablesVars, addressVars, slowingVars,
                    listenableFutureVars, part>>
  \/ part = "stream" /\ StreamNext
     /\ UNCHANGED <<wsVars, timerVars, changeVars, listenVars, connectionsVars, poolVars, workerVars, settingsVars,
                    dataVars, fieldsVars, matrixVars, paceVars, tablesVars, addressVars, slowingVars,
                    listenableFutureVars, part>>
  \/ part = "pool" /\ PoolNext
     /\ UNCHANGED <<wsVars, timerVars, changeVars, listenVars, connectionsVars, streamVars, workerVars, settingsVars,
                    dataVars, fieldsVars, matrixVars, paceVars, tablesVars, addressVars, slowingVars,
                    listenableFutureVars, part>>
  \/ part = "worker" /\ WorkerNext
     /\ UNCHANGED <<wsVars, timerVars, changeVars, listenVars, connectionsVars, streamVars, poolVars, settingsVars,
                    dataVars, fieldsVars, matrixVars, paceVars, tablesVars, addressVars, slowingVars,
                    listenableFutureVars, part>>
  \/ part = "settings" /\ SettingsNext
     /\ UNCHANGED <<wsVars, timerVars, changeVars, listenVars, connectionsVars, streamVars, poolVars, workerVars,
                    dataVars, fieldsVars, matrixVars, paceVars, tablesVars, addressVars, slowingVars,
                    listenableFutureVars, part>>
  \/ part = "items" /\ DataNext
     /\ UNCHANGED <<wsVars, timerVars, changeVars, listenVars, connectionsVars, streamVars, poolVars, workerVars,
                    settingsVars, fieldsVars, matrixVars, paceVars, tablesVars, addressVars, slowingVars,
                    listenableFutureVars, part>>
  \/ part = "fields" /\ FieldsNext
     /\ UNCHANGED <<wsVars, timerVars, changeVars, listenVars, connectionsVars, streamVars, poolVars, workerVars,
                    settingsVars, dataVars, matrixVars, paceVars, tablesVars, addressVars, slowingVars,
                    listenableFutureVars, part>>
  \/ part = "matrix" /\ MatrixNext
     /\ UNCHANGED <<wsVars, timerVars, changeVars, listenVars, connectionsVars, streamVars, poolVars, workerVars,
                    settingsVars, dataVars, fieldsVars, paceVars, tablesVars, addressVars, slowingVars,
                    listenableFutureVars, part>>
  \/ part = "pace" /\ PaceNext
     /\ UNCHANGED <<wsVars, timerVars, changeVars, listenVars, connectionsVars, streamVars, poolVars, workerVars,
                    settingsVars, dataVars, fieldsVars, matrixVars, tablesVars, addressVars, slowingVars,
                    listenableFutureVars, part>>
  \/ part = "tables" /\ TablesNext
     /\ UNCHANGED <<wsVars, timerVars, changeVars, listenVars, connectionsVars, streamVars, poolVars, workerVars,
                    settingsVars, dataVars, fieldsVars, matrixVars, paceVars, addressVars, slowingVars,
                    listenableFutureVars, part>>
  \/ part = "address" /\ AddressNext
     /\ UNCHANGED <<wsVars, timerVars, changeVars, listenVars, connectionsVars, streamVars, poolVars, workerVars,
                    settingsVars, dataVars, fieldsVars, matrixVars, paceVars, tablesVars, slowingVars,
                    listenableFutureVars, part>>
  \/ part = "slowing" /\ SlowingNext
     /\ UNCHANGED <<wsVars, timerVars, changeVars, listenVars, connectionsVars, streamVars, poolVars, workerVars,
                    settingsVars, dataVars, fieldsVars, matrixVars, paceVars, tablesVars, addressVars,
                    listenableFutureVars, part>>
  \/ part = "future" /\ ListenableFutureNext
     /\ UNCHANGED <<wsVars, timerVars, changeVars, listenVars, connectionsVars, streamVars, poolVars, workerVars,
                    settingsVars, dataVars, fieldsVars, matrixVars, paceVars, tablesVars, addressVars, slowingVars,
                    part>>
Spec == Init /\ [][Next]_vars

(* The parts of which something must happen, and what makes it happen.       *)
SettlingInit == Init /\ part \in {"change", "batch", "worker"}
FairSpec ==
  /\ SettlingInit /\ [][Next]_vars
  /\ ChangeFairness /\ ListenFairness /\ WorkerFairness

(* The variables of the part under way have their types; those of the others *)
(* are as an initial state has them.                                         *)
TypeOK ==
  CASE part = "socket" -> WsTypeOK
    [] part = "timer" -> TimerTypeOK
    [] part = "change" -> ChangeTypeOK
    [] part = "batch" -> ListenTypeOK
    [] part = "connections" -> ConnectionsTypeOK
    [] part = "stream" -> StreamTypeOK
    [] part = "pool" -> PoolTypeOK
    [] part = "worker" -> WorkerTypeOK
    [] part = "settings" -> SettingsTypeOK
    [] part = "items" -> DataTypeOK
    [] part = "fields" -> FieldsTypeOK
    [] part = "matrix" -> MatrixTypeOK
    [] part = "pace" -> PaceTypeOK
    [] part = "tables" -> TablesTypeOK
    [] part = "address" -> AddressTypeOK
    [] part = "slowing" -> SlowingTypeOK
    [] part = "future" -> ListenableFutureTypeOK

(* Nothing is given, or told, twice: a channel is in one place at a time, and  *)
(* a listener of a future hears of its outcome once.                          *)
NothingTwice == OnePlace /\ ToldOnce

(* The session's messages and updates come once and in order, and from its    *)
(* newest stream connection, and it is told that this one is slow only for    *)
(* delays that were measured.                                                 *)
StreamIsHeard == PassedOnceInOrder /\ HearsTheNewest /\ SlowIsMeasured

(* What a subscription tells of itself is so: the getters agree with the      *)
(* request that was sent, items are read, and updates flagged, as sent, a     *)
(* field's name reads the value sent for it, and a matrix what was written.    *)
SubscriptionIsAsTold ==
  CASE part = "settings" -> GettersTellTheRequest
    [] part = "items" -> ItemsAsSent
    [] part = "fields" -> NamesReadAsSent
    [] part = "matrix" -> HoldsWhatIsWritten
    [] OTHER -> TRUE
===============================================================================
