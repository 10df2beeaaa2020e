# A model of the Lightstreamer C++ client

TLA+ modules, TLC configurations and TLAPS proofs for the client library of this
repository. Paths below are relative to `src/include/lightstreamer/client/` unless
they start with `util/` (`src/include/lightstreamer/util/`). `PROJECT.json` maps every
definition to the lines it models, lists the runs, the mutants that show each property
can fail, the findings, the hazards and the theorems.

## The system

The client keeps one *session* with a Lightstreamer server. Data comes in on a stream
connection, over WebSocket or HTTP; the client's own requests (subscribe, unsubscribe,
messages, bandwidth, heartbeats, destroy) go out on the same WebSocket or on control
connections of their own over HTTP. Client calls only queue a task; a single *session
thread* (`session/SessionThread.hpp`) runs the tasks one at a time, so a handler is atomic
and what interleaves is the order of the tasks: client calls, network events, timeouts.
Notifications to the application's listeners run on another thread, the events thread.
Three places escape this order: the setters, getters and listener calls of the application's
own threads, the detached threads of the heartbeat timer, and the sleeping threads of the
executors. There the models go down to single steps.

| Component | State | Operations | Correct when | Modules |
|---|---|---|---|---|
| `SubscriptionManager`, life cycle of a `Subscription`, tutors | table id to Subscription, pending sets, `sessionAlive`; per Subscription `isActive`, id, phase, counter; per request a tutor | subscribe, unsubscribe, session start and close, answers and updates, timeouts, frequency changes | every subscription of a live session has a request, a tutor or the server's agreement; what was removed is removed from the server | `SubscriptionManager`, `ChangeRequests` |
| `HttpRequestManager`, `BatchRequest` | status, phase counter, four queues, turn, ongoing requests, open connection | add, sync and deferred dequeue, connection events, limit, close, hand-over | one control connection at a time, no lost wakeup, no starvation, nothing lost in a hand-over | `HttpRequestManager` |
| `WebSocketRequestManager`, `transport/WebSocket.hpp` | buffered requests, pending answers, ongoing slot, socket states | open, bind, add, answers, close, hand-over | each request sent once, in order, after the bind; the answers to their listeners | `WebSocketRequestManager`, `ControlChannel` |
| Listeners of control requests (`TextProtocol`, `BatchedListener`, tutors) | per listener opened / answered, per tutor discarded / timing | open, answers, close, broken, timeout, hand-over | none forgotten | `ControlListeners` |
| `ReverseHeartbeatTimer` | interval, maximum, phase, bind flag, detached threads | bind, change interval, control request, close, task | no silence longer than the interval, one live chain of tasks | `ReverseHeartbeatTimer` |
| `TextProtocol` | stream status, `currentProg`, listeners | create/bind/recover, one handler per message, stop | messages of the newest stream only; each notification counted and delivered once across a recovery | `StreamConnections`, `StreamMessages` |
| `Session`, `SessionManager`, `ServerSession`, `OfflineCheck`, `RecoveryBean` | phase and phase count, switch and slow flags, status and status phase, the session in charge | create, bind, recover, switch, retry, timeouts, close, disconnect | one session in charge; stale timers and events do nothing; a switch is performed or given up | `Session`, `SessionAddress`, `RetryPace`, `SlowingHandler` |
| Subscription data | settings, descriptors, snapshot state, rows and values, second-level tables | setters and getters, update, end of snapshot, clear, schemas, frequencies | what the getters and listeners tell is what was configured and sent | `SubscriptionSettings`, `ItemData`, `FieldPositions`, `ValueMatrix`, `SubscriptionTables` |
| Events and executors | queues, locks, condition variables, stop flags, wrappers of listeners | queue, loop, stop, join, add/remove listener, dispatch, futures | no task lost, no worker asleep with work or at its end; promised order of listener calls | `TaskQueue`, `WorkerThreads`, `ListenerContract`, `EventDispatcher`, `ListenableFuture` |
| WebSocket pool and provider | free channels, their users, mutexes | connect, loop, end, disconnect, broken | a channel in one place at a time | `WebSocketPool` |
| `LightstreamerClient` facade, options | lists of listeners and subscriptions, last status, options, mutexes | add/remove listener, subscribe, unsubscribe, set options, report | calls return, listeners hear the last of it, lists agree | `LightstreamerClient` |
| Client messages, formatting, cookies, logger, C++20 drafts | – | – | see *Not modelled* | – |

What is hard in this system: requests whose answer is lost, late or outlives its session;
retransmission timeouts racing answers, removals and session ends; stale phases (subscription
phase, status phase of the request manager, session phase, handler phase); a dismissed
object still called by an event; a hand-over between two request managers while requests
are on the wire; locks and condition variables in the small executors; non-recursive
mutexes taken by the application's threads, its listeners and the events thread.
The 40 hazards of `PROJECT.json` name the lines.

## How unfinished code is read

The library is a port in progress; parts are commented out, declared and not defined, or
never called. The rules, applied everywhere and repeated in the header of each module:

* A function that is written is modelled as written, also when it looks wrong.
* A call that is elided in a comment ("necessary setup", `// prepareNewSessionInstance`,
  `// oldValuesByItem ...`) is taken at its place only where other code cannot work without it,
  and the header says so. `SessionManager::createSession` is not such a case: it goes on
  using the public field `session`, so the model does too.
* What is declared and not defined, and the network and the server, is external.
* `TextProtocol::onProtocolMessage` dispatches a few messages and leaves the others to be
  completed; each message is taken to the handler of its name. `READING_STREAM` is set by
  nothing. `currentProg` is the optional number its uses make of it.
* Assertions are taken as compiled out. Undefined behaviour is a choice: the uninitialised
  `activeConnection`, the iteration of `Matrix.forEachElement` that erases while it goes on,
  the unlocked visits of `subTables`.
* Phase counters that are only compared are modelled by what the comparison tells.

## How the runs are built

`SubscriptionManager`, `HttpRequestManager`, `Session` and `LightstreamerClient` have runs of
their own. The smaller components under the session are checked by one run, `protocol`
(`MCProtocol`): each module has its own Init and Next with variables of their own, and `part`
says which of the seventeen a behaviour is of, so that one run checks all without their
product. The parts share no variables: what composes is inside them (a manager with its
sockets, a batch with its listeners and tutors, two levels of a subscription). A property of
the run speaks of its part and is TRUE of an idle one. The run `protocol_settles` has the three
parts of which something must happen, with their fairness and liveness properties.

## SubscriptionManager

`SubscriptionManager.tla` models the subscription machinery end to end, with the client
calls, the tutors, the part of the request manager it sees, and the server.

* State: `active`, `subscriptionId`, `tablePhaseType`, `tablePhase` are the fields of the
  Subscription objects; `subscriptions`, `pendingDelete`, `pendingUnsubscribe`,
  `sessionAlive` those of the manager; `tasks` the add and remove calls queued for the
  session thread; `queued`, `calls`, `timers` the requests not sent yet, awaiting their
  connection or answer, and watched by a running timeout; `wire`, `server`, `notes` the
  network and the server's side.
* Actions: `ClientSubscribe` / `ClientUnsubscribe` (the client thread: flip `isActive`,
  queue a task), `DoAdd` / `DoRemove` (the tasks), `SessionCreate`, `SessionStart`,
  `SessionClose`, `OnFatalError`, `SendBatch` (asks each tutor whether its request should
  still be sent), `OnOpen` (starts the timeout), `Timeout`, `CallBroken`, the answers,
  and `ReadNote` for everything that comes on the stream connection.
* The server is external: it accepts or refuses a subscription, adding twice is adding
  once, and it may send updates for anything subscribed.
* Choices: the listener of an unsubscription request and `reunsubscribe` are declared
  and not defined in the repository, so they are external; `onProtocolMessage` dispatches
  only the control answers, so the listener methods of the other messages are taken as the
  code defines them; no code calls `onSessionStart`, the model starts the session where the
  protocol would. Answers of a batch are taken one by one, in any order, which allows more
  than the code. An answer is assumed not to come before `onOpen`. Over WebSocket answers
  travel in stream order; over HTTP they come on their own connection, also after the
  session that asked has closed to retry. Frequency changes are in `ChangeRequests`, and so is the
  tutor that sends again because the stream connection was replaced; rebinding inside a WebSocket
  session is in `WebSocketRequestManager`.

Properties: `TablesConsistent` (the table, the id and the OFF phase agree, and a delete is
deferred, or asked for, or the subscription is in the table, never two of them),
`DeferredNotSent` (a deferred delete is not on its way), `SingleTutor` (one live tutor
per subscription, across retransmissions), `NotForgotten` (in a live session a subscription
in a requesting phase has a request or a tutor), `PushingIsSubscribed` (isSubscribed() means
the server agrees), and the liveness properties `OrphansRemoved` and `SubscriptionSettles`.

Runs (of the module itself):

| cfg | instance | shows |
|---|---|---|
| `SubscriptionWs` | 1 Subscription, 2 ids, 2 sessions, WebSocket, fairness | types, table, pending sets, nothing forgotten, isSubscribed() is true of the server, removed means removed |
| `SubscriptionHttp` | 1 Subscription, 2 sessions, 1 broken connection, HTTP, fairness | deferred deletes, one tutor, everything settles |
| `SubscriptionLateRequest` | HTTP | finding: a late answer sends a request through the dismissed manager |
| `SubscriptionPersistence` | HTTP | finding: a late REQOK of the old session loses a Subscription in the new one |

Bounds: one id and two sessions let a request outlive its session; two ids let
a Subscription be added, removed and added again; two queued calls (over HTTP) let an add
and its remove wait together; what one Subscription could do to another's entry of the table is
left to the proofs below, which are of any number of them; one broken connection is enough
for a retransmission. The runs disable the deadlock check: the client may make no more calls and the ids run out.

Fairness: weak fairness of the session thread's tasks (add, remove, sending, reading) and,
per id, of the opening of a connection, the server, the answer and the timeout. It is
what `SessionThread` gives (a queue served by one thread) plus a network that does not
stay silent for ever. No fairness is assumed of client calls, session closes or breaks.
`OrphansRemoved` is stated over WebSocket only; over HTTP a late error of the old session
can pause a subscription of the new one, whose removal then sends no delete.

### Proofs

`SubscriptionManager_proofs.tla` proves, for any number of Subscriptions, ids, sessions,
queued calls and breaks, and for both transports: `TypeCorrect`, `TablesAreConsistent`,
`DeferredAreNotSent`, `TutorsAreSingle` and `NoneIsForgotten`; and, over WebSocket,
`PushingOverWebSocket`. The assumptions are those of the module on
its constants. The properties are not inductive: `DoRemove` deletes what the task's
Subscription has in the table, and it is a queue of calls that guarantees there is
something. The inductive invariant `IInv` adds

* `NothingBefore`: no request, tutor or notification exists before the first session;
* `TasksAlternate`: the queued calls of one Subscription alternate between add and remove,
  start from what the table says and end with what `isActive` says;
* `FreshIds`: nothing mentions an id that was not given out, so an add disturbs nobody;
* `DeletesAreDue`: a delete on its way is for an id out of the table and not deferred.

`QuietStep` shows that every step but `DoAdd` and `DoRemove` spares the table and keeps
requests accounted for; the two are proved each on their own.

`SingleTutor` and `NotForgotten` need each other, and the second needs `IInv`: a tutor that
retransmits replaces the request it gives up, and one that is wrong about being alive would add
another. `TInv` is both with what tells a live request from a stale one (`TutorsInductive`):

* `OneTutor`: the live request of an id is one and in one place: queued, on a connection that is
  not open yet, or watched by a timeout;
* `NoneAhead`: no request is of a phase its Subscription has not reached, so that the next
  phase finds none;
* `LiveAreCurrent` and `AliveIsReady`: live requests are of the session that is alive, and the
  manager they are given to takes them.

`Still` steps change neither phases nor tutors, `Replaced` ones pass a request from one keeper
to the next, `Moves` ones leave a phase for the next; every action is one of these or
begins or ends a session.

`PushingIsSubscribed` does not hold over HTTP: that is finding 2. Over WebSocket nothing of a
session outlives it, and `WsInv` says so: without a session there is no request, answer or
notification (`Ended`), what there is belongs to this session (`OfThisSession`), and an answer or
notification that will make a subscription PUSHING tells of one the server has
(`AcceptedIsThere`).

## HttpRequestManager

`HttpRequestManager.tla` models `protocol/HttpRequestManager.hpp` with `BatchRequest.hpp`:
the four queues (messages, control, destroy, heartbeats), the substitution of a queued
request by a later one with its key, the turns, the batch under the server's limit, the
events of the control connection with the retransmission of what never opened, the
deferred dequeue with its captured phase, `close` and `copyTo`. A request is a model value
with a queue, a key and a length.

* State: the fields of the class under their names; `deferredDequeue` is the phase captured
  by the dequeue that waits for the session thread (−1 when none); `batch`, `opened`, `lost`
  are the connections: what they carry, whether `onOpen` came, whether the transport failed
  to create them (`transport/Http.hpp` then returns no handle and an `onBroken` follows);
  `unwanted` are the requests whose tutor answers FALSE to `shouldBeSent`.
* Actions: `AddRequest`, `Lapse`, `DeferredDequeue`, `OnOpen`, `ConnectionEnds` (`onClosed`
  and `onBroken`: the same state changes), `SetRequestLimit`, `Close`, `CopyTo` (the copy and
  the close of the old manager, one task in `SessionManager::prepareNewSessionInstance`).
  `SendNext` is what the three ways to dequeue share.
* Choices: `addToProperBatch` spells out messages and heartbeats and elides the casts of
  the other kinds in a comment; the model sends them to the queues BatchRequest has
  overloads for. The session thread is first in, first out, so the events of a connection come
  after a dequeue queued before it was requested: that is the guard `deferredDequeue = -1`
  of the events. Each connection ends once, as `RequestListener.hpp` says. A request
  can be added again while an earlier copy is on the wire (retransmission). Heartbeats are
  added by a detached timer thread in the code; `ReverseHeartbeatTimer` has the thread and its
  races with the timer, and here an add is atomic.
* `activeConnection` has no initialiser, so `Init` lets it be null or wild.

Properties: `OneConnection` (class documentation: at most one control socket),
`NoLostWakeup` (an idle manager with requests has a dequeue under way that its phase does
not discard), `OngoingIsOnTheWire` (the list
handed to the next manager is what is on the wire),
`Served` (liveness: the turns starve no queue).

| cfg | instance | shows |
|---|---|---|
| `HttpRequestManager` | 3 control requests, two of them rivals for a key, 1 destroy request; limits none and 3; 2 connection handles; 2 closes; fairness | types and the four properties above |
| `HttpRequestManagerLimit` | 2 messages, control, heartbeat, limit 5 | finding: a batch may exceed the limit by the separator |
| `HttpRequestManagerEnding` | 2 requests, 2 closes | finding: a second close, or one before anything was sent, leaves the manager ENDING |

Bounds: requests are added again without limit, so the behaviours are infinite and
starvation would show; `statusPhase` wraps at 4, more than the changes that can happen
while one dequeue waits (a send and two closes), so no two phases are confused; two closes
are what the second-close finding needs; two handles make a second connection possible. The
runs disable the deadlock check: a closed manager stops.

Fairness: the session thread runs the deferred dequeue, and a connection ends some time (it is
created with connect and read timeouts). The fairness formulas name what only those steps
change, which says the same and keeps TLC's ENABLED cheap.

`HttpRequestManager_proofs.tla` proves `AtMostOneConnection` and `NoWakeupIsLost` for all
requests, limits, handles and phase moduli. The inductive invariant adds `IdleIsClosed`: an
idle manager has no open connection. `SendNextStep` carries the argument: a batch is
sent only when every other connection is over, and leaves the manager waiting.

`TypeCorrect` and `WireIsKnown` (`OngoingIsOnTheWire`) rest on a second invariant, `WireInv`,
inductive given the first. It says that each queue is a batch of its kind, that the ongoing requests are those of the connection the manager waits for
(`Awaited`), what an open connection carries in each status (`OnTheWire`), and how many changes
of phase a waiting dequeue may be behind (`DequeueDelay`): a dequeue of a phase that wrapped
would otherwise pass for one of the present. That is where `PhaseModulus > MaxCloses + 1` is
needed; the code counts phases in an integer, so it stands for any number of closes that does
not overflow it. What a batch takes from a queue, and what filtering it leaves, is by `Kept` and
`Folded` of `RecursiveData` (see *Proofs about data*).

## Session

`Session.tla` models the four classes that drive a connection: `LightstreamerEngine`'s
connect and disconnect, `SessionManager` with `ServerSession`, `Session` with `SessionHTTP`,
`SessionWS`, `OfflineCheck` and `RecoveryBean`. They call each other back and forth in one
task, so the client's state is a record and each function that handlers share is an operator
on it; a handler composes them in the order of its calls and is one action.

* State (`client`): the phase of the session and of its WebSocket, the transport asked for and
  in use, what the manager waits for (`status`), the flags for switching and slowing, whether
  the session answers with the manager's current phase (`heeded`, for `handlerPhase` against
  `statusPhase`), the timers that still count (`timers`, for `phaseCount`), the stream, a bind
  under way, and the delayed tasks (`offlineTask`, `switchTimer`).
* Actions: `Connect` and `Disconnect`; from the stream `OnOKReceived`, `OnLoopReceived`,
  `OnSyncMessage`, `OnEvent`, `OnInterrupted`, `OnSessionLost`, `OnServerError`, `OnClientIp`;
  from the transport `BindSent`, `ConnectionOK`, `ConnectionError`; `Timeout`, `SwitchTimeout`,
  `OfflineTask`, `ResetMaybeOnline`; and `NetworkChanges`.
* Choices: `Session::onEvent` always sets the timeout of execution, so a created session that
  hears anything is given up `stalledTimeout` later; PAUSE, BINDING, RECEIVING, STALLING and
  STALLED are never entered, and `RecoveryBean.recovery` is never TRUE. `launchTimeout` drops
  the future of a `std::async`, which makes the caller wait: a timer that runs when it likes
  covers both.

Properties: `FrozenKeepsTransport`, `SwitchingIsHeeded` (the switch the manager waits for is
answered with a phase that counts, and no switch survives its session), `OpenStreamIsOwned`,
`SleeperWillWake`, `StaysDisconnected` (after disconnect no timer, bind or answer under way
brings the session back, until connect; but the delayed creation of the finding),
`CreatingEnds` (liveness). Runs: `session` (every forced transport and none, early opening,
14,468 states) and `session_disconnect` (finding 5). A single record keeps TLC at seconds; the
counts saturate at two, which is all the code can tell; nothing in the code starts a recovery
(`NeverRecovers`, below). Fairness: the sleeping threads wake up
and the session thread runs their tasks; nothing is assumed of the server or the network.

`Session_proofs.tla` proves the five invariants and `StaysDisconnected` for every behaviour of the
network and the server; only `CreatingEnds` is left to TLC. The model's handlers are
compositions of operators on the record, so the proof is too: `Clients` is the set of records,
`Sound` those that may occur, and each operator has a lemma of what it does to a record
(`SameSelf`, `SameStatus`, `SameLife`, `SameWishes` name the fields it spares), each handler one
that it leads from `Sound` to `Sound`. `Sound` is

* `Recoverless`: the recovery flag of the bean is FALSE and no timer of a recovering session
  runs. The code only ever hands the flag on, so that no session recovers;
* `Choices` and `Fits`: a session, and one its manager would make, is as the forced transport
  asks; without it a retry could take back what was forced;
* `Agreeing`: which phases go with each status of the manager. A session that is being switched
  is heard and in a phase that will answer; one the manager does not hear is only being created.
  This is where `SwitchingIsHeeded` comes from, and what the other parts rest on;
* `Streaming`: an open stream, and a delayed creation, by the phase of the session;
* `Waking`: a session that sleeps and is heard has a timer. `Fired`, without it, is the client
  in the middle of the handler of that timer.

`SleeperWillWake` lets more than a timer wake the session; the proof shows that a timer always
does.

Three modules hold what this one abstracts, each with the clock or the addresses it needs:

* `SessionAddress` (part `address`): which server each request of a session goes to, with the
  configured address, the control link, the option to ignore links, the requests waiting in a
  manager and handed over, and the WebSocket's own address. `OneServerPerSession`: all requests
  of a session reach one server. Left out by name: a session created over WebSocket on the
  object of a closed one, where link and queue of the old session remain. Proved in
  `Timing_proofs.tla` for any addresses and any number of sessions.
* `RetryPace` (part `pace`): `RetryDelayCounter`, the three places that increase it, the
  option's setter, and the timeouts launched from it. `AttemptsArePaced`: a failing client
  never tries again sooner than the delay the attempts called for. Up to 13 attempts, so that
  the doubling, which starts at the tenth, reaches the limit.
* `SlowingHandler` (part `slowing`): the mean of the delays, the huge delay forgiven once.
  `SlowIsMeasured`: slow is told only for what was measured.

## Requests over WebSocket

`WebSocketRequestManager.tla` (part `socket`) has the manager and `transport/WebSocket.hpp`:
the socket may be still opening, be replaced when the server names a control link, break, take
too long or be closed; bind, buffer, ongoing slot, pending answers and hand-over. `net` is what
is under way on each socket; tasks of one socket keep their order.

`ControlChannel` is its abstract specification: a request accepted is passed to the transport
once and in order, or to the next manager, but the last one passed on may be given again.
`ImplementsChannel` is `Channel!Spec` with `pending <- controlRequestQueue` and
`delivered <- sent`. Bounds: two sockets (one replacement), two requests, two binds.
`Connections_proofs.tla` proves it for any number of each.

`ControlListeners` (part `batch`): `BatchedListener` and `BaseControlRequestListener` with the
tutors of subscriptions and of forced rebindings over HTTP, retransmission and hand-over.
`EachSettles` (fairness: batches are sent, a connection ends, timeouts run): while the session
is open every request is answered, refused, sent again or need not be sent. It leaves out what
was handed over with a listener that has already heard of one connection.

`ChangeRequests` (part `change`): the frequency of a subscription and the bandwidth of the
session, their tutors, and a server that keeps the last value it heard, over stream connections
that replace one another. `NoOldValue`: the server never goes back to an older value, but for a
bandwidth handed over that is older than the one of the recovery. `ChangeSettles` (liveness):
the last value reaches the server, but for the named ways in which the code loses it (`lost`:
made while creating, added to a dead socket, aborted by its own retransmission, undone by one handed over).
Nothing calls `SessionManager::changeBandwidth` and `changeFrequency` yet; the handlers are modelled.

`ReverseHeartbeatTimer` (part `timer`): the calls of the session thread and the detached tasks,
each in two steps without a lock, against a clock of ticks; a task that is due runs before the
next tick. `HeartbeatInTime`: the server of a bound session never waits longer than the
interval. `SecondTaskByRace`: a second task of the current phase only comes from a task that
compared its phase before a change and schedules after it (the class comment allows none:
finding 7). Two changes let two chains overtake each other. `Longest` bounds the time counted:
more than any interval. Both properties are proved in `Timing_proofs.tla`.

`WebSocketPool` (part `pool`): `IChannelPool`, `CppWebSocketProvider` and `MyChannel` with its
non-recursive mutex. `OnePlace` (in `NothingTwice`): a channel is free or with one provider,
never both or twice, but where `close` gives back what was released (`twice`, a finding).
`SingletonFactory` and other headers these files include do not exist; the classes are modelled
as written. Three providers share two channels, so that one has to wait for another's.

## The stream

`StreamConnections` (part `connections`): the connections of one `TextProtocol`, the listener of
each, and the session that closes, opens again, or does both while it is told of an error.
`HearsTheNewest`: a connection closed or replaced has no effect, and the newest is listened
to, but where it was opened while an error of a control request was being told (finding 6).

`StreamMessages` (part `stream`): the data notifications, PROG, the fields of an update with
their three encodings, the counts of MSGDONE, and recoveries that resume the stream anywhere
after what the client had. `PassedOnceInOrder`: each notification is passed once and in
order, the item shows the last, and each message's outcome is told once, as long as no PROG was
ignored that contradicts `currentProg`. The reference is `HeardOf`, what hearing the log once
comes to. Null and the empty value both arrive as an empty string (`parseUpdate`), so they are one
value. No session of this code starts a recovery (`NeverRecovers`): what the module says of one is
what the handlers keep to if one does, under the contract the session has with them.

## Subscription data

* `SubscriptionSettings` (part `settings`): setters past their check while the client thread
  activates the subscription, and the request that reads the fields with no lock.
  `GettersTellTheRequest`, but after the race of a setter that found the subscription
  inactive (`settingRaces`). So the race is bounded and not refuted: it is finding 26.
* `ItemData` (part `items`): `SnapshotManager` per item, keys and rows of COMMAND mode, EOS and
  CLEAR, across subscriptions of the same object, whose first level heeds an event only while it
  is active and PUSHING. `ItemsAsSent`: `isSnapshot` is told as the mode, the snapshot asked for and
  the events sent before make it (`FlagsAreRight`), and each row reads its last value sent
  (`RowsAsSent`). Rows read nothing only where a clear of the snapshot forgot them since
  (`forgotten`); and the values of items with an event that the client did not heed
  (`unheard`) are left out. A clear of one item forgets those of all: finding 25.
* `FieldPositions` (part `fields`): descriptors of two levels, names or a schema, whose sizes come
  from the server. `NamesReadAsSent`: a name's position is in its level and reads the value sent
  for it, but where the first level was resized under an update already converted (`shifted`).
  What calls the conversion is declared and not defined, so this bounds the race and shows no
  defect.
* `ValueMatrix` (part `matrix`): `util/Matrix` and `util/ConcurrentMatrix`. `HoldsWhatIsWritten`,
  also of the list that a sorted matrix gives: the values in the order of their cells.
* `SubscriptionTables` (part `tables`): the second-level subscriptions, and the highest
  frequency computed by two threads with no lock. What the server says of a level (`AllSaid`) is kept
  apart from what the program makes of it: `configure` reads "unlimited" as −1, which
  ranks below every number. `HighestIsTold`: once both threads are quiet the listener was told the
  highest of what the server said, where all of it is numbers, unless (`excuses`) the threads met in the
  computation, the first level was configured since, or there was nothing to tell.
  An unlimited level ought to be told as the highest and is told as the lowest: finding 23, which
  the property leaves out by name. That the threads met is finding 24.

`SubscriptionIsAsTold` and `StreamIsHeard` join the properties of these parts, each of which
has its own mutants.

## Threads, events and the facade

`WorkerThreads` (part `worker`): `EventsThread` and `CSJoinableExecutor`, whose waiting is taken
apart into the test, the sleep and the waking. Both implement `TaskQueue`, the ordered queue of
tasks (`ImplementsQueue`; for the executor join returns only after every task), as
`Timing_proofs.tla` proves for any number of tasks. `EndsUnlessMissed`
(liveness): the destructor and join return, except after one of the three ways to wait for what
no longer comes. Fairness: both threads go on and tasks return; a thread woken in join gets
the lock in the end (strong fairness), as an idle worker leaves it free for `keepAliveTime`.

`ListenableFuture` (part `future`): states, listeners of both kinds, late listeners, and the
one that asks the future while it runs and hangs it. `ToldOnce` (in `NothingTwice`).

`LightstreamerClient.tla` extends `EventDispatcher` (wrappers, map, dispatching, removal) and
models two application threads, a listener that calls back, the session thread and the
events thread with the non-recursive mutexes of the client, the dispatcher and the options.
A call acquires its mutexes in the order of the code and is done in the step that has them all;
what the other threads see between is who holds what.

* `ListenerContract` is the abstract specification: for each listener, its start comes first,
  its end last, one of each per registration, and no call begins after its removal but the end. `ImplementsContract` is the refinement.
* `CallsReturn` (liveness): no circle of threads waiting for each other's mutexes, except those
  that lock one they hold (`setRequestedMaxBandwidth`, `sendMessage` with one argument: findings 8, 9).
* `ToldOfLast`: when all is quiet each listener knows the last status and option.
  `SubscriptionsAgree`: the manager comes to have the subscriptions the client lists.

Run `facade`: two listeners, two users, one subscription, two statuses, two calls, two reports of
the session (211,969 states): enough for an add and a remove, of a listener or a subscription,
from either thread, or for a listener and a call beside it, while the session thread and the
listeners make calls of their own. What takes three calls, as a listener removed and added
again, is left to the proof. The modules assume that listeners and users are
finitely many, and that threads, statuses and options are told apart by name. Fairness: one weak
fairness of *some* thread's step; as each has finitely many steps per call, it says no more than
that the machine does not stop while a thread can go on.

`LightstreamerClient_proofs.tla` proves all of this but `CallsReturn`, for any number of
threads, listeners, subscriptions, statuses and calls, where the run has two listeners, one
subscription and two calls. None of the properties is inductive: what a listener was not told yet is in a queue
of tasks. The inductive invariant `IInv` says what the queue holds.

* `Typed`: which tasks may be queued and in hand, which calls each thread makes;
* `Lives`: a listener takes *turns*, its n-th start the 2n−1st and its n-th end the 2n-th. Of the
  `adds + removes` turns due it was told the first `starts + ends`; the queue holds the others,
  each, once and in order (`LivesIn`), and an event of a life comes before its end. So the task
  taken next is the turn that `ListenerContract` allows. An event whose wrapper is alive is one
  of the present life, which has started, as every turn before it was taken;
* `Bounded` and `Calling`: additions are bounded by the users' calls, those being made included;
  the events thread calls only out of a task it has begun;
* `Informed`: a listener in the map knows the option, or a task that makes it read it is queued,
  in hand, or the read is being made;
* `Statused`: while a new status waits to be dispatched, it is the last one. Otherwise each listener
  in the map is `Settled`: an event of another status is followed by one of the last status, and
  what it was told is the last one unless it will be told again or starts a new life, which
  forgets what the former was told;
* `SubscriptionsAgree`, which is inductive: of the tasks about a subscription the last decides.

`KeepsContract` maps each step to one of the contract's, or to a stutter.

## The run `protocol`

| part | states (about) | bounds |
|---|---|---|
| socket | 270,000 | 2 requests, 2 sockets, 2 binds |
| timer | 10,000 | intervals 0, 2, 3 ticks; 2 changes |
| change | 46,000 | 2 values, 2 streams, 1 broken call |
| batch | 22,000 | 2 requests, 1 switch, 1 phase change |
| connections | 9,000 | 3 connections |
| stream | 21,000 | 2 fields, 2 notifications, 2 recoveries |
| pool | 42,000 | 3 providers, 2 channels |
| worker | 255 | 3 tasks |
| settings | 27,000 | 4 modes, 3 calls of setters |
| items | 369,000 | 2 items, 2 keys, 2 values, 3 events |
| fields | 47,000 | 2 names, 3 updates |
| matrix | 900 | 2 rows, 2 columns; values empty, NULL and plain |
| pace | 3,800 | delays 0, 1, 3; limit 5; 13 attempts |
| tables | 166,000 | 2 rows, 2 tables, 2 numbers and unlimited, 1 queued notification |
| address | 26,000 | 2 addresses, 2 sessions |
| slowing | 7,000 | delays 0, 0.1, 6, 16, 30 s; 4 messages |
| future | 600 | 3 listeners |

Together 1,075,122 distinct states, in about two minutes; 68,127 of them are those of `change`,
`batch` and `worker`, which `protocol_settles` visits again. Two of anything that competes is what
each property needs to fail, and each has a mutant that it fails for under these bounds. The
deadlock check is disabled: the inputs of every part are bounded and then run out.

## What is proved and what is only model-checked

Proved by TLAPS, for every value of the constants that meets the modules' assumptions:

| Module | Proved | Only model-checked |
|---|---|---|
| `SubscriptionManager` | `TypeOK`, `TablesConsistent`, `DeferredNotSent`, `SingleTutor`, `NotForgotten`; over WebSocket `PushingIsSubscribed` | `OrphansRemoved`, `SubscriptionSettles` |
| `HttpRequestManager` | `TypeOK`, `OneConnection`, `NoLostWakeup`, `OngoingIsOnTheWire` | `Served` |
| `Session` | `TypeOK`, `FrozenKeepsTransport`, `SwitchingIsHeeded`, `OpenStreamIsOwned`, `SleeperWillWake`, `StaysDisconnected` | `CreatingEnds` |
| `LightstreamerClient` | `TypeOK`, `ToldOfLast`, `SubscriptionsAgree`, `ImplementsContract` | `CallsReturn` |
| `MCProtocol`, the parts of `protocol` | `TypeOK`, `HeartbeatInTime`, `NothingTwice`, `StreamIsHeard`, `SubscriptionIsAsTold`, `HighestIsTold`, `OneServerPerSession`, `ImplementsChannel`, `SecondTaskByRace`, `NoOldValue`, `ImplementsQueue`, `AttemptsArePaced` | `ChangeSettles`, `EachSettles`, `EndsUnlessMissed` |

Each rests on an inductive invariant, which is a theorem too (`Inductive`, `WireInductive`,
`TutorsInductive`, `SessionAgrees`, `FacadeInductive` and one of each part). Those of
`SubscriptionManager`, `HttpRequestManager`, `Session` and `LightstreamerClient` are described
with their modules. The parts of `protocol` are proved each on its own, in `Connections_proofs`,
`Timing_proofs` and `Protocol_proofs`; the last extends the other two and `MCProtocol`, shows
that a behaviour of its `Spec` is one of each part or leaves it idle (`WsPart`, `PoolPart` and
so on), and gathers the properties of the run (`NothingIsTwice`, `StreamIsHeardOnce`,
`SubscriptionTellsTheTruth`, `SecondLevelIsTold`, `ChannelIsImplemented`, `PartsAreTyped` and the
others). The parts share no variable, so this composes specifications and no states.

Connections (`Connections_proofs`):

* `ImplementsChannel` (`ManagerIsAChannel`): each step of the manager is `Accept`, `PassOn`, `Flush`
  or `HandOver` of the channel, or a stutter. That a flush may pass on the whole queue needs
  that queued requests were not sent before and that nothing waits for an open socket; that a
  hand-over may give the ongoing request again, that it is the last one sent; and that only
  the current socket can open or answer needs that a replaced one is closed. `WsIInv` is
  these four. The module assumes that no request equals the markers `"none"` and `"bind"`.
* `OnePlace` (`ChannelsInOnePlace`): counting users and places in the queue is not inductive, as a
  channel given back leaves one for the other in one step. `PoolIInv` says that each channel,
  but those in `twice`, is used by one provider and not free, free once and not used, or neither
  (lost), and that a provider has a channel only once connected.
* `HearsTheNewest` (`NewestIsHeard`): `ConnectionsIInv` says of every connection ever opened that
  an older one is disabled or has sent its last message, and of the newest that the protocol minds it unless it was
  cut off while an error was told.
* `ToldOnce` (`ListenersAreToldOnce`): `FutureIInv` adds that an unresolved future has told nobody
  and that a resolved one keeps the outcome it was resolved with.
* `PassedOnceInOrder` (`NotesArePassedOnce`): `StreamIInv` says, unless a PROG misled the client,
  that it counted what it passed on, that what it shows and told is `HeardOf` up to the last of
  those (`CountsPassed`), and where on the log the connection stands (`Placed`): as far as
  `currentProg` on a recovered one, so that what is repeated is skipped and nothing else. Types
  hold also once it was misled, and for those `StreamKnown` has a budget: what was counted
  and what the connection may still bring fit the connections there were.
* `NoOldValue` (`NeverAnOldValue`): an action property of one queue is an order of all of them.
  `ChangeIInv` says, unless an older bandwidth was handed over, that the values rise from the
  server through the calls under way to the outbox and the last one asked for (`InOrder`); a call
  overtaken by another was applied already; a recovering session carries the last (`CarriesTheLast`).

Timing (`Timing_proofs`):

* `HeartbeatInTime` and `SecondTaskByRace`: a bound on the silence so far says nothing of the
  next tick, so `TimerIInv` says that some task of the current phase wakes before the interval is
  over; for that the time `schedule` reads, since the last control request, must be at least
  the silence. No task precedes the bind or is of a phase to come. The module assumes that
  `Longest` exceeds every interval.
* `AttemptsArePaced` (`RetriesArePaced`): `PaceIInv` says that the delay in force is what the
  attempts call for, doubling from the tenth and up to the limit, and that the age of the attempt
  and the time left of its timeout make up the delay called for while no answer came. Assumed:
  finitely many delays are tried, and ages are told apart up to the longest of them.
* `SlowIsMeasured` (`StreamIsSlowAsMeasured`): `SlowingIInv` says that the mean is between the
  least and the greatest delay it is of, in fractions of a millisecond (`MeanInRange`), what it
  is of (`MeanMeasured`), and what was so when slow was told (`SlowMeasured`). Assumed: finitely
  many delays, and at least one.
* `ImplementsQueue` (`ThreadsAreAQueue`): `Start` and `End` of the queue need that no task is in
  hand, so `WorkerIInv` says that one is just while the worker runs it, that `join` waits for the
  worker with an empty queue, and that a task queued with the flag down finds no worker.
* `OneServerPerSession` (`SessionHasOneServer`): the servers a session has reached say nothing
  of the next request, so `AddressIInv` adds that a live session has one address and that its waiting
  requests, control link and WebSocket have it too; that a session being created starts with
  none of them, but for a WebSocket opened early to the configured address; and that ids to come have
  reached none. Every conjunct exempts the sessions left out by name (`tainted`). For the
  types, `AddressesAreKnown` adds that a session under way has an address and a number.

Subscriptions (`Protocol_proofs`):

* `HighestIsTold` (`HighestIsKnown`): a computation visits the rows' tables with no lock.
  `TablesIInv` says of a thread that computes alone that what it has so far is the highest of the
  first level and the tables it has left behind (`Alone`), and once all are quiet, of all (`Computed`).
  This is in the order of the code. That it is the order of the server's frequencies is a step of
  its own, and one that holds of numbers only: `ReadIsReal` says what `configure` makes of each,
  `HigherIsGreater` that `isHigherFrequency` is then the order of numbers.
* `GettersTellTheRequest` (`RequestIsAsTold`): `SettingsIInv` says that a request is the one of the
  settings as they are, and that a setter past its check in an active subscription has raced.
* `ItemsAsSent` (`ItemsReadAsSent`): `ItemsIInv` relates, for each item that missed no event, the
  state of its `SnapshotManager` to what was sent since the subscription, and each row to the
  last value sent for its key or to the clear that forgot it.
* `NamesReadAsSent` (`NamesAreRead`): `FieldsIInv` says that a converted update is behind the first
  level as it is now, and that the old values are those sent, at the positions the sizes give.
  Where a level has a name is `PlaceOfName`.
* `HoldsWhatIsWritten` (`MatrixHolds`): `MatrixIInv` says that a cell is there when it was written
  and not erased since, and that no row is empty. What `sortAndCleanMatrix` returns, folded row by
  row, is shown to go through the cells in order, each once (`OneMoreRow`, `MatrixIsSorted`).
  Assumed: finitely many rows and columns, and no value is the marker `"erased"`.
* `TypeOK` (`PartsAreTyped`): of each part from its invariant, and of `batch`, which no other theorem is
  about, from `ListenersTyped`: a listener never has more answers than its batch has requests.

### Proofs about data

What a batch takes, the delays of ten attempts, the fields of an update or the notifications heard
up to a point are recursive. tlapm instantiates no induction rule and loses its SMT solver where
an operator is declared RECURSIVE. So the modules that are proved about take recursion from
`RecursiveData`, as recursive functions: `Kept` (what SelectSeq selects), `Folded` (what FoldLeft
does) and `TwoToThe`. `DataLemmas` proves what they need of it with no induction rule. A nonempty set of
natural numbers has a least element (`Least`), by well-foundedness of finite sets, hence a set of
numbers with 0 and the successors of its members has them all (`SetInduction`), hence a function
defined by recursion exists (`Recursion`) and two of them agree (`RecursiveAgree`). An induction is then
a *set* of the numbers a fact holds of, which needs no operator parameter. From these come
the least and greatest of finite sets, that `Kept` and `Folded` are sequences and values of their
types, what they have of one more element, and what their elements are.

Out of the prover's reach are the liveness properties (`OrphansRemoved`, `SubscriptionSettles`,
`Served`, `CreatingEnds`, `ChangeSettles`, `EachSettles`, `EndsUnlessMissed`, `CallsReturn`); the
violations of the findings are TLC's too. All other properties of the runs are proved.

## Findings

`PROJECT.json` quotes the lines. Shown by a run: (1) a late answer makes the client use a
dismissed request manager, which throws and ends the session for good; (2) a late REQOK of the
old session silences the new session's request; (3) a batch exceeds the server's limit by
the separator; (4) `close(true)` can leave a manager waiting for nothing; (5) a creation
delayed while offline survives disconnect.

Met while modelling, and excluded by name from the properties concerned: (6) a stream opened
while an error is told is not heard; (7) two chains of heartbeat tasks after a race;
(8) `setRequestedMaxBandwidth`, `resetConnectTimeout` and `getRetryDelay` and (9) `sendMessage`
with one argument lock a mutex twice; (10) requests added to a dead socket are dropped;
(11) after `createSession` the session's phase is stale and its next failure is not
retried; (12) `CSJoinableScheduler::schedule` never returns; (13, 14) `MyChannel::onBroken` locks
twice, `close` closes and gives back a released channel; (15) LOOP is matched with
the expression of OV; (16) `interruptSession` tells the session nothing; (17) values by name
are looked up at position 0; (18) values are not cleared upon unsubscription; (19) a
Subscription's constructor sets no descriptor; (20) `switchCheckTimeout` is not reported;
(21) the retry delay does not double in its first nine steps; (22) `EventsThread`'s end can be missed;
(23) an unlimited frequency is kept as −1 and loses against every number; (24) the frequency told is
not the highest when two threads compute it at once; (25) clearing the snapshot of one item forgets
the rows of the others; (26) a setter past its check modifies an active subscription; (27) a null
pointer is made the string of the frequency told when there is none.

## Not modelled

* `MessageManager` and client messages: the members of the interface are empty, the tutors of
  message requests are declared and not defined: there is no code for sequences and
  acknowledgements. MSGDONE / MSGFAIL are in `StreamMessages`, the locks of `sendMessage` in
  `LightstreamerClient`, messages in the queues of `HttpRequestManager`.
* Nobody uses: `StaticAssignmentMultiplexer` (it has no workers), `JoinablePoolExecutor` (its
  second execute always throws), `CSJoinableScheduler` (schedule blocks for ever: a finding),
  `ListenerHolder`, `RequestsHelper::completeControlLink`, `setDefaultSessionId`,
  `SessionWS.StateMachine.sendBind`, Subscription's own template `Matrix` with
  `applyFrequencyToSubscriptions`, `removeAllSubTables`. `getCommandPosition` and
  `getKeyPosition` always throw.
* The session phases nothing enters (see Session), and the statuses reported to listeners: after
  `RequestSwitch` the phase is heeded again without a report, and the call that would report
  `STALLED` is commented out, so nothing true can be said of them beyond finding 11.
* `disconnectFuture`, which waits for executors that `ExecutorFactory::getDefaultExecutorFactory`
  never has: it returns a base factory whose getters return null.
* Wording and I/O: query strings, encodings, cookies, proxies, the trust manager, `HttpProvider`,
  the logger; validation of option values and the setters that take one lock and write one field.
* C++20 module drafts (`.cppm`), which repeat the declarations.

## Plan

Done: the managers of requests, the session, the protocol, subscription data, threads and the
facade, with three abstract specifications, whose refinements are proved, and the proofs of every
property that a passing run checks but those of liveness. Left, when the code grows: client messages
once their tutors exist, the phases from PAUSE on once something enters them, status reports.
