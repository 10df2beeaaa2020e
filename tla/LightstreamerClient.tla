-------------------------- MODULE LightstreamerClient --------------------------
(***************************************************************************)
(* The calls an application makes, on its own threads and in its listeners  *)
(* on the events thread: the facade LightstreamerClient, ConnectionOptions   *)
(* with the InternalConnectionOptions below it, and the events they cause.   *)
(*                                                                          *)
(* Each call takes its mutexes one after the other, works with all of them  *)
(* held, and returns: no code here releases one in between, so its changes  *)
(* show at once.  The mutexes: client (LightstreamerClient.mutex), options   *)
(* (ConnectionOptions.mtx), internal (InternalConnectionOptions.mutex) and   *)
(* dispatcher (EventDispatcher.mutex).  That of the queue is held for no     *)
(* other lock and is left out.                                              *)
(*                                                                          *)
(* Two options stand for all: forcedTransport, which the application sets and *)
(* the engine is told of, and realMaxBandwidth, which the session thread      *)
(* sets.  Listeners watch one of them, whose values are numbered as they are  *)
(* set: they read it when they start and when they are told of its change.    *)
(* A listener told of a status may remove itself.  The session reports its    *)
(* statuses through the engine.                                             *)
(***************************************************************************)
EXTENDS EventDispatcher

CONSTANTS
  Users,          (* threads of the application       *)
  Subscriptions,
  Statuses,       (* what the session may report      *)
  MaxCalls,       (* bound: calls of the users        *)
  MaxReports      (* bound: statuses reported         *)

VARIABLES
  call,                (* what each thread is calling, and how many of its mutexes it holds *)
  calls,               (* calls begun by the users                  *)
  watched,             (* the option the listeners read             *)
  option,              (* its value                                 *)
  engineKnows,         (* its value when the engine was told last   *)
  told,                (* the value each listener read last         *)
  lastStatus,
  toldStatus,          (* the status each listener was told last    *)
  reports,             (* statuses reported and options set so far by the session *)
  subscriptionArray,
  managed              (* the subscriptions SubscriptionManager has *)

ofCalls  == <<call, calls>>
ofOption == <<watched, option, engineKnows, told>>
ofStatus == <<lastStatus, toldStatus, reports>>
ofSubs   == <<subscriptionArray, managed>>
vars     == <<dispatcherVars, ofCalls, ofOption, ofStatus, ofSubs>>

Worker  == "events"
SessionThread == "session"
Threads == Users \cup {Worker, SessionThread}
Options == {"forcedTransport", "realMaxBandwidth"}
Unknown == "unknown"             (* to a listener, before it is told *)
Disconnected == "DISCONNECTED"
Things  == Listeners \cup Subscriptions \cup Statuses \cup Options \cup {"nothing"}
Count   == 0..MaxCalls
ByUsers == {"addListener", "removeListener", "setOption", "setRequestedMaxBandwidth",
            "subscribe", "unsubscribe", "sendMessage"}
Operations == ByUsers \cup {"none", "getOption", "sessionSetOption", "setStatus", "dispatch"}

Handled == "handled"   (* of a task, once its call began *)

(* Threads are told apart, and a status from what else a listener is told. *)
ASSUME NamesAssumption ==
  /\ IsFiniteSet(Users) /\ Worker \notin Users /\ SessionThread \notin Users
  /\ Disconnected \in Statuses /\ Unknown \notin Statuses
  /\ \A s \in Statuses : s \notin Options \cup {"start", Handled}
  /\ MaxCalls \in Nat /\ MaxReports \in Nat

Call(op, on) == [op |-> op, on |-> on, held |-> 0]
NoCall == Call("none", "nothing")

(* Every variable has its type: no listener ends, or is removed, more often   *)
(* than it starts, or is added.                                              *)
TypeOK ==
  /\ adds \in [Listeners -> Count]
  /\ \A l \in Listeners :
       removes[l] \in 0..adds[l] /\ starts[l] \in 0..adds[l] /\ ends[l] \in 0..starts[l]
  /\ \A t \in ToSet(tasks) \cup {running} :
       /\ t.kind \in {"idle", "start", "event", "end", "status", "add", "remove", "engine"}
       /\ t.on \in Things
  /\ call \in [Threads -> [op : Operations, on : Things, held : 0..3]]
  /\ calls \in Count
  /\ watched \in Options /\ option \in Nat /\ engineKnows \in 0..option
  /\ told \in [Listeners -> 0..option]
  /\ lastStatus \in Statuses /\ toldStatus \in [Listeners -> Statuses \cup {Unknown}]
  /\ reports \in 0..MaxReports
  /\ subscriptionArray \subseteq Subscriptions /\ managed \subseteq Subscriptions
-----------------------------------------------------------------------------
(* The mutexes of each call, in the order it takes them.                     *)

(* setMaxBandwidthInternal. *)
MaxBandwidthLocks == <<"internal", "dispatcher">>

(* setRequestedMaxBandwidth calls it with the same mutex held. *)
BandwidthLocks == <<"options", "internal">> \o MaxBandwidthLocks

(* Every setter of ConnectionOptions calls one below, which dispatches.      *)
SetterLocks == <<"options", "internal", "dispatcher">>

(* The inner mutex is taken first. *)
GetterLocksReversed == <<"internal", "options">>

(* Every getter of ConnectionOptions calls the one below. *)
GetterLocks == <<"options", "internal">>

(* addListener and removeListener. *)
ListenerLocks == <<"client", "dispatcher">>

(* sendMessage(message) calls the overload that locks the same mutex. *)
MessageLocks == <<"client", "client">>

(* setInternalRealMaxBandwidth, which the session calls. *)
SessionLocks == <<"internal", "dispatcher">>

Locks == [op \in Operations |->
  CASE op \in {"addListener", "removeListener"} -> ListenerLocks
    [] op = "setOption" -> SetterLocks
    [] op = "getOption" -> GetterLocks
    [] op = "sessionSetOption" -> SessionLocks
    [] op = "setRequestedMaxBandwidth" -> BandwidthLocks
    [] op = "sendMessage" -> MessageLocks
    [] op \in {"subscribe", "unsubscribe", "setStatus"} -> <<"client">>
    [] op = "dispatch" -> <<"dispatcher">>
    [] op = "none" -> <<>>]

Held(t)    == {Locks[call[t].op][i] : i \in 1..call[t].held}
Waiting(t) == call[t].held < Len(Locks[call[t].op])
Wanted(t)  == Locks[call[t].op][call[t].held + 1]
-----------------------------------------------------------------------------
(* What the calls do with their mutexes held.                                *)

(* subscribe and unsubscribe: setActive and setInactive throw if there is    *)
(* nothing to change.                                                       *)
Subscribe(s) ==
  \/ /\ s \notin subscriptionArray
     /\ subscriptionArray' = subscriptionArray \cup {s}
     /\ tasks' = Append(tasks, Task("add", s, 0, "add"))
     /\ UNCHANGED managed
  \/ s \in subscriptionArray /\ UNCHANGED <<ofSubs, tasks>>

(* The manager forgets it at once. *)
UnsubscribeAtOnce(s) ==
  \/ /\ s \in subscriptionArray
     /\ subscriptionArray' = subscriptionArray \ {s}
     /\ managed' = managed \ {s}
     /\ UNCHANGED tasks
  \/ s \notin subscriptionArray /\ UNCHANGED <<ofSubs, tasks>>

Unsubscribe(s) ==
  \/ /\ s \in subscriptionArray
     /\ subscriptionArray' = subscriptionArray \ {s}
     /\ tasks' = Append(tasks, Task("remove", s, 0, "remove"))
     /\ UNCHANGED managed
  \/ s \notin subscriptionArray /\ UNCHANGED <<ofSubs, tasks>>

(* internalListener.onPropertyChange: a call of the engine is queued.  Tasks  *)
(* that others queue before it, while the event is dispatched, are not about  *)
(* the option.                                                              *)
Forwarded(o) == IF o = "forcedTransport" THEN <<Task("engine", o, 0, "engine")>> ELSE <<>>

(* A setter of InternalConnectionOptions: that of the application throws and  *)
(* changes nothing when the value is not valid.                              *)
SetOption(o) ==
  \/ /\ option' = IF o = watched THEN option + 1 ELSE option
     /\ DispatchThen(o, Forwarded(o))
     /\ UNCHANGED <<watched, engineKnows, told>>
  \/ o # "realMaxBandwidth" /\ UNCHANGED <<tasks, ofOption>>

(* A getter of InternalConnectionOptions. *)
GetOption(l) ==
  /\ told' = [told EXCEPT ![l] = option]
  /\ UNCHANGED <<watched, option, engineKnows>>

(* The comparison of setStatus: a status that was the last one is no change. *)
IsNewStatus(status) == lastStatus # status
-----------------------------------------------------------------------------
(* Steps of the calls.                                                       *)

Free(m) == \A t \in Threads : m \notin Held(t)

(* A user calls; until it has its first mutex the call may as well not have   *)
(* begun.  sendMessage(message) never comes to queue its task.               *)
Begin(u, op, on) ==
  /\ call[u] = NoCall /\ calls < MaxCalls
  /\ Free(Locks[op][1])
  /\ call' = [call EXCEPT ![u] = [Call(op, on) EXCEPT !.held = 1]]
  /\ calls' = calls + 1
  /\ UNCHANGED <<dispatcherVars, ofOption, ofStatus, ofSubs>>

Acquire(t) ==
  /\ Waiting(t) /\ Free(Wanted(t))
  /\ call' = [call EXCEPT ![t].held = @ + 1]
  /\ UNCHANGED <<dispatcherVars, calls, ofOption, ofStatus, ofSubs>>

(* InternalListener.onStatusChange: setStatus, then dispatchEvent.  *)
FinishStatus(t, status) ==
  /\ lastStatus' = status
  /\ call' = [call EXCEPT ![t] = IF IsNewStatus(status) THEN Call("dispatch", status) ELSE NoCall]
  /\ UNCHANGED <<dispatcherVars, calls, ofOption, toldStatus, reports, ofSubs>>

Finish(t) ==
  LET op == call[t].op
      on == call[t].on
  IN  /\ call[t] # NoCall /\ ~Waiting(t)
      /\ \/ op = "setStatus" /\ FinishStatus(t, on)
         \/ /\ op # "setStatus"
            /\ call' = [call EXCEPT ![t] = NoCall]
            /\ UNCHANGED <<calls, ofStatus>>
            /\ \/ op = "addListener" /\ AddListener(on) /\ UNCHANGED <<ofOption, ofSubs>>
               \/ op = "removeListener" /\ RemoveListener(on) /\ UNCHANGED <<ofOption, ofSubs>>
               \/ /\ op \in {"subscribe", "unsubscribe"}
                  /\ IF op = "subscribe" THEN Subscribe(on) ELSE Unsubscribe(on)
                  /\ UNCHANGED <<adds, removes, running, starts, ends, ofOption>>
               \/ /\ op \in {"setOption", "sessionSetOption"} /\ SetOption(on)
                  /\ UNCHANGED <<adds, removes, running, starts, ends, ofSubs>>
               \/ op = "getOption" /\ GetOption(on) /\ UNCHANGED <<dispatcherVars, ofSubs>>
               \/ /\ op = "dispatch" /\ DispatchEvent(on)
                  /\ UNCHANGED <<adds, removes, running, starts, ends, ofOption, ofSubs>>
-----------------------------------------------------------------------------
(* The events thread.                                                        *)
ToRun(kinds) == running.kind \in kinds /\ running.what # Handled
AsHandled == running' = [running EXCEPT !.what = Handled]

TakeTask ==
  /\ Take
  /\ UNCHANGED <<ofCalls, ofOption, ofStatus, ofSubs>>

(* A listener that starts, or is told of a change, reads the option. *)
RunReader ==
  /\ ToRun({"start", "event"}) /\ running.what \in {"start", watched}
  /\ call' = [call EXCEPT ![Worker] = Call("getOption", running.on)]
  /\ toldStatus' = IF running.what = "start" THEN [toldStatus EXCEPT ![running.on] = Unknown] ELSE toldStatus
  /\ AsHandled
  /\ UNCHANGED <<adds, removes, tasks, starts, ends, calls, ofOption, lastStatus, reports, ofSubs>>

(* A listener is told of a status, and may remove itself. *)
RunStatusEvent ==
  /\ ToRun({"event"}) /\ running.what \in Statuses
  /\ toldStatus' = [toldStatus EXCEPT ![running.on] = running.what]
  /\ \/ call' = [call EXCEPT ![Worker] = Call("removeListener", running.on)]
     \/ UNCHANGED call
  /\ AsHandled
  /\ UNCHANGED <<adds, removes, tasks, starts, ends, calls, ofOption, lastStatus, reports, ofSubs>>

(* The engine passes a report of the session on. *)
RunStatus ==
  /\ ToRun({"status"})
  /\ call' = [call EXCEPT ![Worker] = Call("setStatus", running.on)]
  /\ AsHandled
  /\ UNCHANGED <<adds, removes, tasks, starts, ends, calls, ofOption, ofStatus, ofSubs>>

(* A listener is told of an option it does not watch. *)
RunUnwatched ==
  /\ ToRun({"event"}) /\ running.what \in Options \ {watched}
  /\ EndTask
  /\ UNCHANGED <<ofCalls, ofOption, ofStatus, ofSubs>>

(* onForcedTransportChanged of the engine, which has the option to read. *)
RunEngine ==
  /\ ToRun({"engine"})
  /\ engineKnows' = IF running.on = watched THEN option ELSE engineKnows
  /\ EndTask
  /\ UNCHANGED <<ofCalls, watched, option, told, ofStatus, ofSubs>>

(* The task of subscribe and of unsubscribe. *)
RunManager ==
  /\ ToRun({"add", "remove"})
  /\ managed' = IF running.kind = "add" THEN managed \cup {running.on} ELSE managed \ {running.on}
  /\ EndTask
  /\ UNCHANGED <<ofCalls, ofOption, ofStatus, subscriptionArray>>

Return ==
  /\ call[Worker] = NoCall
  /\ running # Idle /\ (running.what = Handled \/ running.kind = "end")
  /\ EndTask
  /\ UNCHANGED <<ofCalls, ofOption, ofStatus, ofSubs>>

CallStep(t) == Acquire(t) \/ Finish(t)
WorkerStep ==
  \/ TakeTask \/ Return \/ RunReader \/ RunUnwatched \/ RunStatusEvent \/ RunStatus
  \/ RunEngine \/ RunManager

(* SessionsListenerImpl.onStatusChanged, on the session thread. *)
Report(status) ==
  /\ reports < MaxReports
  /\ reports' = reports + 1
  /\ tasks' = Append(tasks, Task("status", status, 0, "status"))
  /\ UNCHANGED <<adds, removes, running, starts, ends, ofCalls, ofOption, lastStatus, toldStatus, ofSubs>>

(* The session thread stores what the server tells of. *)
SessionSets(o) ==
  /\ call[SessionThread] = NoCall /\ reports < MaxReports
  /\ reports' = reports + 1
  /\ call' = [call EXCEPT ![SessionThread] = Call("sessionSetOption", o)]
  /\ UNCHANGED <<dispatcherVars, calls, ofOption, lastStatus, toldStatus, ofSubs>>
-----------------------------------------------------------------------------
Init ==
  /\ adds = [l \in Listeners |-> 0] /\ removes = adds /\ starts = adds /\ ends = adds
  /\ tasks = <<>> /\ running = Idle
  /\ call = [t \in Threads |-> NoCall] /\ calls = 0
  /\ watched \in Options /\ option = 0 /\ engineKnows = 0 /\ told = [l \in Listeners |-> 0]
  /\ lastStatus = Disconnected /\ toldStatus = [l \in Listeners |-> Unknown] /\ reports = 0
  /\ subscriptionArray = {} /\ managed = {}

Next ==
  \/ \E u \in Users, l \in Listeners, op \in {"addListener", "removeListener"} : Begin(u, op, l)
  \/ \E u \in Users, s \in Subscriptions, op \in {"subscribe", "unsubscribe"} : Begin(u, op, s)
  \/ \E u \in Users : Begin(u, "setOption", "forcedTransport")
  \/ \E u \in Users, op \in {"setRequestedMaxBandwidth", "sendMessage"} : Begin(u, op, "nothing")
  \/ \E t \in Threads : Acquire(t) \/ Finish(t)
  \/ TakeTask \/ RunReader \/ RunUnwatched \/ RunStatusEvent \/ RunStatus \/ RunEngine \/ RunManager \/ Return
  \/ \E status \in Statuses : Report(status)
  \/ SessionSets("realMaxBandwidth")

Spec == Init /\ [][Next]_vars

(* The machine does not stop while some thread can go on.  That is all that    *)
(* is asked: each thread has finitely many steps, so all of them get to go on.  *)
(* What these steps never change, and what each of them does, is named to     *)
(* keep the formula cheap.                                                   *)
Progress ==
  /\ UNCHANGED <<calls, reports>>
  /\ WorkerStep \/ \E t \in {u \in Threads : call[u] # NoCall} : CallStep(t)
FairSpec == Spec /\ WF_<<call, tasks, running>>(Progress)
-----------------------------------------------------------------------------
(* Properties.                                                             *)

(* The calls of each listener come in the order it may rely on, whatever the *)
(* users and the listener itself do meanwhile: none begins once the listener *)
(* was removed, but the last.                                                *)
ImplementsContract == Contract!Spec

(* When nothing is left to do, a listener knows the last value of the option  *)
(* it watches and, if it was told a status at all, the last one; the engine   *)
(* knows the last value of an option that is its concern.                    *)
Listening(l) == InMap(l) /\ starts[l] = adds[l]
ToldOfLast ==
  (tasks = <<>> /\ running = Idle) =>
    /\ watched = "forcedTransport" => engineKnows = option
    /\ \A l \in Listeners : Listening(l) => told[l] = option /\ toldStatus[l] \in {Unknown, lastStatus}

(* The calls return and the queue is worked off, again and again: no threads  *)
(* wait in a circle, each for a mutex that the next one holds; unless some   *)
(* thread locks a mutex that it holds: setRequestedMaxBandwidth and          *)
(* sendMessage(message) do.                                                  *)
SelfLocked == \E t \in Threads : Waiting(t) /\ Wanted(t) \in Held(t)
AtRest == (\A t \in Threads : call[t] = NoCall) /\ tasks = <<>> /\ running = Idle
CallsReturn == []<>(AtRest \/ SelfLocked)

(* The manager comes to have the subscriptions the client lists, in whatever *)
(* order the threads subscribed and unsubscribed.                            *)
Concerns(task, s) == task.kind \in {"add", "remove"} /\ task.on = s
Pending(s) == {i \in DOMAIN tasks : Concerns(tasks[i], s)}
WillHave(s) ==
  IF Pending(s) # {}
  THEN \E i \in Pending(s) : tasks[i].kind = "add" /\ \A j \in Pending(s) : j <= i
  ELSE IF Concerns(running, s) THEN running.kind = "add"
  ELSE s \in managed
SubscriptionsAgree == \A s \in Subscriptions : WillHave(s) <=> s \in subscriptionArray
===============================================================================
