---------------------- MODULE LightstreamerClient_proofs ----------------------
(***************************************************************************)
(* What the application is told of is right, for any number of its threads, *)
(* listeners, subscriptions, statuses and calls: the calls of a listener     *)
(* come in the order it may rely on, and in the end it knows the last value   *)
(* and the last status; the manager comes to have the subscriptions that the *)
(* client lists.                                                            *)
(***************************************************************************)
EXTENDS LightstreamerClient, Integers, SequenceTheorems, FiniteSetTheorems, TLAPS

(* The tasks the queue may hold, and those the events thread may be at:     *)
(* handled ones have begun a call, which they wait for.                     *)
Serial == Nat \ {0}
Queued ==
  [kind : {"start"}, on : Listeners, wrapper : Serial, what : {"start"}]
    \cup [kind : {"event"}, on : Listeners, wrapper : Serial, what : Statuses \cup Options]
    \cup [kind : {"end"}, on : Listeners, wrapper : Serial, what : {"end"}]
    \cup [kind : {"add"}, on : Subscriptions, wrapper : {0}, what : {"add"}]
    \cup [kind : {"remove"}, on : Subscriptions, wrapper : {0}, what : {"remove"}]
    \cup [kind : {"status"}, on : Statuses, wrapper : {0}, what : {"status"}]
    \cup [kind : {"engine"}, on : {"forcedTransport"}, wrapper : {0}, what : {"engine"}]
Begun ==
  [kind : {"start", "event"}, on : Listeners, wrapper : Serial, what : {Handled}]
    \cup [kind : {"status"}, on : Statuses, wrapper : {0}, what : {Handled}]

(* The calls each thread makes, and how many mutexes of each it may get: of *)
(* the two calls that lock one of theirs twice, never all.                  *)
ListenerCalls == [op : {"addListener", "removeListener"}, on : Listeners, held : 0..2]
ReaderCalls   == [op : {"removeListener", "getOption"}, on : Listeners, held : 0..2]
UserCalls ==
  ListenerCalls
    \cup [op : {"subscribe", "unsubscribe"}, on : Subscriptions, held : 0..1]
    \cup [op : {"setOption"}, on : {"forcedTransport"}, held : 0..3]
    \cup [op : {"setRequestedMaxBandwidth"}, on : {"nothing"}, held : 0..2]
    \cup [op : {"sendMessage"}, on : {"nothing"}, held : 0..1]
    \cup {NoCall}
WorkerCalls ==
  ReaderCalls \cup [op : {"setStatus", "dispatch"}, on : Statuses, held : 0..1] \cup {NoCall}
SessionCalls == [op : {"sessionSetOption"}, on : {"realMaxBandwidth"}, held : 0..2] \cup {NoCall}
CallsOf(t) ==
  IF t = Worker THEN WorkerCalls ELSE IF t = SessionThread THEN SessionCalls ELSE UserCalls

Typed ==
  /\ adds \in [Listeners -> Nat] /\ removes \in [Listeners -> Nat]
  /\ starts \in [Listeners -> Nat] /\ ends \in [Listeners -> Nat]
  /\ tasks \in Seq(Queued) /\ running \in Queued \cup Begun \cup {Idle}
  /\ call \in [Threads -> UserCalls \cup WorkerCalls \cup SessionCalls]
  /\ \A t \in Threads : call[t] \in CallsOf(t)
  /\ calls \in Count /\ reports \in 0..MaxReports
  /\ watched \in Options /\ option \in Nat /\ engineKnows \in 0..option
  /\ told \in [Listeners -> 0..option]
  /\ lastStatus \in Statuses /\ toldStatus \in [Listeners -> Statuses \cup {Unknown}]
  /\ subscriptionArray \subseteq Subscriptions /\ managed \subseteq Subscriptions

(* The lives of a listener: it is added and removed, and told so, in turn.  *)
(* The 2n-1st of these tasks tells it of its n-th start, the 2n-th of its   *)
(* n-th end.                                                                *)
IsLife(t, l)  == t.kind \in {"start", "end"} /\ t.on = l
IsEvent(t, l) == t.kind = "event" /\ t.on = l
Turn(t) == IF t.kind = "start" THEN 2 * t.wrapper - 1 ELSE 2 * t.wrapper

(* Of the turns the listener took it was told the first "low"; the queue s  *)
(* tells of the others, in order, up to "high".  Events of a life come      *)
(* after its start.                                                         *)
LivesIn(l, s, low, high) ==
  /\ \A i \in 1..Len(s) : IsLife(s[i], l) => low < Turn(s[i]) /\ Turn(s[i]) <= high
  /\ \A i, j \in 1..Len(s) : i < j /\ IsLife(s[i], l) /\ IsLife(s[j], l) => Turn(s[i]) < Turn(s[j])
  /\ \A turn \in low + 1 .. high : \E i \in 1..Len(s) : IsLife(s[i], l) /\ Turn(s[i]) = turn
  /\ \A i, j \in 1..Len(s) :
       i < j /\ IsEvent(s[i], l) /\ IsLife(s[j], l) => 2 * s[i].wrapper <= Turn(s[j])
  /\ \A i \in 1..Len(s) : IsEvent(s[i], l) => 2 * s[i].wrapper <= high + 1

Alternates(l) ==
  /\ removes[l] <= adds[l] /\ adds[l] <= removes[l] + 1
  /\ ends[l] <= starts[l] /\ starts[l] <= ends[l] + 1 /\ starts[l] <= adds[l] /\ ends[l] <= removes[l]
Lives ==
  /\ \A l \in Listeners : Alternates(l) /\ LivesIn(l, tasks, starts[l] + ends[l], adds[l] + removes[l])
  /\ running.kind \in {"start", "event"} =>
       starts[running.on] = running.wrapper /\ running.wrapper <= adds[running.on]

(* The bound of the users' calls bounds the additions. *)
Adders == {u \in Users : call[u].op = "addListener"}
Bounded == \A l \in Listeners : adds[l] + Cardinality(Adders) <= calls

(* The events thread calls from a task it has begun. *)
Calling == call[Worker] # NoCall => running.what = Handled

(* A listener in the map knows the option, or is about to read it.          *)
Reads(t, l) == IsFor(t, l) /\ t.wrapper = adds[l] /\ t.what \in {"start", watched}
WillRead(l) ==
  \/ Reads(running, l) \/ \E t \in ToSet(tasks) : Reads(t, l)
  \/ call[Worker].op = "getOption" /\ call[Worker].on = l
Informed ==
  /\ \A l \in Listeners : InMap(l) => told[l] = option \/ WillRead(l)
  /\ watched = "forcedTransport" =>
       engineKnows = option \/ running.kind = "engine" \/ \E t \in ToSet(tasks) : t.kind = "engine"

(* The last status a listener is told, or will be, is the last one, unless  *)
(* that is being dispatched: an event of another status is followed by one  *)
(* of the last.                                                             *)
Tells(t, l, wrapper)      == IsEvent(t, l) /\ t.wrapper = wrapper /\ t.what \in Statuses
StartsLife(t, l, wrapper) == t.kind = "start" /\ t.on = l /\ t.wrapper = wrapper /\ t.what = "start"
TellsLast(t, l)  == Tells(t, l, adds[l]) /\ t.what = lastStatus
TellsOther(t, l) == Tells(t, l, adds[l]) /\ t.what # lastStatus
LastIsAhead(l) == \E t \in ToSet(tasks) : TellsLast(t, l)
Settled(l) ==
  /\ \A i \in 1..Len(tasks) : TellsOther(tasks[i], l) => \E j \in i + 1 .. Len(tasks) : TellsLast(tasks[j], l)
  /\ TellsOther(running, l) => LastIsAhead(l)
  /\ \/ toldStatus[l] \in {Unknown, lastStatus} \/ LastIsAhead(l) \/ TellsLast(running, l)
     \/ StartsLife(running, l, adds[l]) \/ \E t \in ToSet(tasks) : StartsLife(t, l, adds[l])
Statused ==
  IF call[Worker].op = "dispatch" THEN call[Worker].on = lastStatus
  ELSE \A l \in Listeners : InMap(l) => Settled(l)

IInv == Typed /\ Lives /\ Bounded /\ Calling /\ Informed /\ Statused /\ SubscriptionsAgree
-----------------------------------------------------------------------------
(* What tasks and calls are made of.                                       *)

(* A queued task is of one of seven kinds. *)
IsQueued(t) ==
  \/ t.kind = "start" /\ t.on \in Listeners /\ t.wrapper \in Serial /\ t.what = "start"
  \/ t.kind = "event" /\ t.on \in Listeners /\ t.wrapper \in Serial /\ t.what \in Statuses \cup Options
  \/ t.kind = "end" /\ t.on \in Listeners /\ t.wrapper \in Serial /\ t.what = "end"
  \/ t.kind = "add" /\ t.on \in Subscriptions /\ t.wrapper = 0 /\ t.what = "add"
  \/ t.kind = "remove" /\ t.on \in Subscriptions /\ t.wrapper = 0 /\ t.what = "remove"
  \/ t.kind = "status" /\ t.on \in Statuses /\ t.wrapper = 0 /\ t.what = "status"
  \/ t.kind = "engine" /\ t.on = "forcedTransport" /\ t.wrapper = 0 /\ t.what = "engine"
IsBegun(t) ==
  \/ t.kind \in {"start", "event"} /\ t.on \in Listeners /\ t.wrapper \in Serial /\ t.what = Handled
  \/ t.kind = "status" /\ t.on \in Statuses /\ t.wrapper = 0 /\ t.what = Handled

(* So it is, in each of its fields. *)
LEMMA QueuedFields == \A t \in Queued : IsQueued(t)
  BY DEF Queued, IsQueued

(* The same of a task whose call has begun. *)
LEMMA BegunFields == \A t \in Begun : IsBegun(t)
  BY DEF Begun, IsBegun

(* No queued task has begun: its "what" is not Handled. *)
LEMMA QueuedWhat == \A t \in Queued : t.what # Handled
<1> SUFFICES ASSUME NEW t \in Queued PROVE t.what # Handled
  OBVIOUS
<1>1. IsQueued(t)
  BY QueuedFields
<1>2. Handled \notin Statuses \cup Options
  BY NamesAssumption DEF Options, Handled
<1> QED
  BY <1>1, <1>2 DEF IsQueued, Handled

(* The tasks that are queued, by kind. *)
LEMMA TaskTypes ==
  ASSUME NEW l \in Listeners, NEW n \in Serial
  PROVE  /\ Task("start", l, n, "start") \in Queued
         /\ \A what \in Statuses \cup Options : Task("event", l, n, what) \in Queued
         /\ Task("end", l, n, "end") \in Queued
  BY DEF Queued, Task

(* The tasks that are not about listeners. *)
LEMMA OtherTaskTypes ==
  /\ \A s \in Subscriptions : Task("add", s, 0, "add") \in Queued /\ Task("remove", s, 0, "remove") \in Queued
  /\ \A s \in Statuses : Task("status", s, 0, "status") \in Queued
  /\ Task("engine", "forcedTransport", 0, "engine") \in Queued
  BY DEF Queued, Task

(* The fields of a task. *)
LEMMA TaskFields ==
  ASSUME NEW kind, NEW on, NEW wrapper, NEW what
  PROVE  /\ Task(kind, on, wrapper, what).kind = kind
         /\ Task(kind, on, wrapper, what).on = on
         /\ Task(kind, on, wrapper, what).wrapper = wrapper
         /\ Task(kind, on, wrapper, what).what = what
  BY DEF Task

(* The task the events thread is at, when it begins a call. *)
LEMMA HandledIsBegun ==
  ASSUME NEW t \in Queued, t.kind \in {"start", "event", "status"}
  PROVE  LET h == [t EXCEPT !.what = Handled]
         IN  h \in Begun /\ h.kind = t.kind /\ h.on = t.on /\ h.wrapper = t.wrapper /\ h.what = Handled
<1>1. IsQueued(t)
  BY QueuedFields
<1>2. t = [kind |-> t.kind, on |-> t.on, wrapper |-> t.wrapper, what |-> t.what]
  BY DEF Queued
<1> DEFINE h == [t EXCEPT !.what = Handled]
<1>3. h = [kind |-> t.kind, on |-> t.on, wrapper |-> t.wrapper, what |-> Handled]
  BY <1>2
<1>4. h \in Begun
  BY <1>1, <1>3 DEF IsQueued, Begun
<1> QED
  BY <1>3, <1>4

(* A call of a thread is of one of its kinds. *)
IsCall(c) ==
  \/ c.op \in {"addListener", "removeListener", "getOption"} /\ c.on \in Listeners /\ c.held \in 0..2
  \/ c.op \in {"subscribe", "unsubscribe"} /\ c.on \in Subscriptions /\ c.held \in 0..1
  \/ c.op = "setOption" /\ c.on = "forcedTransport" /\ c.held \in 0..3
  \/ c.op = "setRequestedMaxBandwidth" /\ c.on = "nothing" /\ c.held \in 0..2
  \/ c.op = "sendMessage" /\ c.on = "nothing" /\ c.held \in 0..1
  \/ c.op \in {"setStatus", "dispatch"} /\ c.on \in Statuses /\ c.held \in 0..1
  \/ c.op = "sessionSetOption" /\ c.on = "realMaxBandwidth" /\ c.held \in 0..2
  \/ c.op = "none" /\ c.on = "nothing" /\ c.held = 0
OfUsers(op) == op \in ByUsers \cup {"none"}
OfWorker(op) == op \in {"removeListener", "getOption", "setStatus", "dispatch", "none"}
OfSession(op) == op \in {"sessionSetOption", "none"}

(* So it is in each of its fields, and by the thread that makes it. *)
LEMMA CallFields ==
  ASSUME NEW c
  PROVE  /\ c \in UserCalls => IsCall(c) /\ OfUsers(c.op)
         /\ c \in WorkerCalls => IsCall(c) /\ OfWorker(c.op)
         /\ c \in SessionCalls => IsCall(c) /\ OfSession(c.op)
<1>1. c \in UserCalls => IsCall(c) /\ OfUsers(c.op)
  BY DEF UserCalls, ListenerCalls, NoCall, Call, IsCall, OfUsers, ByUsers
<1>2. c \in WorkerCalls => IsCall(c) /\ OfWorker(c.op)
  BY DEF WorkerCalls, ReaderCalls, NoCall, Call, IsCall, OfWorker
<1>3. c \in SessionCalls => IsCall(c) /\ OfSession(c.op)
  BY DEF SessionCalls, NoCall, Call, IsCall, OfSession
<1> QED
  BY <1>1, <1>2, <1>3

(* What a thread may call is a call. *)
LEMMA CallsOfThread ==
  ASSUME NEW t, NEW c \in CallsOf(t)
  PROVE  /\ IsCall(c)
         /\ c \in UserCalls \cup WorkerCalls \cup SessionCalls
         /\ t = Worker => OfWorker(c.op)
         /\ t = SessionThread => OfSession(c.op)
         /\ t \notin {Worker, SessionThread} => OfUsers(c.op)
  BY CallFields DEF CallsOf, Worker, SessionThread

(* Users are neither the events thread nor the session's. *)
LEMMA ThreadsDiffer ==
  /\ Worker \in Threads /\ SessionThread \in Threads /\ Worker # SessionThread
  /\ \A u \in Users : u \in Threads /\ u # Worker /\ u # SessionThread
  BY NamesAssumption DEF Threads, Worker, SessionThread

(* Not calling, any thread may begin any of its calls. *)
LEMMA NoCallFields == NoCall.op = "none" /\ NoCall.on = "nothing" /\ NoCall.held = 0
  BY DEF NoCall, Call

(* No thread has to be in a call. *)
LEMMA NoCallType == \A t : NoCall \in CallsOf(t)
  BY DEF CallsOf, UserCalls, WorkerCalls, SessionCalls

(* A call of no operation is no call. *)
LEMMA IsNoCall == \A t : \A c \in CallsOf(t) : c.op = "none" => c = NoCall
  BY DEF CallsOf, UserCalls, WorkerCalls, SessionCalls, ListenerCalls, ReaderCalls

(* A call names its operation and what it is about, and holds no mutex yet. *)
LEMMA FieldsOfCall ==
  ASSUME NEW op, NEW on
  PROVE  Call(op, on).op = op /\ Call(op, on).on = on /\ Call(op, on).held = 0
  BY DEF Call

(* Only one thread's call changes. *)
LEMMA CallChanges ==
  ASSUME Typed, NEW t \in Threads, NEW c \in CallsOf(t), call' = [call EXCEPT ![t] = c]
  PROVE  /\ call' \in [Threads -> UserCalls \cup WorkerCalls \cup SessionCalls]
         /\ \A u \in Threads : call'[u] \in CallsOf(u)
         /\ call'[t] = c
         /\ \A u \in Threads : u # t => call'[u] = call[u]
<1>1. c \in UserCalls \cup WorkerCalls \cup SessionCalls
  BY CallsOfThread
<1>2. call \in [Threads -> UserCalls \cup WorkerCalls \cup SessionCalls] /\ \A u \in Threads : call[u] \in CallsOf(u)
  BY DEF Typed
<1> QED
  BY <1>1, <1>2

(* How many of its mutexes a call may come to hold, before it ends or waits *)
(* for itself.                                                              *)
Room(op) ==
  IF op \in {"subscribe", "unsubscribe", "sendMessage", "setStatus", "dispatch"} THEN 1
  ELSE IF op = "setOption" THEN 3 ELSE IF op = "none" THEN 0 ELSE 2

(* It takes no more: the calls that lock one of theirs again wait for it.   *)
LEMMA LocksTaken ==
  ASSUME NEW t \in Threads, IsCall(call[t]), Waiting(t), Free(Wanted(t))
  PROVE  call[t].held < Room(call[t].op)
<1> DEFINE c == call[t]
<1>1. CASE c.op \in {"addListener", "removeListener"}
  <2>1. Locks[c.op] = ListenerLocks
    BY <1>1 DEF Locks, Operations, ByUsers
  <2> QED
    BY <1>1, <2>1 DEF IsCall, Waiting, ListenerLocks, Room
<1>2. CASE c.op = "getOption"
  <2>1. Locks[c.op] = GetterLocks
    BY <1>2 DEF Locks, Operations, ByUsers
  <2> QED
    BY <1>2, <2>1 DEF IsCall, Waiting, GetterLocks, Room
<1>3. CASE c.op \in {"subscribe", "unsubscribe", "setStatus"}
  <2>1. Locks[c.op] = <<"client">>
    BY <1>3 DEF Locks, Operations, ByUsers
  <2> QED
    BY <1>3, <2>1 DEF IsCall, Waiting, Room
<1>4. CASE c.op = "setOption"
  <2>1. Locks[c.op] = SetterLocks
    BY <1>4 DEF Locks, Operations, ByUsers
  <2> QED
    BY <1>4, <2>1 DEF IsCall, Waiting, SetterLocks, Room
<1>5. CASE c.op = "setRequestedMaxBandwidth"
  <2>1. Locks[c.op] = BandwidthLocks
    BY <1>5 DEF Locks, Operations, ByUsers
  <2> DEFINE Mutexes == {"options", "internal", "dispatcher"}
  <2>a. <<"options", "internal">> \in Seq(Mutexes) /\ <<"internal", "dispatcher">> \in Seq(Mutexes)
    OBVIOUS
  <2>2. BandwidthLocks[2] = "internal" /\ BandwidthLocks[3] = "internal"
    <3> HIDE DEF Mutexes
    <3> QED
      BY <2>a, ConcatProperties DEF BandwidthLocks, MaxBandwidthLocks
  <2>3. ASSUME c.held = 2 PROVE FALSE
    <3>1. Wanted(t) = "internal"
      BY <2>1, <2>2, <2>3 DEF Wanted
    <3>2. "internal" \in Held(t)
      BY <2>1, <2>2, <2>3 DEF Held
    <3> QED
      BY <3>1, <3>2 DEF Free
  <2> QED
    BY <1>5, <2>3 DEF IsCall, Room
<1>6. CASE c.op = "sendMessage"
  <2>1. Locks[c.op] = MessageLocks
    BY <1>6 DEF Locks, Operations, ByUsers
  <2>3. ASSUME c.held = 1 PROVE FALSE
    <3>1. Wanted(t) = "client"
      BY <2>1, <2>3 DEF Wanted, MessageLocks
    <3>2. "client" \in Held(t)
      BY <2>1, <2>3 DEF Held, MessageLocks
    <3> QED
      BY <3>1, <3>2 DEF Free
  <2> QED
    BY <1>6, <2>3 DEF IsCall, Room
<1>7. CASE c.op = "dispatch"
  <2>1. Locks[c.op] = <<"dispatcher">>
    BY <1>7 DEF Locks, Operations, ByUsers
  <2> QED
    BY <1>7, <2>1 DEF IsCall, Waiting, Room
<1>8. CASE c.op = "sessionSetOption"
  <2>1. Locks[c.op] = SessionLocks
    BY <1>8 DEF Locks, Operations, ByUsers
  <2> QED
    BY <1>8, <2>1 DEF IsCall, Waiting, SessionLocks, Room
<1>9. CASE c.op = "none"
  <2>1. Locks[c.op] = <<>>
    BY <1>9 DEF Locks, Operations, ByUsers
  <2> QED
    BY <1>9, <2>1 DEF IsCall, Waiting
<1> QED
  BY <1>1, <1>2, <1>3, <1>4, <1>5, <1>6, <1>7, <1>8, <1>9 DEF IsCall

(* Of its fields a call is made up. *)
LEMMA CallOfFields ==
  ASSUME NEW t \in Threads, NEW op, NEW on, NEW held,
         LET c == [op |-> op, on |-> on, held |-> held]
         IN  /\ IsCall(c)
             /\ IF t = Worker THEN OfWorker(op) ELSE IF t = SessionThread THEN OfSession(op) ELSE OfUsers(op)
  PROVE  [op |-> op, on |-> on, held |-> held] \in CallsOf(t)
<1>1. CASE t = Worker
  BY <1>1 DEF IsCall, OfWorker, CallsOf, WorkerCalls, ReaderCalls, NoCall, Call
<1>2. CASE t = SessionThread /\ t # Worker
  BY <1>2 DEF IsCall, OfSession, CallsOf, SessionCalls, NoCall, Call
<1>3. CASE t # SessionThread /\ t # Worker
  BY <1>3 DEF IsCall, OfUsers, ByUsers, CallsOf, UserCalls, ListenerCalls, NoCall, Call
<1> QED
  BY <1>1, <1>2, <1>3

(* A call that takes one more mutex is a call of the same thread. *)
LEMMA OneMoreHeld ==
  ASSUME NEW t \in Threads, NEW c \in CallsOf(t), c.held < Room(c.op)
  PROVE  LET d == [c EXCEPT !.held = c.held + 1]
         IN  d \in CallsOf(t) /\ d.op = c.op /\ d.on = c.on
<1>1. c = [op |-> c.op, on |-> c.on, held |-> c.held]
  BY DEF CallsOf, UserCalls, WorkerCalls, SessionCalls, ListenerCalls, ReaderCalls, NoCall, Call
<1> DEFINE d == [op |-> c.op, on |-> c.on, held |-> c.held + 1]
<1>2. [c EXCEPT !.held = c.held + 1] = d
  BY <1>1
<1>3. IsCall(c)
  BY CallsOfThread
<1>4. IsCall(d)
  BY <1>3 DEF IsCall, Room
<1>5. IF t = Worker THEN OfWorker(c.op) ELSE IF t = SessionThread THEN OfSession(c.op) ELSE OfUsers(c.op)
  BY CallsOfThread, ThreadsDiffer
<1>6. d \in CallsOf(t)
  BY <1>4, <1>5, CallOfFields
<1> QED
  BY <1>2, <1>6

(* The call that a user begins. *)
LEMMA BegunCall ==
  ASSUME NEW u \in Users, NEW op, NEW on,
         \/ op \in {"addListener", "removeListener"} /\ on \in Listeners
         \/ op \in {"subscribe", "unsubscribe"} /\ on \in Subscriptions
         \/ op = "setOption" /\ on = "forcedTransport"
         \/ op \in {"setRequestedMaxBandwidth", "sendMessage"} /\ on = "nothing"
  PROVE  LET c == [Call(op, on) EXCEPT !.held = 1]
         IN  c \in CallsOf(u) /\ c.op = op /\ c.on = on
<1> DEFINE c == [Call(op, on) EXCEPT !.held = 1]
<1>1. c = [op |-> op, on |-> on, held |-> 1]
  BY DEF Call
<1>2. c \in UserCalls
  BY <1>1 DEF UserCalls, ListenerCalls
<1> QED
  BY <1>1, <1>2, ThreadsDiffer DEF CallsOf

(* The calls that the events thread and the session's thread begin. *)
LEMMA WorkerBegins ==
  /\ \A l \in Listeners : Call("getOption", l) \in CallsOf(Worker) /\ Call("removeListener", l) \in CallsOf(Worker)
  /\ \A s \in Statuses : Call("setStatus", s) \in CallsOf(Worker) /\ Call("dispatch", s) \in CallsOf(Worker)
  /\ Call("sessionSetOption", "realMaxBandwidth") \in CallsOf(SessionThread)
  BY DEF CallsOf, WorkerCalls, ReaderCalls, SessionCalls, Call, Worker, SessionThread
-----------------------------------------------------------------------------
(* The queue as a sequence.                                                *)

(* What a sequence holds. *)
LEMMA InToSet ==
  ASSUME NEW S, NEW s \in Seq(S)
  PROVE  /\ ToSet(s) \subseteq S
         /\ \A i \in 1..Len(s) : s[i] \in ToSet(s) /\ s[i] \in S
         /\ \A x \in ToSet(s) : \E i \in 1..Len(s) : s[i] = x
<1>1. DOMAIN s = 1..Len(s)
  BY LenProperties
<1>2. \A i \in 1..Len(s) : s[i] \in S
  BY ElementOfSeq
<1> QED
  BY <1>1, <1>2 DEF ToSet

(* The queue with more at its end. *)
LEMMA Joined ==
  ASSUME NEW S, NEW s \in Seq(S), NEW m \in Seq(S)
  PROVE  /\ s \o m \in Seq(S)
         /\ ToSet(s \o m) = ToSet(s) \cup ToSet(m)
<1>1. /\ s \o m \in Seq(S)
      /\ Len(s \o m) = Len(s) + Len(m)
      /\ \A i \in 1..Len(s) + Len(m) : (s \o m)[i] = IF i <= Len(s) THEN s[i] ELSE m[i - Len(s)]
  BY ConcatProperties
<1>2. Len(s) \in Nat /\ Len(m) \in Nat
  BY LenProperties
<1>3. ASSUME NEW x \in ToSet(s \o m) PROVE x \in ToSet(s) \cup ToSet(m)
  <2>1. PICK i \in 1..Len(s \o m) : (s \o m)[i] = x
    BY <1>1, <1>3, InToSet
  <2>2. CASE i <= Len(s)
    <3>1. i \in 1..Len(s) /\ s[i] = x
      BY <1>1, <1>2, <2>1, <2>2
    <3> QED
      BY <3>1, InToSet
  <2>3. CASE ~(i <= Len(s))
    <3>1. i - Len(s) \in 1..Len(m) /\ m[i - Len(s)] = x
      BY <1>1, <1>2, <2>1, <2>3
    <3> QED
      BY <3>1, InToSet
  <2> QED
    BY <2>2, <2>3
<1>4. ASSUME NEW x \in ToSet(s) PROVE x \in ToSet(s \o m)
  <2>1. PICK i \in 1..Len(s) : s[i] = x
    BY <1>4, InToSet
  <2>2. i \in 1..Len(s \o m) /\ (s \o m)[i] = x
    BY <1>1, <1>2, <2>1
  <2> QED
    BY <1>1, <2>2, InToSet
<1>5. ASSUME NEW x \in ToSet(m) PROVE x \in ToSet(s \o m)
  <2>1. PICK i \in 1..Len(m) : m[i] = x
    BY <1>5, InToSet
  <2>2. Len(s) + i \in 1..Len(s \o m) /\ (s \o m)[Len(s) + i] = x
    BY <1>1, <1>2, <2>1
  <2> QED
    BY <1>1, <2>2, InToSet
<1> QED
  BY <1>1, <1>3, <1>4, <1>5

(* One more at its end. *)
LEMMA Appended ==
  ASSUME NEW S, NEW s \in Seq(S), NEW x \in S
  PROVE  /\ Append(s, x) = s \o <<x>>
         /\ <<x>> \in Seq(S) /\ Len(<<x>>) = 1 /\ <<x>>[1] = x
         /\ ToSet(<<x>>) = {x}
<1>1. <<x>> \in Seq(S) /\ Len(<<x>>) = 1 /\ <<x>>[1] = x
  OBVIOUS
<1>2. ToSet(<<x>>) = {x}
  BY DEF ToSet
<1> QED
  BY <1>1, <1>2, AppendIsConcat

(* The first taken off it. *)
LEMMA Shifted ==
  ASSUME NEW S, NEW s \in Seq(S), s # <<>>
  PROVE  /\ Head(s) \in S /\ Tail(s) \in Seq(S)
         /\ Len(s) \in Nat \ {0} /\ Len(Tail(s)) = Len(s) - 1
         /\ Head(s) = s[1]
         /\ \A i \in 1..Len(s) - 1 : Tail(s)[i] = s[i + 1]
         /\ ToSet(s) = {Head(s)} \cup ToSet(Tail(s))
<1>1. /\ Head(s) \in S /\ Tail(s) \in Seq(S)
      /\ Len(s) \in Nat \ {0} /\ Len(Tail(s)) = Len(s) - 1
      /\ \A i \in 1..Len(s) - 1 : Tail(s)[i] = s[i + 1]
  BY HeadTailProperties, EmptySeq
<1>2. Head(s) = s[1]
  OBVIOUS
<1>3. Head(s) \in ToSet(s)
  BY <1>1, <1>2, InToSet
<1>4. ASSUME NEW x \in ToSet(Tail(s)) PROVE x \in ToSet(s)
  <2>1. PICK i \in 1..Len(Tail(s)) : Tail(s)[i] = x
    BY <1>1, <1>4, InToSet
  <2>2. i + 1 \in 1..Len(s) /\ s[i + 1] = x
    BY <1>1, <2>1
  <2> QED
    BY <2>2, InToSet
<1>5. ASSUME NEW x \in ToSet(s) PROVE x = Head(s) \/ x \in ToSet(Tail(s))
  <2>1. PICK i \in 1..Len(s) : s[i] = x
    BY <1>5, InToSet
  <2>2. CASE i = 1
    BY <1>2, <2>1, <2>2
  <2>3. CASE i # 1
    <3>1. i - 1 \in 1..Len(Tail(s)) /\ Tail(s)[i - 1] = x
      BY <1>1, <2>1, <2>3
    <3> QED
      BY <1>1, <3>1, InToSet
  <2> QED
    BY <2>2, <2>3
<1> QED
  BY <1>1, <1>2, <1>3, <1>4, <1>5

(* A sequence of the elements of a set leaves none out. *)
LEMMA SetToSeqsHolds ==
  ASSUME NEW S, IsFiniteSet(S), NEW m \in SetToSeqs(S)
  PROVE  m \in Seq(S) /\ ToSet(m) = S
<1> DEFINE n == Cardinality(S)
           D == 1..n
<1>1. n \in Nat
  BY FS_CardinalityType
<1>2. m \in [D -> S] /\ \A i, j \in D : i # j => m[i] # m[j]
  BY DEF SetToSeqs
<1>3. IsFiniteSet(D) /\ Cardinality(D) = n
  <2>1. Cardinality(D) = IF 1 > n THEN 0 ELSE n - 1 + 1
    BY <1>1, FS_Interval
  <2> QED
    BY <1>1, <2>1, FS_Interval
<1>4. m \in Injection(D, S)
  <2> HIDE DEF D
  <2> QED
    BY <1>2 DEF Injection, IsInjective
<1>5. m \in Surjection(D, S)
  <2> HIDE DEF D
  <2> QED
    BY <1>3, <1>4, FS_Injection
<1>6. m \in Seq(S) /\ Len(m) = n
  BY <1>1, <1>2
<1>7. S \subseteq ToSet(m)
  BY <1>2, <1>5 DEF Surjection, ToSet
<1> QED
  BY <1>6, <1>7, InToSet

(* The events of a dispatch: one for each listener in the map, none else.  *)
Tidings(m, what) ==
  /\ m \in Seq(Queued)
  /\ \A t \in ToSet(m) :
       t.kind = "event" /\ t.what = what /\ t.on \in Listeners /\ InMap(t.on) /\ t.wrapper = adds[t.on]
  /\ \A l \in Listeners : InMap(l) => Task("event", l, adds[l], what) \in ToSet(m)

(* The listeners in the map have been added. *)
LEMMA MapSerials ==
  ASSUME Typed, NEW l \in Listeners, InMap(l)
  PROVE  adds[l] \in Serial
  BY DEF Typed, InMap, Alive, Serial

(* In whatever order the map has them, the events are the tidings. *)
LEMMA EventsAreTidings ==
  ASSUME Typed, NEW what \in Statuses \cup Options, NEW m \in Events(what)
  PROVE  Tidings(m, what)
<1> DEFINE Present == {l \in Listeners : InMap(l)}
           Event(l) == Task("event", l, adds[l], what)
           Made == {Event(l) : l \in Present}
           f == [l \in Present |-> Event(l)]
<1>1. IsFiniteSet(Present)
  BY ListenersAssumption, FS_Subset
<1>2. f \in Surjection(Present, Made)
  BY DEF Surjection
<1>3. IsFiniteSet(Made)
  <2> HIDE DEF Present, Made, f
  <2> QED
    BY <1>1, <1>2, FS_Surjection
<1>4. m \in SetToSeqs(Made)
  BY DEF Events
<1>5. m \in Seq(Made) /\ ToSet(m) = Made
  <2> HIDE DEF Made
  <2> QED
    BY <1>3, <1>4, SetToSeqsHolds
<1>6. Made \subseteq Queued
  <2> SUFFICES ASSUME NEW l \in Present PROVE Event(l) \in Queued
    OBVIOUS
  <2> QED
    BY MapSerials, TaskTypes
<1>7. m \in Seq(Queued)
  <2> HIDE DEF Made
  <2> QED
    BY <1>5, <1>6, SeqMonotonic
<1>8. \A t \in Made :
        t.kind = "event" /\ t.what = what /\ t.on \in Listeners /\ InMap(t.on) /\ t.wrapper = adds[t.on]
  BY TaskFields
<1>9. \A l \in Listeners : InMap(l) => Event(l) \in Made
  OBVIOUS
<1> QED
  <2> HIDE DEF Made, Present
  <2> QED
    BY <1>5, <1>7, <1>8, <1>9 DEF Tidings
-----------------------------------------------------------------------------
(* The lives that a queue tells of.                                        *)

(* Turns are numbers. *)
LEMMA TurnType ==
  ASSUME NEW t \in Queued, NEW l \in Listeners
  PROVE  /\ IsLife(t, l) => t.wrapper \in Serial /\ Turn(t) \in Nat
         /\ IsEvent(t, l) => t.wrapper \in Serial /\ ~IsLife(t, l)
<1>1. IsQueued(t)
  BY QueuedFields
<1> QED
  BY <1>1 DEF IsQueued, IsLife, IsEvent, Turn, Serial

(* Tasks added to the queue that start or end no life of the listener leave *)
(* its lives; their events are of a life that started.                      *)
LEMMA LivesGrow ==
  ASSUME NEW l \in Listeners, NEW low \in Nat, NEW high \in Nat, NEW s \in Seq(Queued), NEW m \in Seq(Queued),
         LivesIn(l, s, low, high),
         \A t \in ToSet(m) : ~IsLife(t, l) /\ (IsEvent(t, l) => 2 * t.wrapper <= high + 1)
  PROVE  LivesIn(l, s \o m, low, high)
<1> DEFINE q == s \o m
<1>1. /\ Len(q) = Len(s) + Len(m) /\ Len(s) \in Nat /\ Len(m) \in Nat
      /\ \A i \in 1..Len(q) : q[i] = IF i <= Len(s) THEN s[i] ELSE m[i - Len(s)]
  BY ConcatProperties, LenProperties
<1>2. \A i \in 1..Len(q) : i > Len(s) => q[i] \in ToSet(m)
  <2> SUFFICES ASSUME NEW i \in 1..Len(q), i > Len(s) PROVE q[i] \in ToSet(m)
    OBVIOUS
  <2>1. i - Len(s) \in 1..Len(m) /\ q[i] = m[i - Len(s)]
    BY <1>1
  <2> QED
    BY <2>1, InToSet
<1>3. \A i \in 1..Len(q) : IsLife(q[i], l) => i \in 1..Len(s) /\ q[i] = s[i]
  BY <1>1, <1>2
<1>4. \A i \in 1..Len(s) : i \in 1..Len(q) /\ q[i] = s[i]
  BY <1>1
<1> HIDE DEF q
<1>5. \A i \in 1..Len(q) : IsLife(q[i], l) => low < Turn(q[i]) /\ Turn(q[i]) <= high
  BY <1>3 DEF LivesIn
<1>6. \A i, j \in 1..Len(q) : i < j /\ IsLife(q[i], l) /\ IsLife(q[j], l) => Turn(q[i]) < Turn(q[j])
  BY <1>3 DEF LivesIn
<1>7. \A turn \in low + 1 .. high : \E i \in 1..Len(q) : IsLife(q[i], l) /\ Turn(q[i]) = turn
  BY <1>4 DEF LivesIn
<1>8. \A i, j \in 1..Len(q) : i < j /\ IsEvent(q[i], l) /\ IsLife(q[j], l) => 2 * q[i].wrapper <= Turn(q[j])
  <2> SUFFICES ASSUME NEW i \in 1..Len(q), NEW j \in 1..Len(q), i < j, IsEvent(q[i], l), IsLife(q[j], l)
               PROVE  2 * q[i].wrapper <= Turn(q[j])
    OBVIOUS
  <2>1. j \in 1..Len(s) /\ q[j] = s[j]
    BY <1>3
  <2>2. i \in 1..Len(s) /\ q[i] = s[i]
    BY <1>1, <1>4, <2>1
  <2> QED
    BY <2>1, <2>2 DEF LivesIn
<1>9. \A i \in 1..Len(q) : IsEvent(q[i], l) => 2 * q[i].wrapper <= high + 1
  <2> SUFFICES ASSUME NEW i \in 1..Len(q), IsEvent(q[i], l) PROVE 2 * q[i].wrapper <= high + 1
    OBVIOUS
  <2>1. CASE i > Len(s)
    BY <1>2, <2>1
  <2>2. CASE i <= Len(s)
    <3>1. i \in 1..Len(s) /\ q[i] = s[i]
      BY <1>1, <1>4, <2>2
    <3> QED
      BY <3>1 DEF LivesIn
  <2> QED
    BY <1>1, <2>1, <2>2
<1> QED
  BY <1>5, <1>6, <1>7, <1>8, <1>9 DEF q, LivesIn

(* The next turn of the listener joins the queue. *)
LEMMA LivesAdd ==
  ASSUME NEW l \in Listeners, NEW low \in Nat, NEW high \in Nat, low <= high, NEW s \in Seq(Queued),
         LivesIn(l, s, low, high), NEW x \in Queued, IsLife(x, l), Turn(x) = high + 1
  PROVE  LivesIn(l, Append(s, x), low, high + 1)
<1> DEFINE q == Append(s, x)
           n == Len(s)
<1>1. /\ n \in Nat /\ Len(q) = n + 1
      /\ \A i \in 1..n : q[i] = s[i]
      /\ q[n + 1] = x
  BY AppendProperties, LenProperties
<1>2. ~IsEvent(x, l)
  BY TurnType
<1>t. \A i \in 1..n : /\ IsLife(s[i], l) => Turn(s[i]) \in Nat
                      /\ IsEvent(s[i], l) => s[i].wrapper \in Nat
  <2> SUFFICES ASSUME NEW i \in 1..n
               PROVE  /\ IsLife(s[i], l) => Turn(s[i]) \in Nat
                      /\ IsEvent(s[i], l) => s[i].wrapper \in Nat
    OBVIOUS
  <2>1. s[i] \in Queued
    BY ElementOfSeq
  <2> QED
    BY <2>1, TurnType DEF Serial
<1>3. \A i \in 1..Len(q) : i = n + 1 \/ i \in 1..n
  BY <1>1
<1> HIDE DEF q, n
<1>a. /\ \A i \in 1..n : IsLife(s[i], l) => low < Turn(s[i]) /\ Turn(s[i]) <= high
      /\ \A i, j \in 1..n : i < j /\ IsLife(s[i], l) /\ IsLife(s[j], l) => Turn(s[i]) < Turn(s[j])
      /\ \A turn \in low + 1 .. high : \E i \in 1..n : IsLife(s[i], l) /\ Turn(s[i]) = turn
      /\ \A i, j \in 1..n : i < j /\ IsEvent(s[i], l) /\ IsLife(s[j], l) => 2 * s[i].wrapper <= Turn(s[j])
      /\ \A i \in 1..n : IsEvent(s[i], l) => 2 * s[i].wrapper <= high + 1
  BY DEF LivesIn, n
<1>5. \A i \in 1..Len(q) : IsLife(q[i], l) => low < Turn(q[i]) /\ Turn(q[i]) <= high + 1
  BY <1>a, <1>t, <1>1, <1>3
<1>6. \A i, j \in 1..Len(q) : i < j /\ IsLife(q[i], l) /\ IsLife(q[j], l) => Turn(q[i]) < Turn(q[j])
  <2> SUFFICES ASSUME NEW i \in 1..Len(q), NEW j \in 1..Len(q), i < j, IsLife(q[i], l), IsLife(q[j], l)
               PROVE  Turn(q[i]) < Turn(q[j])
    OBVIOUS
  <2>1. i \in 1..n /\ q[i] = s[i]
    BY <1>1, <1>3
  <2>2. CASE j = n + 1
    BY <1>a, <1>t, <1>1, <2>1, <2>2
  <2>3. CASE j \in 1..n
    BY <1>a, <1>1, <2>1, <2>3
  <2> QED
    BY <1>3, <2>2, <2>3
<1>7. \A turn \in low + 1 .. high + 1 : \E i \in 1..Len(q) : IsLife(q[i], l) /\ Turn(q[i]) = turn
  <2> SUFFICES ASSUME NEW turn \in low + 1 .. high + 1
               PROVE  \E i \in 1..Len(q) : IsLife(q[i], l) /\ Turn(q[i]) = turn
    OBVIOUS
  <2>1. CASE turn = high + 1
    <3>1. n + 1 \in 1..Len(q) /\ IsLife(q[n + 1], l) /\ Turn(q[n + 1]) = turn
      BY <1>1, <2>1
    <3> QED
      BY <3>1
  <2>2. CASE turn # high + 1
    <3>1. PICK i \in 1..n : IsLife(s[i], l) /\ Turn(s[i]) = turn
      BY <1>a, <2>2
    <3>2. i \in 1..Len(q) /\ q[i] = s[i]
      BY <1>1
    <3> QED
      BY <3>1, <3>2
  <2> QED
    BY <2>1, <2>2
<1>8. \A i, j \in 1..Len(q) : i < j /\ IsEvent(q[i], l) /\ IsLife(q[j], l) => 2 * q[i].wrapper <= Turn(q[j])
  <2> SUFFICES ASSUME NEW i \in 1..Len(q), NEW j \in 1..Len(q), i < j, IsEvent(q[i], l), IsLife(q[j], l)
               PROVE  2 * q[i].wrapper <= Turn(q[j])
    OBVIOUS
  <2>1. i \in 1..n /\ q[i] = s[i]
    BY <1>1, <1>3
  <2>2. CASE j = n + 1
    BY <1>a, <1>1, <2>1, <2>2
  <2>3. CASE j \in 1..n
    BY <1>a, <1>1, <2>1, <2>3
  <2> QED
    BY <1>3, <2>2, <2>3
<1>9. \A i \in 1..Len(q) : IsEvent(q[i], l) => 2 * q[i].wrapper <= high + 1 + 1
  <2> SUFFICES ASSUME NEW i \in 1..Len(q), IsEvent(q[i], l) PROVE 2 * q[i].wrapper <= high + 1 + 1
    OBVIOUS
  <2>1. i \in 1..n /\ q[i] = s[i]
    BY <1>1, <1>2, <1>3
  <2> QED
    BY <1>a, <1>t, <2>1
<1> QED
  BY <1>5, <1>6, <1>7, <1>8, <1>9 DEF q, LivesIn

(* The events thread takes the next turn of the listener, or a task that is *)
(* not one; if it is an event of the last life then every turn was taken.   *)
LEMMA LivesTaken ==
  ASSUME NEW l \in Listeners, NEW low \in Nat, NEW high \in Nat, low <= high,
         NEW s \in Seq(Queued), s # <<>>, LivesIn(l, s, low, high)
  PROVE  /\ IsLife(Head(s), l) =>
              Turn(Head(s)) = low + 1 /\ low < high /\ LivesIn(l, Tail(s), low + 1, high)
         /\ ~IsLife(Head(s), l) => LivesIn(l, Tail(s), low, high)
         /\ IsEvent(Head(s), l) => 2 * Head(s).wrapper <= high + 1
         /\ IsEvent(Head(s), l) /\ 2 * Head(s).wrapper = high + 1 => low = high
<1> DEFINE n == Len(s)
           q == Tail(s)
           x == Head(s)
<1>1. /\ n \in Nat \ {0} /\ Len(q) = n - 1 /\ x = s[1] /\ x \in Queued
      /\ \A i \in 1..n - 1 : q[i] = s[i + 1]
  BY Shifted
<1>t. \A i \in 1..n : /\ IsLife(s[i], l) => Turn(s[i]) \in Nat
                      /\ IsEvent(s[i], l) => s[i].wrapper \in Nat /\ ~IsLife(s[i], l)
  <2> SUFFICES ASSUME NEW i \in 1..n
               PROVE  /\ IsLife(s[i], l) => Turn(s[i]) \in Nat
                      /\ IsEvent(s[i], l) => s[i].wrapper \in Nat /\ ~IsLife(s[i], l)
    OBVIOUS
  <2>1. s[i] \in Queued
    BY ElementOfSeq
  <2> QED
    BY <2>1, TurnType DEF Serial
<1>2. \A i \in 1..Len(q) : i + 1 \in 1..n /\ q[i] = s[i + 1]
  BY <1>1
<1>3. \A i \in 1..n : i # 1 => i - 1 \in 1..Len(q) /\ q[i - 1] = s[i]
  BY <1>1
<1> HIDE DEF q, n, x
<1>a. /\ \A i \in 1..n : IsLife(s[i], l) => low < Turn(s[i]) /\ Turn(s[i]) <= high
      /\ \A i, j \in 1..n : i < j /\ IsLife(s[i], l) /\ IsLife(s[j], l) => Turn(s[i]) < Turn(s[j])
      /\ \A turn \in low + 1 .. high : \E i \in 1..n : IsLife(s[i], l) /\ Turn(s[i]) = turn
      /\ \A i, j \in 1..n : i < j /\ IsEvent(s[i], l) /\ IsLife(s[j], l) => 2 * s[i].wrapper <= Turn(s[j])
      /\ \A i \in 1..n : IsEvent(s[i], l) => 2 * s[i].wrapper <= high + 1
  BY DEF LivesIn, n
<1>6. \A i, j \in 1..Len(q) : i < j /\ IsLife(q[i], l) /\ IsLife(q[j], l) => Turn(q[i]) < Turn(q[j])
  <2> SUFFICES ASSUME NEW i \in 1..Len(q), NEW j \in 1..Len(q), i < j, IsLife(q[i], l), IsLife(q[j], l)
               PROVE  Turn(q[i]) < Turn(q[j])
    OBVIOUS
  <2>1. i + 1 \in 1..n /\ q[i] = s[i + 1] /\ j + 1 \in 1..n /\ q[j] = s[j + 1] /\ i + 1 < j + 1
    BY <1>1, <1>2
  <2> QED
    BY <1>a, <2>1
<1>8. \A i, j \in 1..Len(q) : i < j /\ IsEvent(q[i], l) /\ IsLife(q[j], l) => 2 * q[i].wrapper <= Turn(q[j])
  <2> SUFFICES ASSUME NEW i \in 1..Len(q), NEW j \in 1..Len(q), i < j, IsEvent(q[i], l), IsLife(q[j], l)
               PROVE  2 * q[i].wrapper <= Turn(q[j])
    OBVIOUS
  <2>1. i + 1 \in 1..n /\ q[i] = s[i + 1] /\ j + 1 \in 1..n /\ q[j] = s[j + 1] /\ i + 1 < j + 1
    BY <1>1, <1>2
  <2> QED
    BY <1>a, <2>1
<1>9. \A i \in 1..Len(q) : IsEvent(q[i], l) => 2 * q[i].wrapper <= high + 1
  BY <1>a, <1>2
<1>10. ASSUME IsLife(x, l)
       PROVE  Turn(x) = low + 1 /\ low < high /\ LivesIn(l, q, low + 1, high)
  <2>1. 1 \in 1..n
    BY <1>1
  <2>2. low < Turn(x) /\ Turn(x) <= high /\ Turn(x) \in Nat
    BY <1>a, <1>t, <1>1, <1>10, <2>1
  <2>3. PICK i \in 1..n : IsLife(s[i], l) /\ Turn(s[i]) = low + 1
    BY <1>a, <2>2
  <2>4. i = 1
    <3> SUFFICES ASSUME i # 1 PROVE FALSE
      OBVIOUS
    <3>a. 1 < i /\ IsLife(s[1], l)
      BY <1>1, <1>10
    <3>1. Turn(s[1]) < Turn(s[i])
      BY <1>a, <2>1, <2>3, <3>a
    <3> QED
      BY <1>1, <2>2, <2>3, <3>1
  <2>5. Turn(x) = low + 1
    BY <1>1, <2>3, <2>4
  <2>6. \A j \in 1..Len(q) : IsLife(q[j], l) => low + 1 < Turn(q[j]) /\ Turn(q[j]) <= high
    <3> SUFFICES ASSUME NEW j \in 1..Len(q), IsLife(q[j], l)
                 PROVE  low + 1 < Turn(q[j]) /\ Turn(q[j]) <= high
      OBVIOUS
    <3>1. j + 1 \in 1..n /\ q[j] = s[j + 1] /\ 1 < j + 1
      BY <1>1, <1>2
    <3> QED
      BY <1>a, <1>1, <1>10, <2>1, <2>5, <3>1
  <2>7. \A turn \in low + 1 + 1 .. high : \E j \in 1..Len(q) : IsLife(q[j], l) /\ Turn(q[j]) = turn
    <3> SUFFICES ASSUME NEW turn \in low + 1 + 1 .. high
                 PROVE  \E j \in 1..Len(q) : IsLife(q[j], l) /\ Turn(q[j]) = turn
      OBVIOUS
    <3>1. PICK j \in 1..n : IsLife(s[j], l) /\ Turn(s[j]) = turn
      BY <1>a
    <3>2. j # 1
      BY <1>1, <2>5, <3>1
    <3> QED
      BY <1>3, <3>1, <3>2
  <2> QED
    BY <1>6, <1>8, <1>9, <2>2, <2>5, <2>6, <2>7 DEF LivesIn
<1>11. ASSUME ~IsLife(x, l) PROVE LivesIn(l, q, low, high)
  <2>6. \A j \in 1..Len(q) : IsLife(q[j], l) => low < Turn(q[j]) /\ Turn(q[j]) <= high
    BY <1>a, <1>2
  <2>7. \A turn \in low + 1 .. high : \E j \in 1..Len(q) : IsLife(q[j], l) /\ Turn(q[j]) = turn
    <3> SUFFICES ASSUME NEW turn \in low + 1 .. high
                 PROVE  \E j \in 1..Len(q) : IsLife(q[j], l) /\ Turn(q[j]) = turn
      OBVIOUS
    <3>1. PICK j \in 1..n : IsLife(s[j], l) /\ Turn(s[j]) = turn
      BY <1>a
    <3>2. j # 1
      BY <1>1, <1>11, <3>1
    <3> QED
      BY <1>3, <3>1, <3>2
  <2> QED
    BY <1>6, <1>8, <1>9, <2>6, <2>7 DEF LivesIn
<1>12. ASSUME IsEvent(x, l) PROVE 2 * x.wrapper <= high + 1
  BY <1>a, <1>1, <1>12
<1>13. ASSUME IsEvent(x, l), 2 * x.wrapper = high + 1 PROVE low = high
  <2> SUFFICES ASSUME low # high PROVE FALSE
    OBVIOUS
  <2>1. high \in low + 1 .. high
    OBVIOUS
  <2>2. PICK j \in 1..n : IsLife(s[j], l) /\ Turn(s[j]) = high
    BY <1>a, <2>1
  <2>3. 1 \in 1..n /\ j # 1
    BY <1>1, <1>t, <1>13, <2>2
  <2>4. 2 * x.wrapper <= high
    BY <1>a, <1>1, <1>13, <2>2, <2>3
  <2> QED
    BY <1>13, <2>4
<1> QED
  BY <1>10, <1>11, <1>12, <1>13 DEF q, x
-----------------------------------------------------------------------------
(* What the steps do.                                                      *)

(* The events thread is idle, at a queued task or at one that has begun. *)
LEMMA RunningFields ==
  ASSUME Typed
  PROVE  /\ running = Idle \/ IsQueued(running) \/ IsBegun(running)
         /\ running.kind # "idle" /\ running.what # Handled => running \in Queued /\ IsQueued(running)
         /\ running # Idle /\ running.what = Handled => running \in Begun /\ IsBegun(running)
         /\ Idle.kind = "idle" /\ Idle.what = "nothing"
<1>1. running \in Queued \cup Begun \cup {Idle}
  BY DEF Typed
<1>2. Idle.kind = "idle" /\ Idle.what = "nothing"
  BY DEF Idle, Task
<1>3. running \in Queued => IsQueued(running) /\ running.what # Handled
  BY QueuedFields, QueuedWhat
<1>4. running \in Begun => IsBegun(running) /\ running.what = Handled
  BY BegunFields DEF IsBegun
<1> QED
  BY <1>1, <1>2, <1>3, <1>4

(* While it has a task to run it is not in a call. *)
LEMMA NotCalling ==
  ASSUME Typed, Calling, running.what # Handled
  PROVE  call[Worker] = NoCall /\ call[Worker].op = "none"
<1>1. call[Worker] = NoCall
  BY DEF Calling
<1> QED
  BY <1>1, NoCallFields

(* Statuses and options are not mixed up, nor with what else a task is. *)
LEMMA WhatsDiffer ==
  /\ Handled \notin Statuses \cup Options \cup {"start", "end", "nothing"}
  /\ "start" \notin Statuses \cup Options /\ "end" \notin Options
  /\ \A s \in Statuses : s \notin Options
  BY NamesAssumption DEF Options, Handled

(* A change of an option: its events and, if it is a matter of the engine,  *)
(* a task for it.                                                           *)
EngineTask == Task("engine", "forcedTransport", 0, "engine")
NewsOf(m, o) ==
  /\ m \in Seq(Queued)
  /\ \A t \in ToSet(m) :
       \/ t.kind = "event" /\ t.what = o /\ t.on \in Listeners /\ InMap(t.on) /\ t.wrapper = adds[t.on]
       \/ t = EngineTask
  /\ \A l \in Listeners : InMap(l) => Task("event", l, adds[l], o) \in ToSet(m)
  /\ o = "forcedTransport" => EngineTask \in ToSet(m)

(* That is what a dispatch of the change adds to the queue. *)
LEMMA DispatchIsNews ==
  ASSUME Typed, NEW o \in Options, DispatchThen(o, Forwarded(o))
  PROVE  \E m : NewsOf(m, o) /\ tasks' = tasks \o m
<1>1. PICK e \in Events(o) : tasks' = tasks \o e \o Forwarded(o)
  BY DEF DispatchThen
<1>2. Tidings(e, o)
  BY EventsAreTidings
<1>3. EngineTask \in Queued
  BY OtherTaskTypes DEF EngineTask
<1>4. Forwarded(o) \in Seq(Queued) /\ ToSet(Forwarded(o)) = IF o = "forcedTransport" THEN {EngineTask} ELSE {}
  <2>1. CASE o = "forcedTransport"
    <3>1. Forwarded(o) = <<EngineTask>>
      BY <2>1 DEF Forwarded, EngineTask
    <3>2. <<EngineTask>> \in Seq(Queued) /\ ToSet(<<EngineTask>>) = {EngineTask}
      BY <1>3, Appended, EmptySeq
    <3> QED
      BY <2>1, <3>1, <3>2
  <2>2. CASE o # "forcedTransport"
    <3>1. Forwarded(o) = <<>>
      BY <2>2 DEF Forwarded
    <3>2. ToSet(<<>>) = {}
      BY DEF ToSet
    <3> QED
      BY <2>2, <3>1, <3>2, EmptySeq
  <2> QED
    BY <2>1, <2>2
<1>5. e \in Seq(Queued) /\ tasks \in Seq(Queued)
  BY <1>2 DEF Tidings, Typed
<1>6. tasks' = tasks \o (e \o Forwarded(o))
  <2>1. (tasks \o e) \o Forwarded(o) = tasks \o (e \o Forwarded(o))
    BY <1>4, <1>5, ConcatAssociative
  <2> QED
    BY <1>1, <2>1
<1>7. e \o Forwarded(o) \in Seq(Queued) /\ ToSet(e \o Forwarded(o)) = ToSet(e) \cup ToSet(Forwarded(o))
  BY <1>4, <1>5, Joined
<1>8. NewsOf(e \o Forwarded(o), o)
  BY <1>2, <1>4, <1>7 DEF NewsOf, Tidings
<1> QED
  BY <1>6, <1>8

(* A call is over. *)
Done(t) == call' = [call EXCEPT ![t] = NoCall]

(* The ways a call ends: by its thread, and what it does to the rest. *)
FinishesStatus(t) == t = Worker /\ call[t].op = "setStatus" /\ call[t].on \in Statuses /\ FinishStatus(t, call[t].on)
FinishesAdd(t) ==
  /\ t \in Users /\ call[t].op = "addListener" /\ call[t].on \in Listeners
  /\ AddListener(call[t].on) /\ Done(t)
  /\ UNCHANGED <<calls, ofStatus, ofOption, ofSubs>>
FinishesRemove(t) ==
  /\ call[t].op = "removeListener" /\ call[t].on \in Listeners
  /\ RemoveListener(call[t].on) /\ Done(t)
  /\ UNCHANGED <<calls, ofStatus, ofOption, ofSubs>>
FinishesSubs(t) ==
  /\ t \in Users /\ call[t].op \in {"subscribe", "unsubscribe"} /\ call[t].on \in Subscriptions
  /\ Subscribe(call[t].on) \/ Unsubscribe(call[t].on)
  /\ Done(t)
  /\ UNCHANGED <<adds, removes, running, starts, ends, calls, ofStatus, ofOption>>
FinishesSet(t) ==
  /\ t # Worker /\ call[t].op \in {"setOption", "sessionSetOption"} /\ call[t].on \in Options
  /\ SetOption(call[t].on) /\ Done(t)
  /\ UNCHANGED <<adds, removes, running, starts, ends, calls, ofStatus, ofSubs>>
FinishesGet(t) ==
  /\ t = Worker /\ call[t].op = "getOption" /\ call[t].on \in Listeners
  /\ GetOption(call[t].on) /\ Done(t)
  /\ UNCHANGED <<dispatcherVars, calls, ofStatus, ofSubs>>
FinishesDispatch(t) ==
  /\ t = Worker /\ call[t].op = "dispatch" /\ call[t].on \in Statuses
  /\ DispatchEvent(call[t].on) /\ Done(t)
  /\ UNCHANGED <<adds, removes, running, starts, ends, calls, ofStatus, ofOption, ofSubs>>

(* There are no others. *)
LEMMA FinishKinds ==
  ASSUME Typed, NEW t \in Threads, Finish(t)
  PROVE  \/ FinishesStatus(t) \/ FinishesAdd(t) \/ FinishesRemove(t) \/ FinishesSubs(t)
         \/ FinishesSet(t) \/ FinishesGet(t) \/ FinishesDispatch(t)
<1> DEFINE c == call[t]
<1>1. c \in CallsOf(t)
  BY DEF Typed
<1>2. /\ IsCall(c)
      /\ t = Worker => OfWorker(c.op)
      /\ t = SessionThread => OfSession(c.op)
      /\ t \notin {Worker, SessionThread} => OfUsers(c.op)
  BY <1>1, CallsOfThread
<1>3. t \notin {Worker, SessionThread} => t \in Users
  BY DEF Threads
<1>4. CASE c.op = "setStatus" /\ FinishStatus(t, c.on)
  BY <1>2, <1>4 DEF FinishesStatus, IsCall, OfSession, OfUsers, ByUsers
<1>5. CASE c.op = "addListener" /\ AddListener(c.on) /\ Done(t) /\ UNCHANGED <<calls, ofStatus, ofOption, ofSubs>>
  BY <1>2, <1>3, <1>5 DEF FinishesAdd, IsCall, OfSession, OfWorker
<1>6. CASE c.op = "removeListener" /\ RemoveListener(c.on) /\ Done(t) /\ UNCHANGED <<calls, ofStatus, ofOption, ofSubs>>
  BY <1>2, <1>6 DEF FinishesRemove, IsCall
<1>7. CASE /\ c.op \in {"subscribe", "unsubscribe"}
           /\ IF c.op = "subscribe" THEN Subscribe(c.on) ELSE Unsubscribe(c.on)
           /\ Done(t)
           /\ UNCHANGED <<adds, removes, running, starts, ends, calls, ofStatus, ofOption>>
  <2>1. t \in Users /\ c.on \in Subscriptions
    BY <1>2, <1>3, <1>7 DEF IsCall, OfSession, OfWorker
  <2>2. Subscribe(c.on) \/ Unsubscribe(c.on)
    BY <1>7
  <2> QED
    BY <1>7, <2>1, <2>2 DEF FinishesSubs
<1>8. CASE /\ c.op \in {"setOption", "sessionSetOption"} /\ SetOption(c.on) /\ Done(t)
           /\ UNCHANGED <<adds, removes, running, starts, ends, calls, ofStatus, ofSubs>>
  <2>1. c.on \in Options /\ t # Worker
    BY <1>2, <1>8 DEF IsCall, OfWorker, Options
  <2> QED
    BY <1>8, <2>1 DEF FinishesSet
<1>9. CASE c.op = "getOption" /\ GetOption(c.on) /\ Done(t) /\ UNCHANGED <<dispatcherVars, calls, ofStatus, ofSubs>>
  <2>1. t = Worker /\ c.on \in Listeners
    BY <1>2, <1>9 DEF IsCall, OfSession, OfUsers, ByUsers
  <2> QED
    BY <1>9, <2>1 DEF FinishesGet
<1>10. CASE /\ c.op = "dispatch" /\ DispatchEvent(c.on) /\ Done(t)
            /\ UNCHANGED <<adds, removes, running, starts, ends, calls, ofStatus, ofOption, ofSubs>>
  <2>1. t = Worker /\ c.on \in Statuses
    BY <1>2, <1>10 DEF IsCall, OfSession, OfUsers, ByUsers
  <2> QED
    BY <1>10, <2>1 DEF FinishesDispatch
<1> QED
  BY <1>4, <1>5, <1>6, <1>7, <1>8, <1>9, <1>10 DEF Finish, Done
-----------------------------------------------------------------------------
(* Every step leaves the variables well typed.                             *)

(* So they are when only calls change. *)
LEMMA TypedByCall ==
  ASSUME Typed, NEW t \in Threads, NEW c \in CallsOf(t), call' = [call EXCEPT ![t] = c],
         calls' \in Count, reports' \in 0..MaxReports, lastStatus' \in Statuses,
         UNCHANGED <<dispatcherVars, ofOption, toldStatus, ofSubs>>
  PROVE  Typed'
<1>1. /\ call' \in [Threads -> UserCalls \cup WorkerCalls \cup SessionCalls]
      /\ \A u \in Threads : call'[u] \in CallsOf(u)
  BY CallChanges
<1> QED
  BY <1>1 DEF Typed, dispatcherVars, ofOption, ofSubs

(* A user begins a call that is one of its calls. *)
LEMMA BeginTyped ==
  ASSUME Typed, NEW u \in Users, NEW op, NEW on, Begin(u, op, on),
         [Call(op, on) EXCEPT !.held = 1] \in CallsOf(u)
  PROVE  Typed'
<1>1. calls' \in Count
  BY NamesAssumption DEF Begin, Typed, Count
<1>2. u \in Threads
  BY DEF Threads
<1>3. /\ call' = [call EXCEPT ![u] = [Call(op, on) EXCEPT !.held = 1]]
      /\ UNCHANGED <<dispatcherVars, ofOption, toldStatus, ofSubs, lastStatus, reports>>
  BY DEF Begin, ofStatus
<1> QED
  BY <1>1, <1>2, <1>3, TypedByCall DEF Typed

(* What a thread that takes a mutex changes of its call. *)
LEMMA AcquireCall ==
  ASSUME Typed, NEW t \in Threads, Acquire(t)
  PROVE  /\ call' = [call EXCEPT ![t] = [call[t] EXCEPT !.held = call[t].held + 1]]
         /\ [call[t] EXCEPT !.held = call[t].held + 1] \in CallsOf(t)
         /\ \A u \in Threads : call'[u].op = call[u].op /\ call'[u].on = call[u].on
<1>1. call[t] \in CallsOf(t) /\ IsCall(call[t])
  BY CallsOfThread DEF Typed
<1>2. call[t].held < Room(call[t].op)
  BY <1>1, LocksTaken DEF Acquire
<1> DEFINE d == [call[t] EXCEPT !.held = call[t].held + 1]
<1>3. d \in CallsOf(t) /\ d.op = call[t].op /\ d.on = call[t].on
  BY <1>1, <1>2, OneMoreHeld
<1>4. call' = [call EXCEPT ![t] = d]
  BY DEF Acquire
<1> HIDE DEF d
<1>5. call'[t] = d /\ \A u \in Threads : u # t => call'[u] = call[u]
  BY <1>3, <1>4, CallChanges
<1> QED
  BY <1>3, <1>4, <1>5 DEF d

(* It is still one of its calls. *)
LEMMA AcquireTyped ==
  ASSUME Typed, NEW t \in Threads, Acquire(t)
  PROVE  Typed'
<1>1. calls' \in Count /\ reports' \in 0..MaxReports /\ lastStatus' \in Statuses
  BY DEF Acquire, Typed, ofStatus
<1>2. UNCHANGED <<dispatcherVars, ofOption, toldStatus, ofSubs>>
  BY DEF Acquire, ofStatus
<1>3. PICK c \in CallsOf(t) : call' = [call EXCEPT ![t] = c]
  BY AcquireCall
<1> QED
  BY <1>1, <1>2, <1>3, TypedByCall

(* A call that is over leaves its thread without one. *)
LEMMA DoneCall ==
  ASSUME Typed, NEW t \in Threads, Done(t)
  PROVE  /\ call' \in [Threads -> UserCalls \cup WorkerCalls \cup SessionCalls]
         /\ \A u \in Threads : call'[u] \in CallsOf(u)
         /\ call'[t] = NoCall
         /\ \A u \in Threads : u # t => call'[u] = call[u]
  BY NoCallType, CallChanges DEF Done

(* However a call ends. *)
LEMMA FinishTyped ==
  ASSUME Typed, NEW t \in Threads, Finish(t)
  PROVE  Typed'
<1>1. CASE FinishesStatus(t)
  <2>1. /\ calls' \in Count /\ reports' \in 0..MaxReports /\ lastStatus' \in Statuses
        /\ UNCHANGED <<dispatcherVars, ofOption, toldStatus, ofSubs>>
    BY <1>1 DEF FinishesStatus, FinishStatus, Typed
  <2>2. Call("dispatch", call[t].on) \in CallsOf(t) /\ NoCall \in CallsOf(t)
    BY <1>1, WorkerBegins, NoCallType DEF FinishesStatus
  <2>3. PICK c \in CallsOf(t) : call' = [call EXCEPT ![t] = c]
    BY <1>1, <2>2 DEF FinishesStatus, FinishStatus
  <2> QED
    BY <2>1, <2>3, TypedByCall
<1>2. CASE FinishesAdd(t)
  <2> DEFINE l == call[t].on
  <2>1. l \in Listeners
    BY <1>2 DEF FinishesAdd
  <2>2. adds' \in [Listeners -> Nat] /\ tasks' \in Seq(Queued) /\ UNCHANGED <<removes, running, starts, ends>>
    <3>1. CASE ~InMap(l) /\ adds' = [adds EXCEPT ![l] = @ + 1] /\ tasks' = Append(tasks, Task("start", l, adds[l] + 1, "start"))
               /\ UNCHANGED <<removes, running, starts, ends>>
      <4>1. adds[l] + 1 \in Serial
        BY <2>1 DEF Typed, Serial
      <4>2. Task("start", l, adds[l] + 1, "start") \in Queued
        BY <2>1, <4>1, TaskTypes
      <4>3. tasks' \in Seq(Queued)
        BY <3>1, <4>2, AppendProperties DEF Typed
      <4> QED
        BY <2>1, <3>1, <4>3, SMTT(30) DEF Typed
    <3>2. CASE UNCHANGED dispatcherVars
      BY <3>2 DEF dispatcherVars, Typed
    <3> QED
      BY <1>2, <3>1, <3>2 DEF FinishesAdd, AddListener
  <2>3. UNCHANGED <<calls, watched, option, engineKnows, told, lastStatus, toldStatus, reports, subscriptionArray, managed>>
    BY <1>2 DEF FinishesAdd, ofStatus, ofOption, ofSubs
  <2>4. /\ call' \in [Threads -> UserCalls \cup WorkerCalls \cup SessionCalls]
        /\ \A u \in Threads : call'[u] \in CallsOf(u)
    BY <1>2, DoneCall DEF FinishesAdd
  <2> QED
    BY <2>2, <2>3, <2>4 DEF Typed
<1>3. CASE FinishesRemove(t)
  <2> DEFINE l == call[t].on
  <2>1. l \in Listeners
    BY <1>3 DEF FinishesRemove
  <2>2. removes' \in [Listeners -> Nat] /\ tasks' \in Seq(Queued) /\ UNCHANGED <<adds, running, starts, ends>>
    <3>1. CASE InMap(l) /\ removes' = [removes EXCEPT ![l] = @ + 1] /\ tasks' = Append(tasks, Task("end", l, adds[l], "end"))
               /\ UNCHANGED <<adds, running, starts, ends>>
      <4>2. Task("end", l, adds[l], "end") \in Queued
        BY <2>1, <3>1, MapSerials, TaskTypes
      <4>3. tasks' \in Seq(Queued)
        BY <3>1, <4>2, AppendProperties DEF Typed
      <4> QED
        BY <2>1, <3>1, <4>3 DEF Typed
    <3>2. CASE UNCHANGED dispatcherVars
      BY <3>2 DEF dispatcherVars, Typed
    <3> QED
      BY <1>3, <3>1, <3>2 DEF FinishesRemove, RemoveListener
  <2>3. UNCHANGED <<calls, watched, option, engineKnows, told, lastStatus, toldStatus, reports, subscriptionArray, managed>>
    BY <1>3 DEF FinishesRemove, ofStatus, ofOption, ofSubs
  <2>4. /\ call' \in [Threads -> UserCalls \cup WorkerCalls \cup SessionCalls]
        /\ \A u \in Threads : call'[u] \in CallsOf(u)
    BY <1>3, DoneCall DEF FinishesRemove
  <2> QED
    BY <2>2, <2>3, <2>4 DEF Typed
<1>4. CASE FinishesSubs(t)
  <2> DEFINE s == call[t].on
  <2>1. s \in Subscriptions
    BY <1>4 DEF FinishesSubs
  <2>2. tasks' \in Seq(Queued) /\ subscriptionArray' \subseteq Subscriptions /\ managed' \subseteq Subscriptions
    <3>1. CASE Subscribe(s)
      <4>1. Task("add", s, 0, "add") \in Queued
        BY <2>1, OtherTaskTypes
      <4>2. Append(tasks, Task("add", s, 0, "add")) \in Seq(Queued) /\ tasks \in Seq(Queued)
        BY <4>1, AppendProperties DEF Typed
      <4> QED
        BY <2>1, <3>1, <4>2 DEF Subscribe, Typed, ofSubs
    <3>2. CASE Unsubscribe(s)
      <4>1. Task("remove", s, 0, "remove") \in Queued
        BY <2>1, OtherTaskTypes
      <4>2. Append(tasks, Task("remove", s, 0, "remove")) \in Seq(Queued) /\ tasks \in Seq(Queued)
        BY <4>1, AppendProperties DEF Typed
      <4> QED
        BY <2>1, <3>2, <4>2 DEF Unsubscribe, Typed, ofSubs
    <3> QED
      BY <1>4, <3>1, <3>2 DEF FinishesSubs
  <2>3. UNCHANGED <<adds, removes, running, starts, ends, calls, watched, option, engineKnows, told,
                    lastStatus, toldStatus, reports>>
    BY <1>4 DEF FinishesSubs, ofStatus, ofOption
  <2>4. /\ call' \in [Threads -> UserCalls \cup WorkerCalls \cup SessionCalls]
        /\ \A u \in Threads : call'[u] \in CallsOf(u)
    BY <1>4, DoneCall DEF FinishesSubs
  <2> QED
    BY <2>2, <2>3, <2>4 DEF Typed
<1>5. CASE FinishesSet(t)
  <2> DEFINE o == call[t].on
  <2>1. o \in Options
    BY <1>5 DEF FinishesSet
  <2>2. tasks' \in Seq(Queued) /\ watched' \in Options /\ option' \in Nat /\ engineKnows' \in 0..option'
        /\ told' \in [Listeners -> 0..option']
    <3>1. CASE option' = (IF o = watched THEN option + 1 ELSE option) /\ DispatchThen(o, Forwarded(o))
               /\ UNCHANGED <<watched, engineKnows, told>>
      <4>1. PICK m : NewsOf(m, o) /\ tasks' = tasks \o m
        BY <2>1, <3>1, DispatchIsNews
      <4>2. tasks' \in Seq(Queued)
        BY <4>1, Joined DEF NewsOf, Typed
      <4>3. option' \in Nat /\ option <= option'
        BY <3>1 DEF Typed
      <4>4. \A n \in 0..option : n \in 0..option'
        BY <4>3 DEF Typed
      <4>5. told \in [Listeners -> 0..option']
        BY <4>4 DEF Typed
      <4> QED
        BY <3>1, <4>2, <4>3, <4>4, <4>5 DEF Typed
    <3>2. CASE UNCHANGED <<tasks, ofOption>>
      BY <3>2 DEF ofOption, Typed
    <3> QED
      BY <1>5, <3>1, <3>2 DEF FinishesSet, SetOption
  <2>3. UNCHANGED <<adds, removes, running, starts, ends, calls, lastStatus, toldStatus, reports, subscriptionArray, managed>>
    BY <1>5 DEF FinishesSet, ofStatus, ofSubs
  <2>4. /\ call' \in [Threads -> UserCalls \cup WorkerCalls \cup SessionCalls]
        /\ \A u \in Threads : call'[u] \in CallsOf(u)
    BY <1>5, DoneCall DEF FinishesSet
  <2> QED
    BY <2>2, <2>3, <2>4 DEF Typed
<1>6. CASE FinishesGet(t)
  <2>2. told' \in [Listeners -> 0..option] /\ UNCHANGED <<watched, option, engineKnows>>
    BY <1>6 DEF FinishesGet, GetOption, Typed
  <2>3. UNCHANGED <<adds, removes, tasks, running, starts, ends, calls, lastStatus, toldStatus, reports, subscriptionArray, managed>>
    BY <1>6 DEF FinishesGet, dispatcherVars, ofStatus, ofSubs
  <2>4. /\ call' \in [Threads -> UserCalls \cup WorkerCalls \cup SessionCalls]
        /\ \A u \in Threads : call'[u] \in CallsOf(u)
    BY <1>6, DoneCall DEF FinishesGet
  <2> QED
    BY <2>2, <2>3, <2>4 DEF Typed
<1>7. CASE FinishesDispatch(t)
  <2>1. PICK m \in Events(call[t].on) : tasks' = tasks \o m
    BY <1>7 DEF FinishesDispatch, DispatchEvent
  <2>2. tasks' \in Seq(Queued)
    BY <1>7, <2>1, EventsAreTidings, Joined DEF FinishesDispatch, Tidings, Typed
  <2>3. UNCHANGED <<adds, removes, running, starts, ends, calls, watched, option, engineKnows, told,
                    lastStatus, toldStatus, reports, subscriptionArray, managed>>
    BY <1>7 DEF FinishesDispatch, ofStatus, ofOption, ofSubs
  <2>4. /\ call' \in [Threads -> UserCalls \cup WorkerCalls \cup SessionCalls]
        /\ \A u \in Threads : call'[u] \in CallsOf(u)
    BY <1>7, DoneCall DEF FinishesDispatch
  <2> QED
    BY <2>2, <2>3, <2>4 DEF Typed
<1> QED
  BY <1>1, <1>2, <1>3, <1>4, <1>5, <1>6, <1>7, FinishKinds

(* The events thread takes a task. *)
LEMMA TakeTyped ==
  ASSUME Typed, TakeTask
  PROVE  Typed'
<1> DEFINE task == Head(tasks)
<1>1. task \in Queued /\ Tail(tasks) \in Seq(Queued) /\ IsQueued(task)
  BY Shifted, QueuedFields DEF TakeTask, Take, Typed
<1>2. tasks' \in Seq(Queued) /\ running' \in Queued \cup Begun \cup {Idle}
  BY <1>1 DEF TakeTask, Take
<1>3. starts' \in [Listeners -> Nat]
  <2>1. task.kind = "start" => task.on \in Listeners
    BY <1>1 DEF IsQueued
  <2> QED
    BY <2>1, SMTT(30) DEF TakeTask, Take, Typed
<1>4. ends' \in [Listeners -> Nat]
  <2>1. task.kind = "end" => task.on \in Listeners
    BY <1>1 DEF IsQueued
  <2> QED
    BY <2>1, SMTT(30) DEF TakeTask, Take, Typed
<1>5. UNCHANGED <<adds, removes, call, calls, watched, option, engineKnows, told,
                  lastStatus, toldStatus, reports, subscriptionArray, managed>>
  BY DEF TakeTask, Take, ofCalls, ofOption, ofStatus, ofSubs
<1> QED
  BY <1>2, <1>3, <1>4, <1>5 DEF Typed

(* Its task begins a call. *)
LEMMA HandledTyped ==
  ASSUME Typed, ToRun({"start", "event", "status"}), AsHandled, NEW c \in CallsOf(Worker),
         call' = [call EXCEPT ![Worker] = c], toldStatus' \in [Listeners -> Statuses \cup {Unknown}],
         UNCHANGED <<adds, removes, tasks, starts, ends, calls, ofOption, lastStatus, reports, ofSubs>>
  PROVE  Typed'
<1>1. running \in Queued
  BY RunningFields DEF ToRun
<1>2. running' \in Begun
  BY <1>1, HandledIsBegun DEF AsHandled, ToRun
<1>3. /\ call' \in [Threads -> UserCalls \cup WorkerCalls \cup SessionCalls]
      /\ \A u \in Threads : call'[u] \in CallsOf(u)
  BY CallChanges, ThreadsDiffer
<1> QED
  BY <1>2, <1>3 DEF Typed, ofOption, ofSubs

(* The callbacks that read the option or tell of a status. *)
LEMMA RunReaderTyped ==
  ASSUME Typed, RunReader
  PROVE  Typed'
<1>1. running \in Queued /\ IsQueued(running) /\ running.on \in Listeners
  BY RunningFields DEF RunReader, ToRun, IsQueued
<1>2. Call("getOption", running.on) \in CallsOf(Worker)
  BY <1>1, WorkerBegins
<1>3. toldStatus' \in [Listeners -> Statuses \cup {Unknown}]
  BY <1>1 DEF RunReader, Typed
<1>4. ToRun({"start", "event", "status"})
  BY DEF RunReader, ToRun
<1> QED
  BY <1>2, <1>3, <1>4, HandledTyped DEF RunReader

(* A listener that is told of a status may begin a call, or none. *)
LEMMA RunStatusEventTyped ==
  ASSUME Typed, RunStatusEvent
  PROVE  Typed'
<1>1. running \in Queued /\ IsQueued(running) /\ running.on \in Listeners
  BY RunningFields DEF RunStatusEvent, ToRun, IsQueued
<1>2. Call("removeListener", running.on) \in CallsOf(Worker)
  BY <1>1, WorkerBegins
<1>3. toldStatus' \in [Listeners -> Statuses \cup {Unknown}]
  BY <1>1 DEF RunStatusEvent, Typed
<1>4. ToRun({"start", "event", "status"})
  BY DEF RunStatusEvent, ToRun
<1>5. call[Worker] \in CallsOf(Worker) /\ call = [call EXCEPT ![Worker] = call[Worker]]
  BY ThreadsDiffer DEF Typed
<1>6. PICK c \in CallsOf(Worker) : call' = [call EXCEPT ![Worker] = c]
  BY <1>2, <1>5 DEF RunStatusEvent
<1> QED
  BY <1>3, <1>4, <1>6, HandledTyped DEF RunStatusEvent

(* The engine's call that passes a status on. *)
LEMMA RunStatusTyped ==
  ASSUME Typed, RunStatus
  PROVE  Typed'
<1>1. running \in Queued /\ IsQueued(running) /\ running.on \in Statuses
  BY RunningFields DEF RunStatus, ToRun, IsQueued
<1>2. Call("setStatus", running.on) \in CallsOf(Worker)
  BY <1>1, WorkerBegins
<1>3. toldStatus' \in [Listeners -> Statuses \cup {Unknown}]
  BY DEF RunStatus, Typed, ofStatus
<1>4. ToRun({"start", "event", "status"})
  BY DEF RunStatus, ToRun
<1> QED
  BY <1>2, <1>3, <1>4, HandledTyped DEF RunStatus, ofStatus

(* Its task returns. *)
LEMMA EndTyped ==
  ASSUME Typed, EndTask, engineKnows' \in 0..option, managed' \subseteq Subscriptions,
         UNCHANGED <<ofCalls, watched, option, told, ofStatus, subscriptionArray>>
  PROVE  Typed'
<1>1. running' \in Queued \cup Begun \cup {Idle}
  BY DEF EndTask
<1> QED
  BY <1>1 DEF Typed, EndTask, ofCalls, ofStatus

(* The tasks that begin no call, and the return of those that did. *)
LEMMA EndingTyped ==
  ASSUME Typed, RunUnwatched \/ RunEngine \/ RunManager \/ Return
  PROVE  Typed'
<1>1. CASE RunUnwatched
  BY <1>1, EndTyped DEF RunUnwatched, ofOption, ofSubs, Typed
<1>2. CASE RunEngine
  <2>1. engineKnows' \in 0..option
    BY <1>2 DEF RunEngine, Typed
  <2> QED
    BY <1>2, <2>1, EndTyped DEF RunEngine, ofSubs, Typed
<1>3. CASE RunManager
  <2>1. running.on \in Subscriptions
    BY <1>3, RunningFields DEF RunManager, ToRun, IsQueued
  <2>2. managed' \subseteq Subscriptions
    BY <1>3, <2>1 DEF RunManager, Typed
  <2> QED
    BY <1>3, <2>2, EndTyped DEF RunManager, ofOption, Typed
<1>4. CASE Return
  BY <1>4, EndTyped DEF Return, ofOption, ofSubs, Typed
<1> QED
  BY <1>1, <1>2, <1>3, <1>4

(* The session reports a status, or sets its option. *)
LEMMA SessionTyped ==
  ASSUME Typed, SessionSets("realMaxBandwidth") \/ \E status \in Statuses : Report(status)
  PROVE  Typed'
<1>1. ASSUME NEW status \in Statuses, Report(status) PROVE Typed'
  <2>1. tasks' \in Seq(Queued)
    <3>1. Task("status", status, 0, "status") \in Queued
      BY OtherTaskTypes
    <3> QED
      BY <1>1, <3>1, AppendProperties DEF Report, Typed
  <2>2. reports' \in 0..MaxReports
    BY <1>1, NamesAssumption DEF Report, Typed
  <2> QED
    BY <1>1, <2>1, <2>2 DEF Report, Typed, ofCalls, ofOption, ofSubs
<1>2. CASE SessionSets("realMaxBandwidth")
  <2>1. reports' \in 0..MaxReports
    BY <1>2, NamesAssumption DEF SessionSets, Typed
  <2>2. SessionThread \in Threads /\ Call("sessionSetOption", "realMaxBandwidth") \in CallsOf(SessionThread)
    BY ThreadsDiffer, WorkerBegins
  <2>3. /\ call' = [call EXCEPT ![SessionThread] = Call("sessionSetOption", "realMaxBandwidth")]
        /\ UNCHANGED <<dispatcherVars, ofOption, toldStatus, ofSubs, lastStatus, calls>>
    BY <1>2 DEF SessionSets
  <2> QED
    BY <2>1, <2>2, <2>3, TypedByCall DEF Typed
<1> QED
  BY <1>1, <1>2

(* The actions of Next, one by one. *)
UserBegins == \E u \in Users : \E op, on :
  /\ \/ op \in {"addListener", "removeListener"} /\ on \in Listeners
     \/ op \in {"subscribe", "unsubscribe"} /\ on \in Subscriptions
     \/ op = "setOption" /\ on = "forcedTransport"
     \/ op \in {"setRequestedMaxBandwidth", "sendMessage"} /\ on = "nothing"
  /\ Begin(u, op, on)

(* A step of Next is one of these. *)
LEMMA Steps ==
  ASSUME Next
  PROVE  \/ UserBegins \/ \E t \in Threads : Acquire(t) \/ Finish(t)
         \/ TakeTask \/ RunReader \/ RunUnwatched \/ RunStatusEvent \/ RunStatus \/ RunEngine \/ RunManager \/ Return
         \/ \E status \in Statuses : Report(status)
         \/ SessionSets("realMaxBandwidth")
<1>1. ASSUME NEW u \in Users, NEW op, NEW on, Begin(u, op, on),
             \/ op \in {"addListener", "removeListener"} /\ on \in Listeners
             \/ op \in {"subscribe", "unsubscribe"} /\ on \in Subscriptions
             \/ op = "setOption" /\ on = "forcedTransport"
             \/ op \in {"setRequestedMaxBandwidth", "sendMessage"} /\ on = "nothing"
      PROVE  UserBegins
  BY <1>1 DEF UserBegins
<1>2. ASSUME \/ \E u \in Users, l \in Listeners, op \in {"addListener", "removeListener"} : Begin(u, op, l)
             \/ \E u \in Users, s \in Subscriptions, op \in {"subscribe", "unsubscribe"} : Begin(u, op, s)
             \/ \E u \in Users : Begin(u, "setOption", "forcedTransport")
             \/ \E u \in Users, op \in {"setRequestedMaxBandwidth", "sendMessage"} : Begin(u, op, "nothing")
      PROVE  UserBegins
  BY <1>1, <1>2
<1> QED
  BY <1>2 DEF Next

(* Whatever the step. *)
LEMMA TypedStep ==
  ASSUME Typed, Next
  PROVE  Typed'
<1>1. CASE UserBegins
  BY <1>1, BegunCall, BeginTyped DEF UserBegins
<1> QED
  BY <1>1, Steps, AcquireTyped, FinishTyped, TakeTyped, RunReaderTyped, RunStatusEventTyped, RunStatusTyped,
     EndingTyped, SessionTyped
-----------------------------------------------------------------------------
(* The additions are bounded, and the events thread calls from its task.   *)

(* The threads that are adding a listener are users, finitely many. *)
LEMMA AddersFinite == IsFiniteSet(Adders) /\ Cardinality(Adders) \in Nat
<1>1. Adders \in SUBSET Users
  BY DEF Adders
<1> QED
  BY <1>1, NamesAssumption, FS_Subset, FS_CardinalityType

(* They remain the same, and so does the bound. *)
LEMMA BoundedSame ==
  ASSUME Bounded, UNCHANGED <<adds, calls>>, \A u \in Users : call'[u].op = call[u].op
  PROVE  Bounded'
<1>1. Adders' = Adders
  BY DEF Adders
<1> QED
  BY <1>1 DEF Bounded

(* A user begins one of the calls that are counted. *)
LEMMA BoundedBegin ==
  ASSUME Typed, Bounded, NEW u \in Users, NEW op, NEW on, Begin(u, op, on),
         [Call(op, on) EXCEPT !.held = 1] \in CallsOf(u)
  PROVE  Bounded'
<1>1. u \in Threads /\ \A v \in Users : v \in Threads
  BY DEF Threads
<1>2. \A v \in Users : v # u => call'[v] = call[v]
  BY <1>1, CallChanges DEF Begin
<1>3. Adders' \in SUBSET (Adders \cup {u})
  BY <1>2 DEF Adders
<1>4. IsFiniteSet(Adders \cup {u}) /\ Cardinality(Adders \cup {u}) <= Cardinality(Adders) + 1
      /\ Cardinality(Adders \cup {u}) \in Nat
  <2>1. /\ IsFiniteSet(Adders \cup {u})
        /\ Cardinality(Adders \cup {u}) = IF u \in Adders THEN Cardinality(Adders) ELSE Cardinality(Adders) + 1
    BY AddersFinite, FS_AddElement
  <2> QED
    BY <2>1, AddersFinite
<1>5. Cardinality(Adders') <= Cardinality(Adders) + 1 /\ Cardinality(Adders') \in Nat
  <2>1. IsFiniteSet(Adders') /\ Cardinality(Adders') <= Cardinality(Adders \cup {u})
    BY <1>3, <1>4, FS_Subset
  <2>2. Cardinality(Adders') \in Nat
    BY <2>1, FS_CardinalityType
  <2> QED
    BY <1>4, <2>1, <2>2, AddersFinite
<1>6. adds' = adds /\ calls' = calls + 1
  BY DEF Begin, dispatcherVars
<1>7. ASSUME NEW l \in Listeners PROVE adds'[l] + Cardinality(Adders') <= calls'
  <2>1. adds[l] \in Nat /\ calls \in Nat /\ adds[l] + Cardinality(Adders) <= calls
    BY DEF Typed, Bounded, Count
  <2> QED
    BY <1>5, <1>6, <2>1, AddersFinite
<1> QED
  BY <1>7 DEF Bounded

(* The call that adds a listener is over once it has. *)
LEMMA BoundedAdd ==
  ASSUME Typed, Bounded, NEW t \in Threads, FinishesAdd(t)
  PROVE  Bounded'
<1>1. t \in Users /\ t \in Adders
  BY DEF FinishesAdd, Adders
<1>2. call'[t] = NoCall /\ \A u \in Users : u # t => call'[u] = call[u]
  BY DoneCall DEF FinishesAdd, Threads
<1>3. Adders' = Adders \ {t}
  BY <1>1, <1>2, NoCallFields DEF Adders
<1>4. Cardinality(Adders') = Cardinality(Adders) - 1
  BY <1>1, <1>3, AddersFinite, FS_RemoveElement
<1>5. ASSUME NEW l \in Listeners PROVE adds'[l] + Cardinality(Adders') <= calls'
  <2>1. adds'[l] \in {adds[l], adds[l] + 1} /\ adds[l] \in Nat /\ calls \in Nat /\ calls' = calls
    <3>1. adds[l] \in Nat /\ calls \in Nat /\ adds \in [Listeners -> Nat]
      BY DEF Typed, Count
    <3>2. adds' = adds \/ adds' = [adds EXCEPT ![call[t].on] = @ + 1]
      BY DEF FinishesAdd, AddListener, dispatcherVars
    <3> QED
      BY <3>1, <3>2 DEF FinishesAdd
  <2>2. adds[l] + Cardinality(Adders) <= calls
    BY DEF Bounded
  <2> QED
    BY <1>4, <2>1, <2>2, AddersFinite
<1> QED
  BY <1>5 DEF Bounded

(* The other calls that end add none. *)
LEMMA BoundedFinish ==
  ASSUME Typed, Bounded, NEW t \in Threads, Finish(t)
  PROVE  Bounded'
<1>1. CASE FinishesAdd(t)
  BY <1>1, BoundedAdd
<1>2. CASE FinishesStatus(t)
  <2>1. PICK c \in CallsOf(t) : call' = [call EXCEPT ![t] = c]
    BY <1>2, WorkerBegins, NoCallType DEF FinishesStatus, FinishStatus
  <2>2. \A u \in Users : call'[u] = call[u]
    BY <1>2, <2>1, CallChanges, ThreadsDiffer DEF FinishesStatus
  <2> QED
    BY <1>2, <2>2, BoundedSame DEF FinishesStatus, FinishStatus, dispatcherVars
<1>3. CASE ~FinishesAdd(t) /\ ~FinishesStatus(t)
  <2>1. /\ FinishesRemove(t) \/ FinishesSubs(t) \/ FinishesSet(t) \/ FinishesGet(t) \/ FinishesDispatch(t)
    BY <1>3, FinishKinds
  <2>2. Done(t) /\ UNCHANGED <<adds, calls>> /\ call[t].op # "addListener"
    BY <2>1 DEF FinishesRemove, FinishesSubs, FinishesSet, FinishesGet, FinishesDispatch, RemoveListener, dispatcherVars
  <2>3. call'[t] = NoCall /\ \A u \in Users : u # t => call'[u] = call[u]
    BY <2>2, DoneCall DEF Threads
  <2>4. Adders' = Adders
    BY <2>2, <2>3, NoCallFields DEF Adders
  <2> QED
    BY <2>2, <2>4 DEF Bounded
<1> QED
  BY <1>1, <1>2, <1>3

(* The steps of the events thread and of the session are no calls of users. *)
WorkerCallOnly == \E c \in CallsOf(Worker) : call' = [call EXCEPT ![Worker] = c]

(* No such step adds a listener or changes what a user calls. *)
LEMMA WorkerSteps ==
  ASSUME Typed,
         \/ TakeTask \/ RunReader \/ RunUnwatched \/ RunStatusEvent \/ RunStatus \/ RunEngine \/ RunManager \/ Return
         \/ \E status \in Statuses : Report(status)
  PROVE  UNCHANGED <<adds, calls>> /\ WorkerCallOnly
<1>0. call[Worker] \in CallsOf(Worker) /\ call = [call EXCEPT ![Worker] = call[Worker]]
  BY ThreadsDiffer DEF Typed
<1>1. CASE TakeTask
  BY <1>0, <1>1 DEF TakeTask, Take, ofCalls, WorkerCallOnly
<1>2. CASE RunReader
  <2>1. running.on \in Listeners
    BY <1>2, RunningFields DEF RunReader, ToRun, IsQueued
  <2> QED
    BY <1>2, <2>1, WorkerBegins DEF RunReader, WorkerCallOnly
<1>3. CASE RunStatusEvent
  <2>1. running.on \in Listeners
    BY <1>3, RunningFields DEF RunStatusEvent, ToRun, IsQueued
  <2> QED
    BY <1>0, <1>3, <2>1, WorkerBegins DEF RunStatusEvent, WorkerCallOnly
<1>4. CASE RunStatus
  <2>1. running.on \in Statuses
    BY <1>4, RunningFields DEF RunStatus, ToRun, IsQueued
  <2> QED
    BY <1>4, <2>1, WorkerBegins DEF RunStatus, WorkerCallOnly
<1>5. CASE RunUnwatched \/ RunEngine \/ RunManager \/ Return
  BY <1>0, <1>5 DEF RunUnwatched, RunEngine, RunManager, Return, EndTask, ofCalls, WorkerCallOnly
<1>6. CASE \E status \in Statuses : Report(status)
  BY <1>0, <1>6 DEF Report, ofCalls, WorkerCallOnly
<1> QED
  BY <1>1, <1>2, <1>3, <1>4, <1>5, <1>6

(* Whatever the step. *)
LEMMA BoundedStep ==
  ASSUME Typed, Bounded, Next
  PROVE  Bounded'
<1>1. CASE UserBegins
  BY <1>1, BegunCall, BoundedBegin DEF UserBegins
<1>2. ASSUME NEW t \in Threads, Acquire(t) PROVE Bounded'
  <2>1. \A u \in Users : call'[u].op = call[u].op
    BY <1>2, AcquireCall DEF Threads
  <2> QED
    BY <1>2, <2>1, BoundedSame DEF Acquire, dispatcherVars
<1>3. CASE SessionSets("realMaxBandwidth")
  <2>1. \A u \in Users : call'[u] = call[u]
    BY <1>3, ThreadsDiffer, WorkerBegins, CallChanges DEF SessionSets
  <2> QED
    BY <1>3, <2>1, BoundedSame DEF SessionSets, dispatcherVars
<1>4. ASSUME UNCHANGED <<adds, calls>>, WorkerCallOnly PROVE Bounded'
  <2>1. \A u \in Users : call'[u] = call[u]
    BY <1>4, ThreadsDiffer, CallChanges DEF WorkerCallOnly
  <2> QED
    BY <1>4, <2>1, BoundedSame
<1> QED
  BY <1>1, <1>2, <1>3, <1>4, Steps, BoundedFinish, WorkerSteps

(* The events thread calls from a task it has begun: it takes no other and  *)
(* does not return meanwhile.                                               *)
LEMMA CallingStep ==
  ASSUME Typed, Calling, Next
  PROVE  Calling'
<1>0. Worker \in Threads /\ NoCall \in CallsOf(Worker)
  BY ThreadsDiffer, NoCallType
<1>1. CASE UserBegins
  <2>1. call'[Worker] = call[Worker]
    BY <1>1, ThreadsDiffer, BegunCall, CallChanges DEF UserBegins, Begin
  <2> QED
    BY <1>1, <2>1 DEF UserBegins, Begin, dispatcherVars, Calling
<1>2. ASSUME NEW t \in Threads, Acquire(t) PROVE Calling'
  <2>1. call'[Worker].op = call[Worker].op /\ call'[Worker] \in CallsOf(Worker) /\ call[Worker] \in CallsOf(Worker)
    BY <1>0, <1>2, AcquireCall, CallChanges DEF Typed
  <2>2. call'[Worker] # NoCall => call[Worker] # NoCall
    BY <2>1, IsNoCall, NoCallFields
  <2> QED
    BY <1>2, <2>2 DEF Acquire, dispatcherVars, Calling
<1>3. ASSUME NEW t \in Threads, Finish(t) PROVE Calling'
  <2>1. running' = running
    BY <1>3, FinishKinds DEF FinishesStatus, FinishStatus, FinishesAdd, AddListener, FinishesRemove, RemoveListener,
          FinishesSubs, FinishesSet, FinishesGet, FinishesDispatch, dispatcherVars
  <2>2. CASE t # Worker
    <3>1. Done(t)
      BY <1>3, <2>2, FinishKinds DEF FinishesStatus, FinishesAdd, FinishesRemove, FinishesSubs, FinishesSet,
            FinishesGet, FinishesDispatch
    <3>2. call'[Worker] = call[Worker]
      BY <1>0, <2>2, <3>1, DoneCall
    <3> QED
      BY <2>1, <3>2 DEF Calling
  <2>3. CASE t = Worker
    BY <1>3, <2>1, <2>3 DEF Finish, Calling
  <2> QED
    BY <2>2, <2>3
<1>4. CASE TakeTask
  <2>1. call[Worker] = NoCall
    BY <1>4, RunningFields, WhatsDiffer DEF TakeTask, Take, Calling
  <2> QED
    BY <1>4, <2>1 DEF TakeTask, ofCalls, Calling
<1>5. CASE RunReader \/ RunStatusEvent \/ RunStatus
  <2>1. AsHandled /\ running \in Queued /\ running.kind \in {"start", "event", "status"}
    BY <1>5, RunningFields DEF RunReader, RunStatusEvent, RunStatus, ToRun
  <2>2. running'.what = Handled
    BY <2>1, HandledIsBegun DEF AsHandled
  <2> QED
    BY <2>2 DEF Calling
<1>6. CASE RunUnwatched \/ RunEngine \/ RunManager \/ Return
  <2>1. call[Worker] = NoCall
    BY <1>6 DEF RunUnwatched, RunEngine, RunManager, Return, ToRun, Calling
  <2>2. call' = call
    BY <1>6 DEF RunUnwatched, RunEngine, RunManager, Return, ofCalls
  <2> QED
    BY <2>1, <2>2 DEF Calling
<1>7. CASE \E status \in Statuses : Report(status)
  BY <1>7 DEF Report, ofCalls, Calling
<1>8. CASE SessionSets("realMaxBandwidth")
  <2>1. call'[Worker] = call[Worker]
    BY <1>8, ThreadsDiffer, WorkerBegins, CallChanges DEF SessionSets
  <2> QED
    BY <1>8, <2>1 DEF SessionSets, dispatcherVars, Calling
<1> QED
  BY <1>1, <1>2, <1>3, <1>4, <1>5, <1>6, <1>7, <1>8, Steps
-----------------------------------------------------------------------------
(* The lives go on in turn.                                                *)

(* The numbers of turns. *)
LEMMA LifeCounts ==
  ASSUME Typed, Lives, NEW l \in Listeners
  PROVE  /\ adds[l] \in Nat /\ removes[l] \in Nat /\ starts[l] \in Nat /\ ends[l] \in Nat
         /\ starts[l] + ends[l] \in Nat /\ adds[l] + removes[l] \in Nat
         /\ starts[l] + ends[l] <= adds[l] + removes[l]
         /\ removes[l] <= adds[l] /\ adds[l] <= removes[l] + 1
         /\ ends[l] <= starts[l] /\ starts[l] <= ends[l] + 1 /\ starts[l] <= adds[l] /\ ends[l] <= removes[l]
         /\ InMap(l) <=> adds[l] = removes[l] + 1
<1>1. adds[l] \in Nat /\ removes[l] \in Nat /\ starts[l] \in Nat /\ ends[l] \in Nat
  BY DEF Typed
<1>2. Alternates(l)
  BY DEF Lives
<1> QED
  BY <1>1, <1>2 DEF Alternates, InMap, Alive

(* They stay as they are while no listener is added, removed or told so. *)
LEMMA LivesSame ==
  ASSUME Lives, UNCHANGED <<adds, removes, tasks, starts, ends>>,
         running'.kind \in {"start", "event"} =>
           running'.kind = running.kind /\ running'.on = running.on /\ running'.wrapper = running.wrapper
  PROVE  Lives'
<1>1. \A l \in Listeners : Alternates(l)' /\ LivesIn(l, tasks', starts'[l] + ends'[l], adds'[l] + removes'[l])
  BY DEF Lives, Alternates
<1>2. running'.kind \in {"start", "event"} =>
        starts'[running'.on] = running'.wrapper /\ running'.wrapper <= adds'[running'.on]
  BY DEF Lives
<1> QED
  BY <1>1, <1>2 DEF Lives

(* So they do when more tasks join the queue, with events of lives that last. *)
LEMMA LivesJoined ==
  ASSUME Typed, Lives, NEW m \in Seq(Queued), tasks' = tasks \o m,
         UNCHANGED <<adds, removes, running, starts, ends>>,
         \A t \in ToSet(m) :
            /\ t.kind \notin {"start", "end"}
            /\ t.kind = "event" => t.on \in Listeners /\ t.wrapper = adds[t.on]
  PROVE  Lives'
<1>1. ASSUME NEW l \in Listeners
      PROVE  Alternates(l)' /\ LivesIn(l, tasks', starts'[l] + ends'[l], adds'[l] + removes'[l])
  <2>1. \A t \in ToSet(m) : ~IsLife(t, l) /\ (IsEvent(t, l) => 2 * t.wrapper <= adds[l] + removes[l] + 1)
    BY LifeCounts, SMTT(30) DEF IsLife, IsEvent
  <2>2. LivesIn(l, tasks, starts[l] + ends[l], adds[l] + removes[l]) /\ tasks \in Seq(Queued)
    BY DEF Lives, Typed
  <2>3. LivesIn(l, tasks \o m, starts[l] + ends[l], adds[l] + removes[l])
    BY <2>1, <2>2, LifeCounts, LivesGrow
  <2> QED
    BY <2>3 DEF Lives, Alternates
<1>2. running'.kind \in {"start", "event"} =>
        starts'[running'.on] = running'.wrapper /\ running'.wrapper <= adds'[running'.on]
  BY DEF Lives
<1> QED
  BY <1>1, <1>2 DEF Lives

(* Or one task does. *)
LEMMA LivesOneMore ==
  ASSUME Typed, Lives, NEW x \in Queued, x.kind \notin {"start", "end", "event"}, tasks' = Append(tasks, x),
         UNCHANGED <<adds, removes, running, starts, ends>>
  PROVE  Lives'
<1>1. tasks' = tasks \o <<x>> /\ <<x>> \in Seq(Queued) /\ ToSet(<<x>>) = {x}
  BY Appended DEF Typed
<1> QED
  BY <1>1, LivesJoined

(* A listener is added: the next turn is its start. *)
LEMMA LivesAdded ==
  ASSUME Typed, Lives, NEW l \in Listeners, AddListener(l)
  PROVE  Lives'
<1> DEFINE x == Task("start", l, adds[l] + 1, "start")
<1>1. CASE UNCHANGED dispatcherVars
  BY <1>1, LivesSame DEF dispatcherVars
<1>2. CASE /\ ~InMap(l) /\ adds' = [adds EXCEPT ![l] = @ + 1] /\ tasks' = Append(tasks, x)
           /\ UNCHANGED <<removes, running, starts, ends>>
  <2>1. adds[l] = removes[l] /\ adds[l] \in Nat
    BY <1>2, LifeCounts
  <2>2. x \in Queued /\ IsLife(x, l) /\ Turn(x) = adds[l] + removes[l] + 1
    BY <2>1, TaskTypes, TaskFields DEF Serial, IsLife, Turn
  <2>3. \A k \in Listeners : k # l => ~IsLife(x, k) /\ ~IsEvent(x, k)
    BY TaskFields DEF IsLife, IsEvent
  <2>4. \A k \in Listeners : adds'[k] = IF k = l THEN adds[k] + 1 ELSE adds[k]
    BY <1>2 DEF Typed
  <2>5. tasks \in Seq(Queued) /\ \A k \in Listeners : LivesIn(k, tasks, starts[k] + ends[k], adds[k] + removes[k])
    BY DEF Typed, Lives
  <2>6. LivesIn(l, tasks', starts'[l] + ends'[l], adds'[l] + removes'[l])
    <3>1. LivesIn(l, Append(tasks, x), starts[l] + ends[l], adds[l] + removes[l] + 1)
      <4> HIDE DEF x
      <4> QED
        BY <2>2, <2>5, LifeCounts, LivesAdd
    <3>2. adds'[l] + removes'[l] = adds[l] + removes[l] + 1
      BY <1>2, <2>1, <2>4
    <3> QED
      BY <1>2, <3>1, <3>2
  <2>7. ASSUME NEW k \in Listeners, k # l PROVE LivesIn(k, tasks', starts'[k] + ends'[k], adds'[k] + removes'[k])
    <3>1. tasks' = tasks \o <<x>> /\ <<x>> \in Seq(Queued) /\ ToSet(<<x>>) = {x}
      <4> HIDE DEF x
      <4> QED
        BY <1>2, <2>2, <2>5, Appended
    <3>2. LivesIn(k, tasks \o <<x>>, starts[k] + ends[k], adds[k] + removes[k])
      BY <2>3, <2>5, <2>7, <3>1, LifeCounts, LivesGrow
    <3> QED
      BY <1>2, <2>4, <2>7, <3>1, <3>2
  <2>8. ASSUME NEW k \in Listeners PROVE Alternates(k)'
    <3>1. Alternates(k) /\ adds[k] \in Nat /\ removes[k] \in Nat /\ starts[k] \in Nat /\ ends[k] \in Nat
      BY LifeCounts DEF Lives
    <3>2. adds'[k] = IF k = l THEN adds[k] + 1 ELSE adds[k]
      BY <2>4
    <3> QED
      BY <1>2, <2>1, <3>1, <3>2 DEF Alternates
  <2>9. running'.kind \in {"start", "event"} =>
          starts'[running'.on] = running'.wrapper /\ running'.wrapper <= adds'[running'.on]
    <3> SUFFICES ASSUME running.kind \in {"start", "event"}
                 PROVE  starts[running.on] = running.wrapper /\ running.wrapper <= adds'[running.on]
      BY <1>2
    <3>1. running.on \in Listeners /\ running.wrapper \in Nat
      BY RunningFields DEF IsQueued, IsBegun, Serial
    <3>2. adds[running.on] \in Nat /\ adds'[running.on] \in Nat /\ adds[running.on] <= adds'[running.on]
      BY <2>4, <3>1, LifeCounts
    <3>3. starts[running.on] = running.wrapper /\ running.wrapper <= adds[running.on]
      BY DEF Lives
    <3> QED
      BY <3>1, <3>2, <3>3
  <2> QED
    BY <2>6, <2>7, <2>8, <2>9 DEF Lives
<1> QED
  BY <1>1, <1>2 DEF AddListener

(* A listener is removed: the next turn is its end. *)
LEMMA LivesRemoved ==
  ASSUME Typed, Lives, NEW l \in Listeners, RemoveListener(l)
  PROVE  Lives'
<1> DEFINE x == Task("end", l, adds[l], "end")
<1>1. CASE UNCHANGED dispatcherVars
  BY <1>1, LivesSame DEF dispatcherVars
<1>2. CASE /\ InMap(l) /\ removes' = [removes EXCEPT ![l] = @ + 1] /\ tasks' = Append(tasks, x)
           /\ UNCHANGED <<adds, running, starts, ends>>
  <2>1. adds[l] = removes[l] + 1 /\ adds[l] \in Nat /\ removes[l] \in Nat
    BY <1>2, LifeCounts
  <2>2. x \in Queued /\ IsLife(x, l) /\ Turn(x) = adds[l] + removes[l] + 1
    BY <2>1, TaskTypes, TaskFields DEF Serial, IsLife, Turn
  <2>3. \A k \in Listeners : k # l => ~IsLife(x, k) /\ ~IsEvent(x, k)
    BY TaskFields DEF IsLife, IsEvent
  <2>4. \A k \in Listeners : removes'[k] = IF k = l THEN removes[k] + 1 ELSE removes[k]
    BY <1>2 DEF Typed
  <2>5. tasks \in Seq(Queued) /\ \A k \in Listeners : LivesIn(k, tasks, starts[k] + ends[k], adds[k] + removes[k])
    BY DEF Typed, Lives
  <2>6. LivesIn(l, tasks', starts'[l] + ends'[l], adds'[l] + removes'[l])
    <3>1. LivesIn(l, Append(tasks, x), starts[l] + ends[l], adds[l] + removes[l] + 1)
      <4> HIDE DEF x
      <4> QED
        BY <2>2, <2>5, LifeCounts, LivesAdd
    <3>2. adds'[l] + removes'[l] = adds[l] + removes[l] + 1
      BY <1>2, <2>1, <2>4
    <3> QED
      BY <1>2, <3>1, <3>2
  <2>7. ASSUME NEW k \in Listeners, k # l PROVE LivesIn(k, tasks', starts'[k] + ends'[k], adds'[k] + removes'[k])
    <3>1. tasks' = tasks \o <<x>> /\ <<x>> \in Seq(Queued) /\ ToSet(<<x>>) = {x}
      <4> HIDE DEF x
      <4> QED
        BY <1>2, <2>2, <2>5, Appended
    <3>2. LivesIn(k, tasks \o <<x>>, starts[k] + ends[k], adds[k] + removes[k])
      BY <2>3, <2>5, <2>7, <3>1, LifeCounts, LivesGrow
    <3> QED
      BY <1>2, <2>4, <2>7, <3>1, <3>2
  <2>8. ASSUME NEW k \in Listeners PROVE Alternates(k)'
    <3>1. Alternates(k) /\ adds[k] \in Nat /\ removes[k] \in Nat /\ starts[k] \in Nat /\ ends[k] \in Nat
      BY LifeCounts DEF Lives
    <3>2. removes'[k] = IF k = l THEN removes[k] + 1 ELSE removes[k]
      BY <2>4
    <3> QED
      BY <1>2, <2>1, <3>1, <3>2 DEF Alternates
  <2>9. running'.kind \in {"start", "event"} =>
          starts'[running'.on] = running'.wrapper /\ running'.wrapper <= adds'[running'.on]
    BY <1>2 DEF Lives
  <2> QED
    BY <2>6, <2>7, <2>8, <2>9 DEF Lives
<1> QED
  BY <1>1, <1>2 DEF RemoveListener

(* The arithmetic of turns: of a listener added "a" times, removed "r" times *)
(* and told so "s" and "e" times, the next turn is the one that it says.     *)
Turns(a, r, s, e, w) ==
  /\ 2 * w - 1 = s + e + 1 /\ s + e < a + r => s = e /\ s < a /\ w = s + 1
  /\ 2 * w = s + e + 1 /\ s + e < a + r => s = e + 1 /\ e < r
  /\ r < w /\ 2 * w <= a + r + 1 => a = r + 1 /\ w = a /\ 2 * w = a + r + 1
  /\ s + e = a + r => s = a

(* It holds of the numbers that alternate. *)
LEMMA TurnArithmetic ==
  ASSUME NEW a \in Nat, NEW r \in Nat, NEW s \in Nat, NEW e \in Nat, NEW w \in Nat,
         r <= a, a <= r + 1, e <= s, s <= e + 1, s <= a, e <= r
  PROVE  Turns(a, r, s, e, w)
  BY DEF Turns

(* What the task that is taken means for its listener: it is its next turn,  *)
(* or an event of its life that goes on, or is dropped.                      *)
LEMMA TakenTurn ==
  ASSUME Typed, Lives, tasks # <<>>
  PROVE  LET x == Head(tasks)
             l == x.on
         IN  /\ x.kind \in {"start", "event", "end"} => l \in Listeners /\ x.wrapper \in Serial
             /\ x.kind = "start" =>
                  /\ starts[l] = ends[l] /\ starts[l] < adds[l] /\ x.wrapper = starts[l] + 1
                  /\ LivesIn(l, Tail(tasks), starts[l] + ends[l] + 1, adds[l] + removes[l])
             /\ x.kind = "end" =>
                  /\ starts[l] = ends[l] + 1 /\ ends[l] < removes[l]
                  /\ LivesIn(l, Tail(tasks), starts[l] + ends[l] + 1, adds[l] + removes[l])
             /\ x.kind = "event" /\ Alive(l, x.wrapper) =>
                  InMap(l) /\ x.wrapper = adds[l] /\ starts[l] = adds[l]
             /\ \A k \in Listeners : ~IsLife(x, k) => LivesIn(k, Tail(tasks), starts[k] + ends[k], adds[k] + removes[k])
<1> DEFINE x == Head(tasks)
           l == x.on
<1>1. tasks \in Seq(Queued) /\ x \in Queued /\ IsQueued(x)
  BY Shifted, QueuedFields DEF Typed
<1>2. x.kind \in {"start", "event", "end"} => l \in Listeners /\ x.wrapper \in Serial
  BY <1>1 DEF IsQueued
<1>3. ASSUME NEW k \in Listeners
      PROVE  /\ IsLife(x, k) =>
                  /\ Turn(x) = starts[k] + ends[k] + 1 /\ starts[k] + ends[k] < adds[k] + removes[k]
                  /\ LivesIn(k, Tail(tasks), starts[k] + ends[k] + 1, adds[k] + removes[k])
             /\ ~IsLife(x, k) => LivesIn(k, Tail(tasks), starts[k] + ends[k], adds[k] + removes[k])
             /\ IsEvent(x, k) => 2 * x.wrapper <= adds[k] + removes[k] + 1
             /\ IsEvent(x, k) /\ 2 * x.wrapper = adds[k] + removes[k] + 1 => starts[k] + ends[k] = adds[k] + removes[k]
  <2>1. LivesIn(k, tasks, starts[k] + ends[k], adds[k] + removes[k])
    BY DEF Lives
  <2> HIDE DEF x
  <2> QED
    BY <1>1, <2>1, LifeCounts, LivesTaken DEF x
<1> HIDE DEF x
<1>4. ASSUME x.kind = "start"
      PROVE  /\ starts[l] = ends[l] /\ starts[l] < adds[l] /\ x.wrapper = starts[l] + 1
             /\ LivesIn(l, Tail(tasks), starts[l] + ends[l] + 1, adds[l] + removes[l])
  <2>1. l \in Listeners /\ x.wrapper \in Nat /\ IsLife(x, l) /\ Turn(x) = 2 * x.wrapper - 1
    BY <1>2, <1>4 DEF IsLife, Turn, Serial
  <2> HIDE DEF l
  <2>a. Turns(adds[l], removes[l], starts[l], ends[l], x.wrapper)
    BY <2>1, LifeCounts, TurnArithmetic
  <2>2. 2 * x.wrapper - 1 = starts[l] + ends[l] + 1 /\ starts[l] + ends[l] < adds[l] + removes[l]
    BY <1>3, <2>1
  <2>3. starts[l] = ends[l] /\ starts[l] < adds[l] /\ x.wrapper = starts[l] + 1
    BY <2>1, <2>2, <2>a DEF Turns
  <2> QED
    BY <1>3, <2>1, <2>3
<1>5. ASSUME x.kind = "end"
      PROVE  /\ starts[l] = ends[l] + 1 /\ ends[l] < removes[l]
             /\ LivesIn(l, Tail(tasks), starts[l] + ends[l] + 1, adds[l] + removes[l])
  <2>1. l \in Listeners /\ x.wrapper \in Nat /\ IsLife(x, l) /\ Turn(x) = 2 * x.wrapper
    BY <1>2, <1>5 DEF IsLife, Turn, Serial
  <2> HIDE DEF l
  <2>a. Turns(adds[l], removes[l], starts[l], ends[l], x.wrapper)
    BY <2>1, LifeCounts, TurnArithmetic
  <2>2. 2 * x.wrapper = starts[l] + ends[l] + 1 /\ starts[l] + ends[l] < adds[l] + removes[l]
    BY <1>3, <2>1
  <2>3. starts[l] = ends[l] + 1 /\ ends[l] < removes[l]
    BY <2>1, <2>2, <2>a DEF Turns
  <2> QED
    BY <1>3, <2>1, <2>3
<1>6. ASSUME x.kind = "event", Alive(l, x.wrapper)
      PROVE  InMap(l) /\ x.wrapper = adds[l] /\ starts[l] = adds[l]
  <2>1. l \in Listeners /\ x.wrapper \in Nat /\ IsEvent(x, l) /\ removes[l] < x.wrapper
    BY <1>2, <1>6 DEF IsEvent, Alive, Serial
  <2> HIDE DEF l
  <2>a. Turns(adds[l], removes[l], starts[l], ends[l], x.wrapper)
    BY <2>1, LifeCounts, TurnArithmetic
  <2>2. 2 * x.wrapper <= adds[l] + removes[l] + 1
    BY <1>3, <2>1
  <2>3. adds[l] = removes[l] + 1 /\ x.wrapper = adds[l] /\ 2 * x.wrapper = adds[l] + removes[l] + 1
    BY <2>1, <2>2, <2>a DEF Turns
  <2>4. starts[l] + ends[l] = adds[l] + removes[l]
    BY <1>3, <2>1, <2>3
  <2> QED
    BY <2>1, <2>3, <2>4, <2>a DEF Turns, InMap, Alive, Typed
<1> QED
  BY <1>2, <1>3, <1>4, <1>5, <1>6 DEF x

(* The events thread takes a task. *)
LEMMA LivesTake ==
  ASSUME Typed, Lives, Take
  PROVE  Lives'
<1> DEFINE x == Head(tasks)
           l == x.on
<1>1. /\ x.kind \in {"start", "event", "end"} => l \in Listeners /\ x.wrapper \in Serial
      /\ x.kind = "start" =>
           /\ starts[l] = ends[l] /\ starts[l] < adds[l] /\ x.wrapper = starts[l] + 1
           /\ LivesIn(l, Tail(tasks), starts[l] + ends[l] + 1, adds[l] + removes[l])
      /\ x.kind = "end" =>
           /\ starts[l] = ends[l] + 1 /\ ends[l] < removes[l]
           /\ LivesIn(l, Tail(tasks), starts[l] + ends[l] + 1, adds[l] + removes[l])
      /\ x.kind = "event" /\ Alive(l, x.wrapper) =>
           InMap(l) /\ x.wrapper = adds[l] /\ starts[l] = adds[l]
      /\ \A k \in Listeners : ~IsLife(x, k) => LivesIn(k, Tail(tasks), starts[k] + ends[k], adds[k] + removes[k])
  BY TakenTurn DEF Take
<1>2. /\ tasks' = Tail(tasks) /\ UNCHANGED <<adds, removes>>
      /\ running' = IF x.kind = "event" /\ ~Alive(l, x.wrapper) THEN Idle ELSE x
      /\ starts' = IF x.kind = "start" THEN [starts EXCEPT ![l] = @ + 1] ELSE starts
      /\ ends' = IF x.kind = "end" THEN [ends EXCEPT ![l] = @ + 1] ELSE ends
  BY DEF Take
<1> HIDE DEF x, l
<1>3. \A k \in Listeners : /\ starts'[k] = IF x.kind = "start" /\ k = l THEN starts[k] + 1 ELSE starts[k]
                           /\ ends'[k] = IF x.kind = "end" /\ k = l THEN ends[k] + 1 ELSE ends[k]
  BY <1>2 DEF Typed
<1>4. ASSUME NEW k \in Listeners PROVE Alternates(k)'
  <2>1. Alternates(k) /\ adds[k] \in Nat /\ removes[k] \in Nat /\ starts[k] \in Nat /\ ends[k] \in Nat
    BY LifeCounts DEF Lives
  <2>2. CASE x.kind = "start" /\ k = l
    <3>1. starts'[k] = starts[k] + 1 /\ ends'[k] = ends[k]
      BY <1>3, <2>2
    <3> QED
      BY <1>1, <1>2, <2>1, <2>2, <3>1 DEF Alternates
  <2>3. CASE x.kind = "end" /\ k = l
    <3>1. starts'[k] = starts[k] /\ ends'[k] = ends[k] + 1
      BY <1>3, <2>3
    <3> QED
      BY <1>1, <1>2, <2>1, <2>3, <3>1 DEF Alternates
  <2>4. CASE ~(x.kind \in {"start", "end"} /\ k = l)
    <3>1. starts'[k] = starts[k] /\ ends'[k] = ends[k]
      BY <1>3, <2>4
    <3> QED
      BY <1>2, <2>1, <3>1 DEF Alternates
  <2> QED
    BY <2>2, <2>3, <2>4
<1>5. ASSUME NEW k \in Listeners PROVE LivesIn(k, tasks', starts'[k] + ends'[k], adds'[k] + removes'[k])
  <2>1. CASE IsLife(x, k)
    <3>1. k = l /\ x.kind \in {"start", "end"}
      BY <2>1 DEF IsLife, l
    <3>2. starts'[k] + ends'[k] = starts[k] + ends[k] + 1
      BY <1>3, <3>1, LifeCounts
    <3> QED
      BY <1>1, <1>2, <3>1, <3>2
  <2>2. CASE ~IsLife(x, k)
    <3>1. starts'[k] = starts[k] /\ ends'[k] = ends[k]
      BY <1>3, <2>2 DEF IsLife, l
    <3> QED
      BY <1>1, <1>2, <2>2, <3>1
  <2> QED
    BY <2>1, <2>2
<1>6. running'.kind \in {"start", "event"} =>
        starts'[running'.on] = running'.wrapper /\ running'.wrapper <= adds'[running'.on]
  <2> SUFFICES ASSUME running'.kind \in {"start", "event"}
               PROVE  starts'[running'.on] = running'.wrapper /\ running'.wrapper <= adds'[running'.on]
    OBVIOUS
  <2>1. running' = x /\ (x.kind = "event" => Alive(l, x.wrapper))
    BY <1>2, RunningFields
  <2>2. l \in Listeners /\ x.on = l
    BY <1>1, <2>1 DEF l
  <2>3. CASE x.kind = "start"
    BY <1>1, <1>2, <1>3, <2>1, <2>2, <2>3, LifeCounts
  <2>4. CASE x.kind = "event"
    BY <1>1, <1>2, <1>3, <2>1, <2>2, <2>4, LifeCounts
  <2> QED
    BY <2>1, <2>3, <2>4
<1> QED
  BY <1>4, <1>5, <1>6 DEF Lives

(* Whatever the step. *)
LEMMA LivesStep ==
  ASSUME Typed, Lives, Next
  PROVE  Lives'
<1>1. CASE UNCHANGED dispatcherVars
  BY <1>1, LivesSame DEF dispatcherVars
<1>2. ASSUME NEW t \in Threads, Finish(t) PROVE Lives'
  <2>1. CASE FinishesStatus(t) \/ FinishesGet(t)
    BY <1>1, <2>1 DEF FinishesStatus, FinishStatus, FinishesGet
  <2>2. CASE FinishesAdd(t)
    BY <2>2, LivesAdded DEF FinishesAdd
  <2>3. CASE FinishesRemove(t)
    BY <2>3, LivesRemoved DEF FinishesRemove
  <2>4. CASE FinishesSubs(t)
    <3>1. UNCHANGED <<adds, removes, running, starts, ends>> /\ call[t].on \in Subscriptions
      BY <2>4 DEF FinishesSubs
    <3>2. CASE tasks' = tasks
      BY <3>1, <3>2, LivesSame
    <3>3. ASSUME NEW x \in Queued, x.kind \in {"add", "remove"}, tasks' = Append(tasks, x) PROVE Lives'
      BY <3>1, <3>3, LivesOneMore
    <3> DEFINE a == Task("add", call[t].on, 0, "add")
               r == Task("remove", call[t].on, 0, "remove")
    <3>4. a \in Queued /\ a.kind = "add" /\ r \in Queued /\ r.kind = "remove"
      BY <3>1, OtherTaskTypes, TaskFields
    <3>5. tasks' = tasks \/ tasks' = Append(tasks, a) \/ tasks' = Append(tasks, r)
      BY <2>4 DEF FinishesSubs, Subscribe, Unsubscribe
    <3> HIDE DEF a, r
    <3> QED
      BY <3>2, <3>3, <3>4, <3>5
  <2>5. CASE FinishesSet(t)
    <3>1. UNCHANGED <<adds, removes, running, starts, ends>> /\ call[t].on \in Options
      BY <2>5 DEF FinishesSet
    <3>2. CASE tasks' = tasks
      BY <3>1, <3>2, LivesSame
    <3>3. CASE DispatchThen(call[t].on, Forwarded(call[t].on))
      <4>1. PICK m : NewsOf(m, call[t].on) /\ tasks' = tasks \o m
        BY <3>1, <3>3, DispatchIsNews
      <4>2. \A x \in ToSet(m) :
              /\ x.kind \notin {"start", "end"}
              /\ x.kind = "event" => x.on \in Listeners /\ x.wrapper = adds[x.on]
        BY <4>1, TaskFields DEF NewsOf, EngineTask
      <4> QED
        BY <3>1, <4>1, <4>2, LivesJoined DEF NewsOf
    <3> QED
      BY <2>5, <3>2, <3>3 DEF FinishesSet, SetOption
  <2>6. CASE FinishesDispatch(t)
    <3>1. UNCHANGED <<adds, removes, running, starts, ends>> /\ call[t].on \in Statuses
      BY <2>6 DEF FinishesDispatch
    <3>2. PICK m \in Events(call[t].on) : tasks' = tasks \o m
      BY <2>6 DEF FinishesDispatch, DispatchEvent
    <3>3. Tidings(m, call[t].on)
      BY <3>1, EventsAreTidings
    <3> QED
      BY <3>1, <3>2, <3>3, LivesJoined DEF Tidings
  <2> QED
    BY <1>2, <2>1, <2>2, <2>3, <2>4, <2>5, <2>6, FinishKinds
<1>3. CASE RunReader \/ RunStatusEvent \/ RunStatus
  <2>1. AsHandled /\ running \in Queued /\ running.kind \in {"start", "event", "status"}
    BY <1>3, RunningFields DEF RunReader, RunStatusEvent, RunStatus, ToRun
  <2>2. running'.kind = running.kind /\ running'.on = running.on /\ running'.wrapper = running.wrapper
    BY <2>1, HandledIsBegun DEF AsHandled
  <2>3. UNCHANGED <<adds, removes, tasks, starts, ends>>
    BY <1>3 DEF RunReader, RunStatusEvent, RunStatus
  <2> QED
    BY <2>2, <2>3, LivesSame
<1>4. ASSUME EndTask PROVE Lives'
  BY <1>4, RunningFields, LivesSame DEF EndTask
<1>5. ASSUME NEW status \in Statuses, Report(status) PROVE Lives'
  <2>1. Task("status", status, 0, "status") \in Queued /\ Task("status", status, 0, "status").kind = "status"
    BY OtherTaskTypes, TaskFields
  <2> QED
    BY <1>5, <2>1, LivesOneMore DEF Report
<1>6. UserBegins => UNCHANGED dispatcherVars
  BY DEF UserBegins, Begin
<1>7. SessionSets("realMaxBandwidth") => UNCHANGED dispatcherVars
  BY DEF SessionSets
<1>8. \A t \in Threads : Acquire(t) => UNCHANGED dispatcherVars
  BY DEF Acquire
<1>9. RunUnwatched \/ RunEngine \/ RunManager \/ Return => EndTask
  BY DEF RunUnwatched, RunEngine, RunManager, Return
<1> QED
  BY <1>1, <1>2, <1>3, <1>4, <1>5, <1>6, <1>7, <1>8, <1>9, Steps, LivesTake DEF TakeTask
-----------------------------------------------------------------------------
(* The client's subscriptions and the manager's.                           *)

(* What tells whether the manager will have a subscription. *)
LastAdds(s, q) ==
  \E i \in 1..Len(q) : /\ Concerns(q[i], s) /\ q[i].kind = "add"
                       /\ \A j \in 1..Len(q) : Concerns(q[j], s) => j <= i
NoneFor(s, q) == \A i \in 1..Len(q) : ~Concerns(q[i], s)
Has(s, q, task, set) ==
  IF ~NoneFor(s, q) THEN LastAdds(s, q) ELSE IF Concerns(task, s) THEN task.kind = "add" ELSE s \in set

(* WillHave is that of the queue and the task in hand, before and after a   *)
(* step.                                                                    *)
LEMMA WillHaveIs ==
  ASSUME Typed, Typed', NEW s
  PROVE  /\ WillHave(s) <=> Has(s, tasks, running, managed)
         /\ WillHave(s)' <=> Has(s, tasks', running', managed')
<1>1. DOMAIN tasks = 1..Len(tasks) /\ DOMAIN tasks' = 1..Len(tasks')
  BY LenProperties DEF Typed
<1>2. (Pending(s) # {} <=> ~NoneFor(s, tasks)) /\ (Pending(s)' # {} <=> ~NoneFor(s, tasks'))
  BY <1>1 DEF Pending, NoneFor
<1>3. (\E i \in Pending(s) : tasks[i].kind = "add" /\ \A j \in Pending(s) : j <= i) <=> LastAdds(s, tasks)
  BY <1>1 DEF Pending, LastAdds
<1>4. (\E i \in Pending(s)' : tasks'[i].kind = "add" /\ \A j \in Pending(s)' : j <= i) <=> LastAdds(s, tasks')
  BY <1>1 DEF Pending, LastAdds
<1>5. WillHave(s) <=> Has(s, tasks, running, managed)
  BY <1>2, <1>3 DEF WillHave, Has
<1>6. WillHave(s)' <=> Has(s, tasks', running', managed')
  BY <1>2, <1>4 DEF WillHave, Has, Concerns
<1> QED
  BY <1>5, <1>6

(* Tasks of other subscriptions, or of none, that join the queue change     *)
(* nothing; its own last one decides.                                       *)
LEMMA SubsJoined ==
  ASSUME NEW s, NEW q \in Seq(Queued), NEW m \in Seq(Queued), \A t \in ToSet(m) : ~Concerns(t, s)
  PROVE  /\ LastAdds(s, q \o m) <=> LastAdds(s, q)
         /\ NoneFor(s, q \o m) <=> NoneFor(s, q)
<1> DEFINE r == q \o m
<1>1. /\ Len(r) = Len(q) + Len(m) /\ Len(q) \in Nat /\ Len(m) \in Nat
      /\ \A i \in 1..Len(r) : r[i] = IF i <= Len(q) THEN q[i] ELSE m[i - Len(q)]
  BY ConcatProperties, LenProperties
<1>2. \A i \in 1..Len(r) : i > Len(q) => ~Concerns(r[i], s)
  <2> SUFFICES ASSUME NEW i \in 1..Len(r), i > Len(q) PROVE ~Concerns(r[i], s)
    OBVIOUS
  <2>1. i - Len(q) \in 1..Len(m) /\ r[i] = m[i - Len(q)]
    BY <1>1
  <2> QED
    BY <2>1, InToSet
<1>3. \A i \in 1..Len(r) : Concerns(r[i], s) => i \in 1..Len(q) /\ r[i] = q[i]
  BY <1>1, <1>2
<1>4. \A i \in 1..Len(q) : i \in 1..Len(r) /\ r[i] = q[i]
  BY <1>1
<1> HIDE DEF r
<1>5. NoneFor(s, r) <=> NoneFor(s, q)
  BY <1>3, <1>4 DEF NoneFor
<1>6. ASSUME LastAdds(s, r) PROVE LastAdds(s, q)
  <2>1. PICK i \in 1..Len(r) : /\ Concerns(r[i], s) /\ r[i].kind = "add"
                               /\ \A j \in 1..Len(r) : Concerns(r[j], s) => j <= i
    BY <1>6 DEF LastAdds
  <2>2. i \in 1..Len(q) /\ r[i] = q[i]
    BY <1>3, <2>1
  <2>3. \A j \in 1..Len(q) : Concerns(q[j], s) => j <= i
    BY <1>4, <2>1
  <2> QED
    BY <2>1, <2>2, <2>3 DEF LastAdds
<1>7. ASSUME LastAdds(s, q) PROVE LastAdds(s, r)
  <2>1. PICK i \in 1..Len(q) : /\ Concerns(q[i], s) /\ q[i].kind = "add"
                               /\ \A j \in 1..Len(q) : Concerns(q[j], s) => j <= i
    BY <1>7 DEF LastAdds
  <2>2. i \in 1..Len(r) /\ r[i] = q[i]
    BY <1>4
  <2>3. \A j \in 1..Len(r) : Concerns(r[j], s) => j <= i
    BY <1>3, <2>1
  <2> QED
    BY <2>1, <2>2, <2>3 DEF LastAdds
<1> QED
  BY <1>5, <1>6, <1>7 DEF r

(* A task about the subscription that is queued last decides. *)
LEMMA SubsLast ==
  ASSUME NEW s, NEW q \in Seq(Queued), NEW x \in Queued, Concerns(x, s)
  PROVE  /\ LastAdds(s, Append(q, x)) <=> x.kind = "add"
         /\ ~NoneFor(s, Append(q, x))
<1> DEFINE r == Append(q, x)
           n == Len(q)
<1>1. n \in Nat /\ Len(r) = n + 1 /\ r[n + 1] = x
  BY AppendProperties, LenProperties
<1> HIDE DEF r, n
<1>2. n + 1 \in 1..Len(r) /\ Concerns(r[n + 1], s) /\ \A j \in 1..Len(r) : j <= n + 1
  BY <1>1
<1>3. ~NoneFor(s, r)
  BY <1>2 DEF NoneFor
<1>4. x.kind = "add" => LastAdds(s, r)
  BY <1>1, <1>2 DEF LastAdds
<1>5. ASSUME LastAdds(s, r) PROVE x.kind = "add"
  <2>1. PICK i \in 1..Len(r) : /\ r[i].kind = "add" /\ \A j \in 1..Len(r) : Concerns(r[j], s) => j <= i
    BY <1>5 DEF LastAdds
  <2>2. i = n + 1
    BY <1>1, <1>2, <2>1
  <2> QED
    BY <1>1, <2>1, <2>2
<1> QED
  BY <1>3, <1>4, <1>5 DEF r

(* The first task of the queue is taken: it decides if it is the only one.  *)
LEMMA SubsTaken ==
  ASSUME NEW s, NEW q \in Seq(Queued), q # <<>>
  PROVE  /\ NoneFor(s, q) <=> ~Concerns(Head(q), s) /\ NoneFor(s, Tail(q))
         /\ ~NoneFor(s, Tail(q)) => (LastAdds(s, q) <=> LastAdds(s, Tail(q)))
         /\ Concerns(Head(q), s) /\ NoneFor(s, Tail(q)) => (LastAdds(s, q) <=> Head(q).kind = "add")
<1> DEFINE r == Tail(q)
           n == Len(q)
           x == Head(q)
<1>1. /\ n \in Nat \ {0} /\ Len(r) = n - 1 /\ x = q[1]
      /\ \A i \in 1..n - 1 : r[i] = q[i + 1]
  BY Shifted
<1>2. \A i \in 1..Len(r) : i + 1 \in 1..n /\ r[i] = q[i + 1]
  BY <1>1
<1>3. \A i \in 1..n : i = 1 \/ (i - 1 \in 1..Len(r) /\ r[i - 1] = q[i])
  BY <1>1
<1>4. 1 \in 1..n
  BY <1>1
<1> HIDE DEF r, x
<1>5. NoneFor(s, q) <=> ~Concerns(x, s) /\ NoneFor(s, r)
  BY <1>1, <1>2, <1>3, <1>4 DEF NoneFor
<1>6. ASSUME ~NoneFor(s, r), LastAdds(s, q) PROVE LastAdds(s, r)
  <2>1. PICK i \in 1..n : /\ Concerns(q[i], s) /\ q[i].kind = "add"
                          /\ \A j \in 1..n : Concerns(q[j], s) => j <= i
    BY <1>6 DEF LastAdds
  <2>2. PICK k \in 1..Len(r) : Concerns(r[k], s)
    BY <1>6 DEF NoneFor
  <2>3. k + 1 \in 1..n /\ k + 1 <= i
    BY <1>2, <2>1, <2>2
  <2>4. i - 1 \in 1..Len(r) /\ r[i - 1] = q[i]
    BY <1>1, <1>3, <2>2, <2>3
  <2>5. \A j \in 1..Len(r) : Concerns(r[j], s) => j <= i - 1
    <3> SUFFICES ASSUME NEW j \in 1..Len(r), Concerns(r[j], s) PROVE j <= i - 1
      OBVIOUS
    <3>1. j + 1 \in 1..n /\ j + 1 <= i
      BY <1>2, <2>1
    <3> QED
      BY <1>1, <3>1
  <2> QED
    BY <2>1, <2>4, <2>5 DEF LastAdds
<1>7. ASSUME LastAdds(s, r) PROVE LastAdds(s, q)
  <2>1. PICK i \in 1..Len(r) : /\ Concerns(r[i], s) /\ r[i].kind = "add"
                               /\ \A j \in 1..Len(r) : Concerns(r[j], s) => j <= i
    BY <1>7 DEF LastAdds
  <2>2. i + 1 \in 1..n /\ r[i] = q[i + 1]
    BY <1>2
  <2>3. \A j \in 1..n : Concerns(q[j], s) => j <= i + 1
    <3> SUFFICES ASSUME NEW j \in 1..n, Concerns(q[j], s), j # 1 PROVE j <= i + 1
      BY <1>1, <2>1
    <3>1. j - 1 <= i
      BY <1>3, <2>1
    <3> QED
      BY <1>1, <3>1
  <2> QED
    BY <2>1, <2>2, <2>3 DEF LastAdds
<1>8. ASSUME Concerns(x, s), NoneFor(s, r) PROVE LastAdds(s, q) <=> x.kind = "add"
  <2>1. \A j \in 1..n : Concerns(q[j], s) => j = 1
    BY <1>3, <1>8 DEF NoneFor
  <2> QED
    BY <1>1, <1>4, <1>8, <2>1 DEF LastAdds
<1> QED
  BY <1>5, <1>6, <1>7, <1>8 DEF r, x

(* What the manager will have stays as it is. *)
LEMMA SubsSame ==
  ASSUME Typed, Typed', SubscriptionsAgree, UNCHANGED <<tasks, subscriptionArray, managed>>,
         \A s \in Subscriptions : Concerns(running', s) <=> Concerns(running, s),
         running'.kind = running.kind \/ running'.kind \notin {"add", "remove"}
  PROVE  SubscriptionsAgree'
<1> SUFFICES ASSUME NEW s \in Subscriptions PROVE WillHave(s)' <=> s \in subscriptionArray'
  BY DEF SubscriptionsAgree
<1>1. WillHave(s) <=> s \in subscriptionArray
  BY DEF SubscriptionsAgree
<1>2. Has(s, tasks, running, managed) <=> Has(s, tasks', running', managed')
  <2>1. CASE Concerns(running, s)
    <3>1. Concerns(running', s) /\ running'.kind = running.kind
      BY <2>1 DEF Concerns
    <3> QED
      BY <2>1, <3>1 DEF Has
  <2>2. CASE ~Concerns(running, s)
    BY <2>2 DEF Has
  <2> QED
    BY <2>1, <2>2
<1> QED
  BY <1>1, <1>2, WillHaveIs

(* So it does when tasks of others join the queue. *)
LEMMA SubsUnconcerned ==
  ASSUME Typed, Typed', SubscriptionsAgree, NEW m \in Seq(Queued), tasks' = tasks \o m,
         UNCHANGED <<running, subscriptionArray, managed>>,
         \A t \in ToSet(m) : t.kind \notin {"add", "remove"}
  PROVE  SubscriptionsAgree'
<1> SUFFICES ASSUME NEW s \in Subscriptions PROVE WillHave(s)' <=> s \in subscriptionArray'
  BY DEF SubscriptionsAgree
<1>1. WillHave(s) <=> s \in subscriptionArray
  BY DEF SubscriptionsAgree
<1>2. \A t \in ToSet(m) : ~Concerns(t, s)
  BY DEF Concerns
<1>3. (LastAdds(s, tasks') <=> LastAdds(s, tasks)) /\ (NoneFor(s, tasks') <=> NoneFor(s, tasks))
  BY <1>2, SubsJoined DEF Typed
<1>4. Has(s, tasks, running, managed) <=> Has(s, tasks', running', managed')
  BY <1>3 DEF Has
<1> QED
  BY <1>1, <1>4, WillHaveIs

(* So when one task is queued that is not about subscriptions. *)
LEMMA SubsUnconcernedOne ==
  ASSUME Typed, Typed', SubscriptionsAgree, NEW x \in Queued, tasks' = Append(tasks, x),
         UNCHANGED <<running, subscriptionArray, managed>>, x.kind \notin {"add", "remove"}
  PROVE  SubscriptionsAgree'
<1>1. tasks' = tasks \o <<x>> /\ <<x>> \in Seq(Queued) /\ ToSet(<<x>>) = {x}
  BY Appended DEF Typed
<1> QED
  BY <1>1, SubsUnconcerned

(* A subscription is listed, or no longer, with a task to say so. *)
LEMMA SubsChanged ==
  ASSUME Typed, Typed', SubscriptionsAgree, NEW sub \in Subscriptions, NEW x \in Queued, Concerns(x, sub),
         tasks' = Append(tasks, x), UNCHANGED <<running, managed>>,
         subscriptionArray' = IF x.kind = "add" THEN subscriptionArray \cup {sub} ELSE subscriptionArray \ {sub}
  PROVE  SubscriptionsAgree'
<1> SUFFICES ASSUME NEW s \in Subscriptions PROVE WillHave(s)' <=> s \in subscriptionArray'
  BY DEF SubscriptionsAgree
<1>0. tasks \in Seq(Queued) /\ tasks' = tasks \o <<x>> /\ <<x>> \in Seq(Queued) /\ ToSet(<<x>>) = {x}
  BY Appended DEF Typed
<1>1. CASE s = sub
  <2>1. (LastAdds(s, tasks') <=> x.kind = "add") /\ ~NoneFor(s, tasks')
    BY <1>0, <1>1, SubsLast
  <2>2. Has(s, tasks', running', managed') <=> x.kind = "add"
    BY <2>1 DEF Has
  <2> QED
    BY <1>1, <2>2, WillHaveIs
<1>2. CASE s # sub
  <2>0. PICK m \in Seq(Queued) : tasks' = tasks \o m /\ ToSet(m) = {x}
    BY <1>0
  <2>1. \A t \in ToSet(m) : ~Concerns(t, s)
    BY <1>2, <2>0 DEF Concerns
  <2>2. (LastAdds(s, tasks') <=> LastAdds(s, tasks)) /\ (NoneFor(s, tasks') <=> NoneFor(s, tasks))
    BY <1>0, <2>0, <2>1, SubsJoined
  <2>3. Has(s, tasks, running, managed) <=> Has(s, tasks', running', managed')
    BY <2>2 DEF Has
  <2>4. WillHave(s) <=> s \in subscriptionArray
    BY DEF SubscriptionsAgree
  <2> QED
    BY <1>2, <2>3, <2>4, WillHaveIs
<1> QED
  BY <1>1, <1>2

(* The events thread takes a task. *)
LEMMA SubsTake ==
  ASSUME Typed, Typed', SubscriptionsAgree, TakeTask
  PROVE  SubscriptionsAgree'
<1> SUFFICES ASSUME NEW s \in Subscriptions PROVE WillHave(s)' <=> s \in subscriptionArray'
  BY DEF SubscriptionsAgree
<1> DEFINE x == Head(tasks)
<1>1. WillHave(s) <=> s \in subscriptionArray
  BY DEF SubscriptionsAgree
<1>2. tasks # <<>> /\ tasks' = Tail(tasks) /\ running = Idle /\ UNCHANGED <<subscriptionArray, managed>>
  BY DEF TakeTask, Take, ofSubs
<1>3. running' = x \/ (running' = Idle /\ x.kind = "event")
  BY DEF TakeTask, Take
<1>4. ~Concerns(Idle, s)
  BY RunningFields DEF Concerns
<1>5. /\ NoneFor(s, tasks) <=> ~Concerns(x, s) /\ NoneFor(s, tasks')
      /\ ~NoneFor(s, tasks') => (LastAdds(s, tasks) <=> LastAdds(s, tasks'))
      /\ Concerns(x, s) /\ NoneFor(s, tasks') => (LastAdds(s, tasks) <=> x.kind = "add")
  BY <1>2, SubsTaken DEF Typed
<1> HIDE DEF x
<1>6. Concerns(running', s) <=> Concerns(x, s)
  BY <1>3, <1>4 DEF Concerns
<1>7. Concerns(x, s) => running' = x
  BY <1>3 DEF Concerns
<1>8. Has(s, tasks, running, managed) <=> Has(s, tasks', running', managed')
  <2>1. CASE ~NoneFor(s, tasks')
    BY <1>5, <2>1 DEF Has
  <2>2. CASE NoneFor(s, tasks') /\ Concerns(x, s)
    BY <1>5, <1>6, <1>7, <2>2 DEF Has
  <2>3. CASE NoneFor(s, tasks') /\ ~Concerns(x, s)
    BY <1>2, <1>4, <1>5, <1>6, <2>3 DEF Has
  <2> QED
    BY <2>1, <2>2, <2>3
<1> QED
  BY <1>1, <1>2, <1>8, WillHaveIs

(* The manager does as the task says. *)
LEMMA SubsManaged ==
  ASSUME Typed, Typed', SubscriptionsAgree, RunManager
  PROVE  SubscriptionsAgree'
<1> SUFFICES ASSUME NEW s \in Subscriptions PROVE WillHave(s)' <=> s \in subscriptionArray'
  BY DEF SubscriptionsAgree
<1>1. WillHave(s) <=> s \in subscriptionArray
  BY DEF SubscriptionsAgree
<1>2. /\ running.kind \in {"add", "remove"} /\ running' = Idle /\ UNCHANGED <<tasks, subscriptionArray>>
      /\ managed' = IF running.kind = "add" THEN managed \cup {running.on} ELSE managed \ {running.on}
  BY DEF RunManager, ToRun, EndTask
<1>3. ~Concerns(Idle, s)
  BY RunningFields DEF Concerns
<1>4. Concerns(running, s) <=> running.on = s
  BY <1>2 DEF Concerns
<1>5. Has(s, tasks, running, managed) <=> Has(s, tasks', running', managed')
  BY <1>2, <1>3, <1>4 DEF Has
<1> QED
  BY <1>1, <1>2, <1>5, WillHaveIs

(* Whatever the step. *)
LEMMA SubsStep ==
  ASSUME Typed, Typed', SubscriptionsAgree, Next
  PROVE  SubscriptionsAgree'
<1>1. CASE UNCHANGED <<tasks, running, subscriptionArray, managed>>
  BY <1>1, SubsSame
<1>2. ASSUME NEW t \in Threads, Finish(t) PROVE SubscriptionsAgree'
  <2>1. CASE FinishesStatus(t) \/ FinishesGet(t)
    BY <1>1, <2>1 DEF FinishesStatus, FinishStatus, FinishesGet, dispatcherVars, ofSubs
  <2>2. CASE FinishesAdd(t)
    <3> DEFINE x == Task("start", call[t].on, adds[call[t].on] + 1, "start")
    <3>1. UNCHANGED <<running, subscriptionArray, managed>> /\ (tasks' = tasks \/ tasks' = Append(tasks, x))
      BY <2>2 DEF FinishesAdd, AddListener, dispatcherVars, ofSubs
    <3>2. x \in Queued /\ x.kind = "start"
      <4>1. adds[call[t].on] + 1 \in Serial
        <5>1. call[t].on \in Listeners /\ adds \in [Listeners -> Nat]
          BY <2>2 DEF FinishesAdd, Typed
        <5> QED
          BY <5>1 DEF Serial
      <4> QED
        BY <2>2, <4>1, TaskTypes, TaskFields DEF FinishesAdd
    <3> HIDE DEF x
    <3> QED
      BY <1>1, <3>1, <3>2, SubsUnconcernedOne
  <2>3. CASE FinishesRemove(t)
    <3> DEFINE x == Task("end", call[t].on, adds[call[t].on], "end")
    <3>1. /\ UNCHANGED <<running, subscriptionArray, managed>>
          /\ tasks' = tasks \/ (tasks' = Append(tasks, x) /\ InMap(call[t].on))
      BY <2>3 DEF FinishesRemove, RemoveListener, dispatcherVars, ofSubs
    <3>2. CASE tasks' = Append(tasks, x) /\ InMap(call[t].on)
      <4>1. x \in Queued /\ x.kind = "end"
        BY <2>3, <3>2, MapSerials, TaskTypes, TaskFields DEF FinishesRemove
      <4> HIDE DEF x
      <4> QED
        BY <3>1, <3>2, <4>1, SubsUnconcernedOne
    <3> QED
      BY <1>1, <3>1, <3>2
  <2>4. CASE FinishesSubs(t)
    <3> DEFINE s == call[t].on
               a == Task("add", s, 0, "add")
               r == Task("remove", s, 0, "remove")
    <3>1. s \in Subscriptions /\ running' = running
      BY <2>4 DEF FinishesSubs
    <3>2. a \in Queued /\ a.kind = "add" /\ Concerns(a, s) /\ r \in Queued /\ r.kind = "remove" /\ Concerns(r, s)
      BY <3>1, OtherTaskTypes, TaskFields DEF Concerns
    <3>3. CASE subscriptionArray' = subscriptionArray \cup {s} /\ tasks' = Append(tasks, a) /\ UNCHANGED managed
      <4> HIDE DEF a, s
      <4> QED
        BY <3>1, <3>2, <3>3, SubsChanged
    <3>4. CASE subscriptionArray' = subscriptionArray \ {s} /\ tasks' = Append(tasks, r) /\ UNCHANGED managed
      <4> HIDE DEF r, s
      <4> QED
        BY <3>1, <3>2, <3>4, SubsChanged
    <3>5. CASE UNCHANGED <<ofSubs, tasks>>
      BY <1>1, <3>1, <3>5 DEF ofSubs
    <3> QED
      BY <2>4, <3>3, <3>4, <3>5 DEF FinishesSubs, Subscribe, Unsubscribe
  <2>5. CASE FinishesSet(t)
    <3>1. UNCHANGED <<running, subscriptionArray, managed>> /\ call[t].on \in Options
      BY <2>5 DEF FinishesSet, ofSubs
    <3>2. CASE tasks' = tasks
      BY <1>1, <3>1, <3>2
    <3>3. CASE DispatchThen(call[t].on, Forwarded(call[t].on))
      <4>1. PICK m : NewsOf(m, call[t].on) /\ tasks' = tasks \o m
        BY <3>1, <3>3, DispatchIsNews
      <4>2. m \in Seq(Queued) /\ \A x \in ToSet(m) : x.kind \notin {"add", "remove"}
        BY <4>1, TaskFields DEF NewsOf, EngineTask
      <4> QED
        BY <3>1, <4>1, <4>2, SubsUnconcerned
    <3> QED
      BY <2>5, <3>2, <3>3 DEF FinishesSet, SetOption
  <2>6. CASE FinishesDispatch(t)
    <3>1. UNCHANGED <<running, subscriptionArray, managed>> /\ call[t].on \in Statuses
      BY <2>6 DEF FinishesDispatch, ofSubs
    <3>2. PICK m \in Events(call[t].on) : tasks' = tasks \o m
      BY <2>6 DEF FinishesDispatch, DispatchEvent
    <3>3. Tidings(m, call[t].on)
      BY <3>1, EventsAreTidings
    <3> QED
      BY <3>1, <3>2, <3>3, SubsUnconcerned DEF Tidings
  <2> QED
    BY <1>2, <2>1, <2>2, <2>3, <2>4, <2>5, <2>6, FinishKinds
<1>3. CASE RunReader \/ RunStatusEvent \/ RunStatus
  <2>1. AsHandled /\ running \in Queued /\ running.kind \in {"start", "event", "status"}
    BY <1>3, RunningFields DEF RunReader, RunStatusEvent, RunStatus, ToRun
  <2>2. running'.kind = running.kind /\ running'.on = running.on
    BY <2>1, HandledIsBegun DEF AsHandled
  <2>3. UNCHANGED <<tasks, subscriptionArray, managed>>
    BY <1>3 DEF RunReader, RunStatusEvent, RunStatus, ofSubs
  <2> QED
    BY <2>2, <2>3, SubsSame DEF Concerns
<1>4. CASE RunUnwatched \/ RunEngine \/ Return
  <2>1. running.kind \notin {"add", "remove"}
    BY <1>4, RunningFields DEF RunUnwatched, RunEngine, Return, ToRun, IsQueued, IsBegun
  <2>2. running' = Idle /\ UNCHANGED <<tasks, subscriptionArray, managed>>
    BY <1>4 DEF RunUnwatched, RunEngine, Return, EndTask, ofSubs
  <2> QED
    BY <2>1, <2>2, RunningFields, SubsSame DEF Concerns
<1>5. ASSUME NEW status \in Statuses, Report(status) PROVE SubscriptionsAgree'
  <2>1. Task("status", status, 0, "status") \in Queued /\ Task("status", status, 0, "status").kind = "status"
    BY OtherTaskTypes, TaskFields
  <2> QED
    BY <1>5, <2>1, SubsUnconcernedOne DEF Report, ofSubs
<1>6. UserBegins => UNCHANGED <<tasks, running, subscriptionArray, managed>>
  BY DEF UserBegins, Begin, dispatcherVars, ofSubs
<1>7. SessionSets("realMaxBandwidth") => UNCHANGED <<tasks, running, subscriptionArray, managed>>
  BY DEF SessionSets, dispatcherVars, ofSubs
<1>8. \A t \in Threads : Acquire(t) => UNCHANGED <<tasks, running, subscriptionArray, managed>>
  BY DEF Acquire, dispatcherVars, ofSubs
<1> QED
  BY <1>1, <1>2, <1>3, <1>4, <1>5, <1>6, <1>7, <1>8, Steps, SubsTake, SubsManaged
-----------------------------------------------------------------------------
(* Listeners in the map know the option, or will.                          *)

(* The call of the events thread goes on, or is not one that reads. *)
SameCall == call'[Worker].op = call[Worker].op /\ call'[Worker].on = call[Worker].on
NoReadLost == SameCall \/ call[Worker].op # "getOption"

(* More in the queue does no harm. *)
LEMMA InformedJoined ==
  ASSUME Informed, ToSet(tasks) \subseteq ToSet(tasks'),
         UNCHANGED <<running, watched, option, engineKnows, told>>,
         \A l \in Listeners : InMap(l)' => InMap(l) /\ adds'[l] = adds[l],
         NoReadLost
  PROVE  Informed'
<1>1. ASSUME NEW l \in Listeners, InMap(l)' PROVE told'[l] = option' \/ WillRead(l)'
  <2>1. InMap(l) /\ adds'[l] = adds[l]
    BY <1>1
  <2>2. told[l] = option \/ WillRead(l)
    BY <2>1 DEF Informed
  <2>3. \A t : Reads(t, l) => Reads(t, l)'
    BY <2>1 DEF Reads
  <2>4. Reads(running, l) => Reads(running, l)'
    BY <2>1 DEF Reads
  <2>5. (\E t \in ToSet(tasks) : Reads(t, l)) => \E t \in ToSet(tasks') : Reads(t, l)'
    BY <2>3
  <2>6. call[Worker].op = "getOption" /\ call[Worker].on = l => call'[Worker].op = "getOption" /\ call'[Worker].on = l
    BY DEF SameCall, NoReadLost
  <2> QED
    BY <2>2, <2>4, <2>5, <2>6 DEF WillRead
<1>2. watched' = "forcedTransport" =>
        engineKnows' = option' \/ running'.kind = "engine" \/ \E t \in ToSet(tasks') : t.kind = "engine"
  BY DEF Informed
<1> QED
  BY <1>1, <1>2 DEF Informed

(* Nor does a task that is at its end, if it was not to read the option. *)
LEMMA InformedRan ==
  ASSUME Informed, UNCHANGED <<adds, removes, tasks, watched, option, told>>, NoReadLost,
         \A l \in Listeners : Reads(running, l) => WillRead(l)',
         \/ engineKnows' = engineKnows /\ (running.kind = "engine" => running'.kind = "engine")
         \/ (watched = "forcedTransport" => engineKnows' = option)
  PROVE  Informed'
<1>1. ASSUME NEW l \in Listeners, InMap(l)' PROVE told'[l] = option' \/ WillRead(l)'
  <2>1. InMap(l)
    BY <1>1 DEF InMap, Alive
  <2>2. told[l] = option \/ WillRead(l)
    BY <2>1 DEF Informed
  <2>3. (\E t \in ToSet(tasks) : Reads(t, l)) => \E t \in ToSet(tasks') : Reads(t, l)'
    BY DEF Reads
  <2>4. call[Worker].op = "getOption" /\ call[Worker].on = l => call'[Worker].op = "getOption" /\ call'[Worker].on = l
    BY DEF SameCall, NoReadLost
  <2> QED
    BY <2>2, <2>3, <2>4 DEF WillRead
<1>2. watched' = "forcedTransport" =>
        engineKnows' = option' \/ running'.kind = "engine" \/ \E t \in ToSet(tasks') : t.kind = "engine"
  BY DEF Informed
<1> QED
  BY <1>1, <1>2 DEF Informed

(* What is in the queue still is when more joins it. *)
LEMMA StillQueued ==
  ASSUME Typed
  PROVE  /\ \A x \in Queued : ToSet(Append(tasks, x)) = ToSet(tasks) \cup {x}
         /\ \A m \in Seq(Queued) : ToSet(tasks \o m) = ToSet(tasks) \cup ToSet(m)
<1>1. tasks \in Seq(Queued)
  BY DEF Typed
<1>2. \A m \in Seq(Queued) : ToSet(tasks \o m) = ToSet(tasks) \cup ToSet(m)
  BY <1>1, Joined
<1>3. \A x \in Queued : Append(tasks, x) = tasks \o <<x>> /\ <<x>> \in Seq(Queued) /\ ToSet(<<x>>) = {x}
  BY <1>1, Appended
<1> QED
  BY <1>2, <1>3

(* A listener that is added will read the option when it starts. *)
LEMMA InformedAdd ==
  ASSUME Typed, Informed, NEW l \in Listeners, AddListener(l), NoReadLost,
         UNCHANGED <<watched, option, engineKnows, told>>
  PROVE  Informed'
<1>0. PICK x : x = Task("start", l, adds[l] + 1, "start")
  OBVIOUS
<1>1. CASE UNCHANGED dispatcherVars
  BY <1>1, InformedJoined DEF dispatcherVars, InMap, Alive
<1>2. CASE /\ ~InMap(l) /\ adds' = [adds EXCEPT ![l] = @ + 1] /\ tasks' = Append(tasks, x)
           /\ UNCHANGED <<removes, running, starts, ends>>
  <2>1. adds[l] + 1 \in Serial /\ adds'[l] = adds[l] + 1 /\ \A k \in Listeners : k # l => adds'[k] = adds[k]
    BY <1>2 DEF Typed, Serial
  <2>2. x \in Queued /\ x.kind = "start" /\ x.on = l /\ x.wrapper = adds[l] + 1 /\ x.what = "start"
    BY <1>0, <2>1, TaskTypes, TaskFields
  <2>3. ToSet(tasks') = ToSet(tasks) \cup {x}
    BY <1>2, <2>2, StillQueued
  <2>4. Reads(x, l)'
    BY <2>1, <2>2 DEF Reads, IsFor
  <2>5. ASSUME NEW k \in Listeners, InMap(k)' PROVE told'[k] = option' \/ WillRead(k)'
    <3>1. CASE k = l
      BY <2>3, <2>4, <3>1 DEF WillRead
    <3>2. CASE k # l
      <4>1. InMap(k) /\ adds'[k] = adds[k]
        BY <1>2, <2>1, <2>5, <3>2 DEF InMap, Alive
      <4>2. told[k] = option \/ WillRead(k)
        BY <4>1 DEF Informed
      <4>3. (\E t \in ToSet(tasks) : Reads(t, k)) => \E t \in ToSet(tasks') : Reads(t, k)'
        BY <2>3, <4>1 DEF Reads
      <4>4. Reads(running, k) => Reads(running, k)'
        BY <1>2, <4>1 DEF Reads
      <4>5. call[Worker].op = "getOption" /\ call[Worker].on = k => call'[Worker].op = "getOption" /\ call'[Worker].on = k
        BY DEF SameCall, NoReadLost
      <4> QED
        BY <4>2, <4>3, <4>4, <4>5 DEF WillRead
    <3> QED
      BY <3>1, <3>2
  <2>6. watched' = "forcedTransport" =>
          engineKnows' = option' \/ running'.kind = "engine" \/ \E t \in ToSet(tasks') : t.kind = "engine"
    BY <1>2, <2>3 DEF Informed
  <2> QED
    BY <2>5, <2>6 DEF Informed
<1> QED
  BY <1>0, <1>1, <1>2 DEF AddListener

(* Each listener in the map is sent an event of a change of the option it   *)
(* watches, and the engine a task.                                          *)
LEMMA InformedSet ==
  ASSUME Typed, Informed, NEW o \in Options, SetOption(o), NoReadLost, UNCHANGED <<adds, removes, running>>
  PROVE  Informed'
<1>1. CASE UNCHANGED <<tasks, ofOption>>
  BY <1>1, InformedJoined DEF ofOption, InMap, Alive
<1>2. CASE /\ option' = IF o = watched THEN option + 1 ELSE option
           /\ DispatchThen(o, Forwarded(o))
           /\ UNCHANGED <<watched, engineKnows, told>>
  <2>1. PICK m : NewsOf(m, o) /\ tasks' = tasks \o m
    BY <1>2, DispatchIsNews
  <2>2. ToSet(tasks') = ToSet(tasks) \cup ToSet(m)
    BY <2>1, StillQueued DEF NewsOf
  <2>3. CASE o # watched
    BY <1>2, <2>2, <2>3, InformedJoined DEF InMap, Alive
  <2>4. CASE o = watched
    <3>1. ASSUME NEW l \in Listeners, InMap(l)' PROVE WillRead(l)'
      <4>1. InMap(l)
        BY <3>1 DEF InMap, Alive
      <4>2. Task("event", l, adds[l], o) \in ToSet(tasks')
        BY <2>1, <2>2, <4>1 DEF NewsOf
      <4>3. Reads(Task("event", l, adds[l], o), l)'
        BY <1>2, <2>4, TaskFields DEF Reads, IsFor
      <4> QED
        BY <4>2, <4>3 DEF WillRead
    <3>2. watched' = "forcedTransport" => \E t \in ToSet(tasks') : t.kind = "engine"
      BY <1>2, <2>1, <2>2, <2>4, TaskFields DEF NewsOf, EngineTask
    <3> QED
      BY <3>1, <3>2 DEF Informed
  <2> QED
    BY <2>3, <2>4
<1> QED
  BY <1>1, <1>2 DEF SetOption

(* A listener that reads the option knows it. *)
LEMMA InformedGet ==
  ASSUME Typed, Informed, FinishesGet(Worker)
  PROVE  Informed'
<1> DEFINE l == call[Worker].on
<1>1. /\ told' = [told EXCEPT ![l] = option] /\ l \in Listeners
      /\ UNCHANGED <<adds, removes, tasks, running, watched, option, engineKnows>>
  BY DEF FinishesGet, GetOption, dispatcherVars
<1>2. ASSUME NEW k \in Listeners, InMap(k)' PROVE told'[k] = option' \/ WillRead(k)'
  <2>1. CASE k = l
    BY <1>1, <2>1 DEF Typed
  <2>2. CASE k # l
    <3>1. told[k] = option \/ WillRead(k)
      BY <1>1, <1>2 DEF Informed, InMap, Alive
    <3>2. told'[k] = told[k]
      BY <1>1, <2>2 DEF Typed
    <3>3. Reads(running, k) => Reads(running, k)'
      BY <1>1 DEF Reads
    <3>4. (\E t \in ToSet(tasks) : Reads(t, k)) => \E t \in ToSet(tasks') : Reads(t, k)'
      BY <1>1 DEF Reads
    <3> QED
      BY <1>1, <2>2, <3>1, <3>2, <3>3, <3>4 DEF WillRead
  <2> QED
    BY <2>1, <2>2
<1>3. watched' = "forcedTransport" =>
        engineKnows' = option' \/ running'.kind = "engine" \/ \E t \in ToSet(tasks') : t.kind = "engine"
  BY <1>1 DEF Informed
<1> QED
  BY <1>2, <1>3 DEF Informed

(* The events thread takes the task that is to read it, and drops none. *)
LEMMA InformedTake ==
  ASSUME Typed, Informed, TakeTask
  PROVE  Informed'
<1>0. PICK x : x = Head(tasks)
  OBVIOUS
<1>1. /\ ToSet(tasks) = {x} \cup ToSet(tasks') /\ running = Idle
      /\ UNCHANGED <<adds, removes, call, watched, option, engineKnows, told>>
      /\ running' = IF x.kind = "event" /\ ~Alive(x.on, x.wrapper) THEN Idle ELSE x
  BY <1>0, Shifted DEF TakeTask, Take, Typed, ofCalls, ofOption
<1>2. ASSUME NEW l \in Listeners, InMap(l)' PROVE told'[l] = option' \/ WillRead(l)'
  <2>1. InMap(l) /\ (told[l] = option \/ WillRead(l))
    BY <1>1, <1>2 DEF Informed, InMap, Alive
  <2>2. ~Reads(running, l)
    BY <1>1, RunningFields DEF Reads, IsFor
  <2>3. Reads(x, l) => Reads(running, l)'
    <3>1. Reads(x, l) => running' = x
      BY <1>1, <2>1 DEF Reads, IsFor, InMap, Alive
    <3> QED
      BY <1>1, <3>1 DEF Reads
  <2>4. (\E t \in ToSet(tasks') : Reads(t, l)) => \E t \in ToSet(tasks') : Reads(t, l)'
    BY <1>1 DEF Reads
  <2>5. (\E t \in ToSet(tasks) : Reads(t, l)) => Reads(x, l) \/ \E t \in ToSet(tasks') : Reads(t, l)
    BY <1>1
  <2> QED
    BY <1>1, <2>1, <2>2, <2>3, <2>4, <2>5 DEF WillRead
<1>3. watched' = "forcedTransport" =>
        engineKnows' = option' \/ running'.kind = "engine" \/ \E t \in ToSet(tasks') : t.kind = "engine"
  <2>1. x.kind = "engine" => running'.kind = "engine"
    BY <1>1
  <2> QED
    BY <1>1, <2>1, RunningFields DEF Informed
<1> QED
  BY <1>2, <1>3 DEF Informed

(* The call that the events thread is in goes on, or is replaced by its own *)
(* doing.                                                                   *)
LEMMA CallsOfOthers ==
  ASSUME Typed, NEW t \in Threads, t # Worker, NEW c \in CallsOf(t), call' = [call EXCEPT ![t] = c]
  PROVE  SameCall
<1>1. call'[Worker] = call[Worker]
  BY CallChanges, ThreadsDiffer
<1> QED
  BY <1>1 DEF SameCall

(* A call that returns is that thread's alone. *)
LEMMA DoneByOthers ==
  ASSUME Typed, NEW t \in Threads, Done(t)
  PROVE  SameCall \/ t = Worker
  BY CallsOfOthers, NoCallType DEF Done

(* A call of a user is no call of the events thread. *)
LEMMA BeginByOthers ==
  ASSUME Typed, UserBegins
  PROVE  SameCall
<1>0. PICK u \in Users : \E op, on :
        /\ \/ op \in {"addListener", "removeListener"} /\ on \in Listeners
           \/ op \in {"subscribe", "unsubscribe"} /\ on \in Subscriptions
           \/ op = "setOption" /\ on = "forcedTransport"
           \/ op \in {"setRequestedMaxBandwidth", "sendMessage"} /\ on = "nothing"
        /\ Begin(u, op, on)
  BY DEF UserBegins
<1>1. PICK op, on :
        /\ \/ op \in {"addListener", "removeListener"} /\ on \in Listeners
           \/ op \in {"subscribe", "unsubscribe"} /\ on \in Subscriptions
           \/ op = "setOption" /\ on = "forcedTransport"
           \/ op \in {"setRequestedMaxBandwidth", "sendMessage"} /\ on = "nothing"
        /\ Begin(u, op, on)
  BY <1>0
<1>2. [Call(op, on) EXCEPT !.held = 1] \in CallsOf(u)
  BY <1>1, BegunCall
<1>3. call' = [call EXCEPT ![u] = [Call(op, on) EXCEPT !.held = 1]]
  BY <1>1 DEF Begin
<1> QED
  BY <1>2, <1>3, CallsOfOthers, ThreadsDiffer

(* What a task that ends, or begins its call, was about. *)
LEMMA EndingTasks ==
  ASSUME Typed, Calling
  PROVE  /\ RunUnwatched => /\ running.kind = "event" /\ running.what \in Options /\ running.what # watched
                            /\ call[Worker].op = "none" /\ running' = Idle
         /\ RunEngine => running.kind = "engine" /\ running.on = "forcedTransport" /\ call[Worker].op = "none" /\ running' = Idle
         /\ RunManager => running.kind \in {"add", "remove"} /\ call[Worker].op = "none" /\ running' = Idle
         /\ Return => /\ running.kind \in {"start", "event", "end", "status"} /\ running.what \in {Handled, "end"}
                      /\ call[Worker].op = "none" /\ running' = Idle
<1>1. RunUnwatched => /\ running.kind = "event" /\ running.what \in Options /\ running.what # watched
                      /\ call[Worker].op = "none" /\ running' = Idle
  BY NotCalling DEF RunUnwatched, ToRun, EndTask
<1>2. RunEngine => running.kind = "engine" /\ running.on = "forcedTransport" /\ call[Worker].op = "none" /\ running' = Idle
  BY NotCalling, RunningFields DEF RunEngine, ToRun, EndTask, IsQueued
<1>3. RunManager => running.kind \in {"add", "remove"} /\ call[Worker].op = "none" /\ running' = Idle
  BY NotCalling DEF RunManager, ToRun, EndTask
<1>4. Return => /\ running.kind \in {"start", "event", "end", "status"} /\ running.what \in {Handled, "end"}
                /\ call[Worker].op = "none" /\ running' = Idle
  BY NoCallFields, RunningFields DEF Return, EndTask, IsQueued, IsBegun
<1> QED
  BY <1>1, <1>2, <1>3, <1>4

(* The tasks that begin a call: the thread was in none, and the task stays  *)
(* in hand.                                                                 *)
LEMMA HandledTasks ==
  ASSUME Typed, Calling
  PROVE  /\ RunReader => /\ running.kind \in {"start", "event"} /\ running.what \in {"start", watched} /\ running.on \in Listeners
                         /\ call'[Worker].op = "getOption" /\ call'[Worker].on = running.on
         /\ RunStatusEvent => /\ running.kind = "event" /\ running.what \in Statuses /\ running.on \in Listeners
                              /\ call'[Worker].op \in {"removeListener", "none"}
         /\ RunStatus => running.kind = "status" /\ call'[Worker].op = "setStatus"
         /\ RunReader \/ RunStatusEvent \/ RunStatus =>
              /\ call[Worker].op = "none" /\ IsQueued(running)
              /\ running'.kind = running.kind /\ running'.on = running.on /\ running'.wrapper = running.wrapper
              /\ running'.what = Handled
<1>0. Worker \in Threads /\ call \in [Threads -> UserCalls \cup WorkerCalls \cup SessionCalls]
  BY ThreadsDiffer DEF Typed
<1>1. ASSUME RunReader \/ RunStatusEvent \/ RunStatus
      PROVE  /\ call[Worker].op = "none" /\ IsQueued(running)
             /\ running'.kind = running.kind /\ running'.on = running.on /\ running'.wrapper = running.wrapper
             /\ running'.what = Handled
  <2>1. AsHandled /\ running \in Queued /\ running.kind \in {"start", "event", "status"} /\ running.what # Handled
    BY <1>1, RunningFields DEF RunReader, RunStatusEvent, RunStatus, ToRun
  <2> QED
    BY <2>1, HandledIsBegun, NotCalling, QueuedFields DEF AsHandled
<1>2. ASSUME RunReader
      PROVE  /\ running.kind \in {"start", "event"} /\ running.what \in {"start", watched} /\ running.on \in Listeners
             /\ call'[Worker].op = "getOption" /\ call'[Worker].on = running.on
  <2>1. running.kind \in {"start", "event"} /\ running.what \in {"start", watched} /\ running.on \in Listeners
    BY <1>1, <1>2 DEF RunReader, ToRun, IsQueued
  <2>2. call'[Worker] = Call("getOption", running.on)
    BY <1>0, <1>2 DEF RunReader
  <2> QED
    BY <2>1, <2>2, FieldsOfCall
<1>3. ASSUME RunStatusEvent
      PROVE  /\ running.kind = "event" /\ running.what \in Statuses /\ running.on \in Listeners
             /\ call'[Worker].op \in {"removeListener", "none"}
  <2>1. running.kind = "event" /\ running.what \in Statuses /\ running.on \in Listeners
    BY <1>1, <1>3 DEF RunStatusEvent, ToRun, IsQueued
  <2>2. call'[Worker] = Call("removeListener", running.on) \/ call' = call
    BY <1>0, <1>3 DEF RunStatusEvent
  <2> QED
    BY <1>1, <1>3, <2>1, <2>2, FieldsOfCall
<1>4. ASSUME RunStatus PROVE running.kind = "status" /\ call'[Worker].op = "setStatus"
  <2>1. call'[Worker] = Call("setStatus", running.on)
    BY <1>0, <1>4 DEF RunStatus
  <2> QED
    BY <1>4, <2>1, FieldsOfCall DEF RunStatus, ToRun
<1> QED
  BY <1>1, <1>2, <1>3, <1>4

(* Whatever the step. *)
LEMMA InformedStep ==
  ASSUME Typed, Lives, Calling, Informed, Next
  PROVE  Informed'
<1>1. ASSUME UNCHANGED <<dispatcherVars, ofOption>>, NoReadLost PROVE Informed'
  BY <1>1, InformedJoined DEF dispatcherVars, ofOption, InMap, Alive
<1>2. ASSUME NEW t \in Threads, Finish(t) PROVE Informed'
  <2>1. CASE FinishesStatus(t)
    BY <1>1, <2>1 DEF FinishesStatus, FinishStatus, NoReadLost
  <2>2. CASE FinishesAdd(t)
    <3>1. SameCall
      BY <2>2, DoneByOthers, ThreadsDiffer DEF FinishesAdd
    <3> QED
      BY <2>2, <3>1, InformedAdd DEF FinishesAdd, NoReadLost, ofOption
  <2>3. CASE FinishesRemove(t)
    <3>0. NoReadLost
      BY <2>3, DoneByOthers DEF FinishesRemove, NoReadLost
    <3>1. CASE UNCHANGED dispatcherVars
      BY <1>1, <2>3, <3>0, <3>1 DEF FinishesRemove
    <3> DEFINE l == call[t].on
               x == Task("end", l, adds[l], "end")
    <3>2. CASE /\ InMap(l) /\ removes' = [removes EXCEPT ![l] = @ + 1] /\ tasks' = Append(tasks, x)
               /\ UNCHANGED <<adds, running, starts, ends>>
      <4>1. l \in Listeners /\ UNCHANGED <<watched, option, engineKnows, told>>
        BY <2>3 DEF FinishesRemove, ofOption
      <4>2. x \in Queued
        BY <3>2, <4>1, MapSerials, TaskTypes
      <4>3. ToSet(tasks') = ToSet(tasks) \cup {x}
        <5> HIDE DEF x
        <5> QED
          BY <3>2, <4>2, StillQueued
      <4>4. \A k \in Listeners : InMap(k)' => InMap(k) /\ adds'[k] = adds[k]
        <5>1. \A k \in Listeners : removes[k] \in Nat /\ adds[k] \in Nat /\ removes'[k] \in {removes[k], removes[k] + 1}
          BY <3>2, <4>1 DEF Typed
        <5> QED
          BY <3>2, <5>1 DEF InMap, Alive
      <4> HIDE DEF x, l
      <4> QED
        BY <3>0, <3>2, <4>1, <4>3, <4>4, InformedJoined
    <3> QED
      BY <2>3, <3>1, <3>2 DEF FinishesRemove, RemoveListener
  <2>4. CASE FinishesSubs(t)
    <3>1. SameCall /\ call[t].on \in Subscriptions
      BY <2>4, DoneByOthers, ThreadsDiffer DEF FinishesSubs
    <3>2. UNCHANGED <<adds, removes, running, watched, option, engineKnows, told>>
      BY <2>4 DEF FinishesSubs, ofOption
    <3> DEFINE a == Task("add", call[t].on, 0, "add")
               r == Task("remove", call[t].on, 0, "remove")
    <3>3. a \in Queued /\ r \in Queued
      BY <3>1, OtherTaskTypes
    <3>4. tasks' = tasks \/ tasks' = Append(tasks, a) \/ tasks' = Append(tasks, r)
      BY <2>4 DEF FinishesSubs, Subscribe, Unsubscribe
    <3> HIDE DEF a, r
    <3>5. ToSet(tasks) \subseteq ToSet(tasks')
      BY <3>3, <3>4, StillQueued
    <3> QED
      BY <3>1, <3>2, <3>5, InformedJoined DEF InMap, Alive, NoReadLost
  <2>5. CASE FinishesSet(t)
    <3>1. SameCall
      BY <2>5, DoneByOthers DEF FinishesSet
    <3> QED
      BY <2>5, <3>1, InformedSet DEF FinishesSet, NoReadLost
  <2>6. CASE FinishesDispatch(t)
    <3>1. UNCHANGED <<adds, removes, running, watched, option, engineKnows, told>> /\ call[t].on \in Statuses
      BY <2>6 DEF FinishesDispatch, ofOption
    <3>2. PICK m \in Events(call[t].on) : tasks' = tasks \o m
      BY <2>6 DEF FinishesDispatch, DispatchEvent
    <3>3. Tidings(m, call[t].on)
      BY <3>1, EventsAreTidings
    <3>4. ToSet(tasks) \subseteq ToSet(tasks')
      BY <3>2, <3>3, StillQueued DEF Tidings
    <3>5. NoReadLost
      BY <2>6 DEF FinishesDispatch, NoReadLost
    <3> QED
      BY <3>1, <3>4, <3>5, InformedJoined DEF InMap, Alive
  <2>7. CASE FinishesGet(t)
    BY <2>7, InformedGet DEF FinishesGet
  <2> QED
    BY <1>2, <2>1, <2>2, <2>3, <2>4, <2>5, <2>6, <2>7, FinishKinds
<1>3. CASE RunReader
  <2>1. \A l \in Listeners : Reads(running, l) => WillRead(l)'
    BY <1>3, HandledTasks DEF Reads, IsFor, WillRead
  <2>2. NoReadLost
    BY <1>3, HandledTasks DEF NoReadLost
  <2>3. UNCHANGED <<adds, removes, tasks, watched, option, told, engineKnows>> /\ running'.kind = running.kind
    BY <1>3, HandledTasks DEF RunReader, ofOption
  <2> QED
    BY <2>1, <2>2, <2>3, InformedRan
<1>4. CASE RunStatusEvent \/ RunStatus
  <2>1. \A l \in Listeners : ~Reads(running, l)
    <3>1. watched \in Options
      BY DEF Typed
    <3> QED
      BY <1>4, <3>1, HandledTasks, WhatsDiffer DEF Reads, IsFor
  <2>2. NoReadLost
    BY <1>4, HandledTasks DEF NoReadLost
  <2>3. UNCHANGED <<adds, removes, tasks, watched, option, told, engineKnows>> /\ running'.kind = running.kind
    BY <1>4, HandledTasks DEF RunStatusEvent, RunStatus, ofOption
  <2> QED
    BY <2>1, <2>2, <2>3, InformedRan
<1>5. CASE RunUnwatched \/ RunEngine \/ RunManager \/ Return
  <2>1. \A l \in Listeners : ~Reads(running, l)
    <3>1. watched \in Options
      BY DEF Typed
    <3> QED
      BY <1>5, <3>1, EndingTasks, WhatsDiffer DEF Reads, IsFor
  <2>2. NoReadLost
    BY <1>5, EndingTasks DEF NoReadLost
  <2>3. UNCHANGED <<adds, removes, tasks, watched, option, told>>
    BY <1>5 DEF RunUnwatched, RunEngine, RunManager, Return, EndTask, ofOption
  <2>4. CASE RunEngine
    BY <2>1, <2>2, <2>3, <2>4, EndingTasks, InformedRan DEF RunEngine
  <2>5. CASE RunUnwatched \/ RunManager \/ Return
    <3>1. engineKnows' = engineKnows /\ running.kind # "engine"
      BY <2>5, EndingTasks DEF RunUnwatched, RunManager, Return, ofOption
    <3> QED
      BY <2>1, <2>2, <2>3, <3>1, InformedRan
  <2> QED
    BY <1>5, <2>4, <2>5
<1>6. ASSUME NEW status \in Statuses, Report(status) PROVE Informed'
  <2>1. Task("status", status, 0, "status") \in Queued
    BY OtherTaskTypes
  <2>2. ToSet(tasks) \subseteq ToSet(tasks')
    BY <1>6, <2>1, StillQueued DEF Report
  <2>3. NoReadLost
    BY <1>6 DEF Report, ofCalls, NoReadLost, SameCall
  <2> QED
    BY <1>6, <2>2, <2>3, InformedJoined DEF Report, ofOption, InMap, Alive
<1>7. CASE UserBegins
  BY <1>1, <1>7, BeginByOthers DEF UserBegins, Begin, NoReadLost
<1>8. CASE SessionSets("realMaxBandwidth")
  <2>1. SameCall
    BY <1>8, CallsOfOthers, ThreadsDiffer, WorkerBegins DEF SessionSets
  <2> QED
    BY <1>1, <1>8, <2>1 DEF SessionSets, NoReadLost
<1>9. ASSUME NEW t \in Threads, Acquire(t) PROVE Informed'
  <2>1. SameCall
    BY <1>9, AcquireCall, ThreadsDiffer DEF SameCall
  <2> QED
    BY <1>1, <1>9, <2>1 DEF Acquire, NoReadLost
<1> QED
  BY <1>2, <1>3, <1>4, <1>5, <1>6, <1>7, <1>8, <1>9, Steps, InformedTake
-----------------------------------------------------------------------------
(* The last status a listener is told is the last one.                     *)

(* The same of any queue, task, wrapper, last status and status told. *)
Of(t, l, n, s)   == Tells(t, l, n) /\ t.what = s
Else(t, l, n, s) == Tells(t, l, n) /\ t.what # s
Ahead(l, q, n, s) == \E t \in ToSet(q) : Of(t, l, n, s)
Followed(l, q, n, s) == \A i \in 1..Len(q) : Else(q[i], l, n, s) => \E j \in i + 1 .. Len(q) : Of(q[j], l, n, s)
Fine(l, q, task, n, s, got) ==
  \/ got \in {Unknown, s} \/ Ahead(l, q, n, s) \/ Of(task, l, n, s)
  \/ StartsLife(task, l, n) \/ \E t \in ToSet(q) : StartsLife(t, l, n)
Quiet(l, q, task, n, s, got) ==
  /\ Followed(l, q, n, s)
  /\ Else(task, l, n, s) => Ahead(l, q, n, s)
  /\ Fine(l, q, task, n, s, got)

(* Settled is that of the queue and the task in hand, before and after a    *)
(* step.                                                                    *)
LEMMA SettledIs ==
  ASSUME NEW l \in Listeners
  PROVE  /\ Settled(l) <=> Quiet(l, tasks, running, adds[l], lastStatus, toldStatus[l])
         /\ Settled(l)' <=> Quiet(l, tasks', running', adds'[l], lastStatus', toldStatus'[l])
  BY DEF Settled, Quiet, Fine, Followed, Ahead, Of, Else, TellsLast, TellsOther, LastIsAhead

(* Tasks that join the queue without an event of another status. *)
LEMMA FollowedJoined ==
  ASSUME NEW l, NEW n, NEW s, NEW q \in Seq(Queued), NEW m \in Seq(Queued),
         \A t \in ToSet(m) : ~Else(t, l, n, s),
         Followed(l, q, n, s) \/ Ahead(l, m, n, s)
  PROVE  Followed(l, q \o m, n, s)
<1> DEFINE r == q \o m
<1>1. /\ Len(r) = Len(q) + Len(m) /\ Len(q) \in Nat /\ Len(m) \in Nat
      /\ \A i \in 1..Len(r) : r[i] = IF i <= Len(q) THEN q[i] ELSE m[i - Len(q)]
  BY ConcatProperties, LenProperties
<1>2. \A i \in 1..Len(r) : i > Len(q) => ~Else(r[i], l, n, s)
  <2> SUFFICES ASSUME NEW i \in 1..Len(r), i > Len(q) PROVE ~Else(r[i], l, n, s)
    OBVIOUS
  <2>1. i - Len(q) \in 1..Len(m) /\ r[i] = m[i - Len(q)]
    BY <1>1
  <2> QED
    BY <2>1, InToSet
<1>3. \A i \in 1..Len(q) : i \in 1..Len(r) /\ r[i] = q[i]
  BY <1>1
<1>m. \A j \in 1..Len(m) : Len(q) + j \in 1..Len(r) /\ r[Len(q) + j] = m[j]
  BY <1>1
<1> HIDE DEF r
<1> SUFFICES ASSUME NEW i \in 1..Len(r), Else(r[i], l, n, s)
             PROVE  \E j \in i + 1 .. Len(r) : Of(r[j], l, n, s)
  BY DEF Followed, r
<1>4. i \in 1..Len(q) /\ r[i] = q[i]
  BY <1>1, <1>2, <1>3
<1>5. CASE Followed(l, q, n, s)
  <2>1. PICK j \in i + 1 .. Len(q) : Of(q[j], l, n, s)
    BY <1>4, <1>5 DEF Followed
  <2>2. j \in i + 1 .. Len(r) /\ j \in 1..Len(q)
    BY <1>1, <1>4, <2>1
  <2> QED
    BY <1>3, <2>1, <2>2
<1>6. CASE Ahead(l, m, n, s)
  <2>1. PICK t \in ToSet(m) : Of(t, l, n, s)
    BY <1>6 DEF Ahead
  <2>2. PICK j \in 1..Len(m) : m[j] = t
    BY InToSet
  <2>3. Len(q) + j \in i + 1 .. Len(r) /\ Of(r[Len(q) + j], l, n, s)
    BY <1>1, <1>4, <1>m, <2>1, <2>2
  <2> QED
    BY <2>3
<1> QED
  BY <1>5, <1>6

(* So a listener stays as settled as it is, or comes to be. *)
LEMMA QuietJoined ==
  ASSUME NEW l, NEW n, NEW s, NEW task, NEW got, NEW q \in Seq(Queued), NEW m \in Seq(Queued),
         \A t \in ToSet(m) : ~Else(t, l, n, s),
         Quiet(l, q, task, n, s, got) \/ Ahead(l, m, n, s)
  PROVE  Quiet(l, q \o m, task, n, s, got)
<1>1. ToSet(q \o m) = ToSet(q) \cup ToSet(m)
  BY Joined
<1>2. Followed(l, q \o m, n, s)
  BY FollowedJoined DEF Quiet
<1>3. Ahead(l, q, n, s) \/ Ahead(l, m, n, s) => Ahead(l, q \o m, n, s)
  BY <1>1 DEF Ahead
<1>4. CASE Ahead(l, m, n, s)
  BY <1>2, <1>3, <1>4 DEF Quiet, Fine
<1>5. CASE Quiet(l, q, task, n, s, got)
  <2>1. (\E t \in ToSet(q) : StartsLife(t, l, n)) => \E t \in ToSet(q \o m) : StartsLife(t, l, n)
    BY <1>1
  <2> QED
    BY <1>2, <1>3, <1>5, <2>1 DEF Quiet, Fine
<1> QED
  BY <1>4, <1>5

(* The first task of the queue is taken, or dropped if it tells nothing.   *)
LEMMA QuietTaken ==
  ASSUME NEW l, NEW n, NEW s, NEW idle, NEW got, NEW task, NEW q \in Seq(Queued), q # <<>>,
         Quiet(l, q, idle, n, s, got), ~Tells(idle, l, n), ~StartsLife(idle, l, n),
         task = Head(q) \/ (task = idle /\ ~Tells(Head(q), l, n) /\ ~StartsLife(Head(q), l, n))
  PROVE  Quiet(l, Tail(q), task, n, s, got)
<1> DEFINE r == Tail(q)
           k == Len(q)
           x == Head(q)
<1>1. /\ k \in Nat \ {0} /\ Len(r) = k - 1 /\ x = q[1] /\ r \in Seq(Queued)
      /\ \A i \in 1..k - 1 : r[i] = q[i + 1]
      /\ ToSet(q) = {x} \cup ToSet(r)
  BY Shifted
<1>2. \A i \in 1..Len(r) : i + 1 \in 1..k /\ r[i] = q[i + 1]
  BY <1>1
<1>3. \A i \in 1..k : i # 1 => i - 1 \in 1..Len(r) /\ r[i - 1] = q[i]
  BY <1>1
<1> HIDE DEF r, x
<1>4. Followed(l, r, n, s)
  <2> SUFFICES ASSUME NEW i \in 1..Len(r), Else(r[i], l, n, s)
               PROVE  \E j \in i + 1 .. Len(r) : Of(r[j], l, n, s)
    BY DEF Followed
  <2>1. i + 1 \in 1..k /\ Else(q[i + 1], l, n, s)
    BY <1>2
  <2>2. PICK j \in i + 1 + 1 .. k : Of(q[j], l, n, s)
    BY <2>1 DEF Quiet, Followed
  <2>3. j - 1 \in i + 1 .. Len(r) /\ j \in 1..k /\ j # 1
    BY <1>1, <2>2
  <2> QED
    BY <1>3, <2>2, <2>3
<1>5. ASSUME Else(x, l, n, s) PROVE Ahead(l, r, n, s)
  <2>1. 1 \in 1..k /\ Else(q[1], l, n, s)
    BY <1>1, <1>5
  <2>2. PICK j \in 1 + 1 .. k : Of(q[j], l, n, s)
    BY <2>1 DEF Quiet, Followed
  <2>3. j - 1 \in 1..Len(r) /\ r[j - 1] = q[j]
    BY <1>1, <1>3, <2>2
  <2>4. r[j - 1] \in ToSet(r)
    BY <1>1, <2>3, InToSet
  <2> QED
    BY <2>2, <2>3, <2>4 DEF Ahead
<1>6. Else(task, l, n, s) => Ahead(l, r, n, s)
  BY <1>5 DEF x, Else
<1>7. Fine(l, r, task, n, s, got)
  <2>1. Fine(l, q, idle, n, s, got)
    BY DEF Quiet
  <2>2. Ahead(l, q, n, s) => Of(x, l, n, s) \/ Ahead(l, r, n, s)
    BY <1>1 DEF Ahead
  <2>3. (\E t \in ToSet(q) : StartsLife(t, l, n)) => StartsLife(x, l, n) \/ \E t \in ToSet(r) : StartsLife(t, l, n)
    BY <1>1
  <2>4. task = x \/ (~Of(x, l, n, s) /\ ~StartsLife(x, l, n))
    BY DEF x, Of
  <2> QED
    BY <2>1, <2>2, <2>3, <2>4 DEF Fine, Of
<1> QED
  BY <1>4, <1>6, <1>7 DEF Quiet, r

(* A task that neither tells nor starts comes after one that does not       *)
(* either, or whose listener was told.                                      *)
LEMMA QuietRan ==
  ASSUME NEW l, NEW n, NEW s, NEW got, NEW new, NEW task, NEW next, NEW q,
         Quiet(l, q, task, n, s, got), ~Tells(next, l, n), ~StartsLife(next, l, n),
         \/ new = got /\ ~Tells(task, l, n) /\ ~StartsLife(task, l, n)
         \/ new \in {Unknown, s}
         \/ Ahead(l, q, n, s)
         \/ \E t \in ToSet(q) : StartsLife(t, l, n)
  PROVE  Quiet(l, q, next, n, s, new)
  BY DEF Quiet, Fine, Of, Else

(* While no dispatch begins or ends, each listener in the map is to be as   *)
(* settled as it was.                                                       *)
NoDispatch == SameCall \/ (call[Worker].op # "dispatch" /\ call'[Worker].op # "dispatch")

(* Then what is told of the status stays right. *)
LEMMA StatusedKept ==
  ASSUME Statused, lastStatus' = lastStatus, NoDispatch,
         \A l \in Listeners : InMap(l)' /\ (InMap(l) => Settled(l)) => Settled(l)'
  PROVE  Statused'
<1>1. CASE call[Worker].op = "dispatch"
  BY <1>1 DEF Statused, NoDispatch, SameCall
<1>2. CASE call[Worker].op # "dispatch"
  <2>1. call'[Worker].op # "dispatch"
    BY <1>2 DEF NoDispatch, SameCall
  <2>2. \A l \in Listeners : InMap(l)' => Settled(l)'
    BY <1>2 DEF Statused
  <2> QED
    BY <2>1, <2>2 DEF Statused
<1> QED
  BY <1>1, <1>2

(* Nothing of this changes. *)
LEMMA StatusedSame ==
  ASSUME Statused, UNCHANGED <<dispatcherVars, lastStatus, toldStatus>>, NoDispatch
  PROVE  Statused'
<1>1. ASSUME NEW l \in Listeners, InMap(l)', InMap(l) => Settled(l) PROVE Settled(l)'
  BY <1>1, SettledIs DEF dispatcherVars, InMap, Alive
<1> QED
  BY <1>1, StatusedKept

(* Tasks that tell of no other status join the queue. *)
LEMMA StatusedJoined ==
  ASSUME Typed, Statused, NEW m \in Seq(Queued), tasks' = tasks \o m,
         UNCHANGED <<running, lastStatus, toldStatus>>, NoDispatch,
         \A l \in Listeners : InMap(l)' => InMap(l) /\ adds'[l] = adds[l],
         \A t \in ToSet(m) : t.kind # "event" \/ t.what \notin Statuses
  PROVE  Statused'
<1>1. ASSUME NEW l \in Listeners, InMap(l)', InMap(l) => Settled(l) PROVE Settled(l)'
  <2>1. Quiet(l, tasks, running, adds[l], lastStatus, toldStatus[l]) /\ adds'[l] = adds[l]
    BY <1>1, SettledIs
  <2>2. \A t \in ToSet(m) : ~Else(t, l, adds[l], lastStatus)
    BY DEF Else, Tells, IsEvent
  <2>3. Quiet(l, tasks \o m, running, adds[l], lastStatus, toldStatus[l])
    BY <2>1, <2>2, QuietJoined DEF Typed
  <2> QED
    BY <2>1, <2>3, SettledIs
<1> QED
  BY <1>1, StatusedKept

(* So when one task is queued that is no event. *)
LEMMA StatusedOneMore ==
  ASSUME Typed, Statused, NEW x \in Queued, tasks' = Append(tasks, x), x.kind # "event",
         UNCHANGED <<running, lastStatus, toldStatus>>, NoDispatch,
         \A l \in Listeners : InMap(l)' => InMap(l) /\ adds'[l] = adds[l]
  PROVE  Statused'
<1>1. tasks' = tasks \o <<x>> /\ <<x>> \in Seq(Queued) /\ ToSet(<<x>>) = {x}
  BY Appended DEF Typed
<1> QED
  BY <1>1, StatusedJoined

(* A listener that is added will start: it was told nothing in this life.   *)
LEMMA StatusedAdd ==
  ASSUME Typed, Lives, Statused, NEW l \in Listeners, AddListener(l), NoDispatch, UNCHANGED <<lastStatus, toldStatus>>
  PROVE  Statused'
<1>0. PICK n : n = adds[l] + 1
  OBVIOUS
<1>1. CASE UNCHANGED dispatcherVars
  BY <1>1, StatusedSame
<1>2. CASE /\ ~InMap(l) /\ adds' = [adds EXCEPT ![l] = @ + 1] /\ tasks' = Append(tasks, Task("start", l, n, "start"))
           /\ UNCHANGED <<removes, running, starts, ends>>
  <2>1. adds[l] = removes[l] /\ adds[l] \in Nat /\ n \in Serial
    BY <1>0, <1>2, LifeCounts DEF Serial
  <2>2. adds'[l] = n /\ \A k \in Listeners : k # l => adds'[k] = adds[k]
    BY <1>0, <1>2 DEF Typed
  <2> DEFINE x == Task("start", l, n, "start")
  <2>3. x \in Queued /\ x.kind = "start" /\ x.on = l /\ x.wrapper = n /\ x.what = "start"
    BY <2>1, TaskTypes, TaskFields
  <2> HIDE DEF x
  <2>4. /\ tasks \in Seq(Queued) /\ tasks' = tasks \o <<x>> /\ <<x>> \in Seq(Queued) /\ ToSet(<<x>>) = {x}
        /\ ToSet(tasks') = ToSet(tasks) \cup {x}
    BY <1>2, <2>3, Appended, StillQueued, SMTT(30) DEF Typed, x
  <2>5. \A t \in ToSet(tasks) \cup {x, running} : ~Tells(t, l, n)
    <3>1. ASSUME NEW t \in ToSet(tasks), Tells(t, l, n) PROVE FALSE
      <4>1. PICK i \in 1..Len(tasks) : tasks[i] = t
        BY <2>4, InToSet
      <4>2. LivesIn(l, tasks, starts[l] + ends[l], adds[l] + removes[l])
        BY DEF Lives
      <4>3. 2 * n <= adds[l] + removes[l] + 1
        BY <3>1, <4>1, <4>2 DEF LivesIn, Tells
      <4> QED
        BY <1>0, <2>1, <4>3
    <3>2. ASSUME Tells(running, l, n) PROVE FALSE
      <4>1. n <= adds[l]
        BY <3>2 DEF Tells, IsEvent, Lives
      <4> QED
        BY <1>0, <2>1, <4>1
    <3>3. ~Tells(x, l, n)
      BY <2>3 DEF Tells, IsEvent
    <3> QED
      BY <3>1, <3>2, <3>3
  <2>6. ASSUME NEW k \in Listeners, InMap(k)', InMap(k) => Settled(k) PROVE Settled(k)'
    <3>1. CASE k = l
      <4>1. \A t \in ToSet(tasks') \cup {running'} : ~Else(t, l, n, lastStatus)
        BY <1>2, <2>4, <2>5 DEF Else
      <4>2. \A i \in 1..Len(tasks') : tasks'[i] \in ToSet(tasks')
        BY <2>4, Joined, InToSet
      <4>3. Followed(l, tasks', n, lastStatus)
        BY <4>1, <4>2 DEF Followed
      <4>4. x \in ToSet(tasks') /\ StartsLife(x, l, n)
        BY <2>3, <2>4 DEF StartsLife
      <4>5. Quiet(l, tasks', running', n, lastStatus, toldStatus[l])
        BY <4>1, <4>3, <4>4 DEF Quiet, Fine
      <4> QED
        BY <2>2, <3>1, <4>5, SettledIs
    <3>2. CASE k # l
      <4>1. InMap(k) /\ adds'[k] = adds[k]
        BY <1>2, <2>2, <2>6, <3>2 DEF InMap, Alive
      <4>2. Quiet(k, tasks, running, adds[k], lastStatus, toldStatus[k])
        BY <2>6, <4>1, SettledIs
      <4>3. \A t \in ToSet(<<x>>) : ~Else(t, k, adds[k], lastStatus)
        BY <2>3, <2>4 DEF Else, Tells, IsEvent
      <4>4. Quiet(k, tasks \o <<x>>, running, adds[k], lastStatus, toldStatus[k])
        BY <2>4, <4>2, <4>3, QuietJoined
      <4> QED
        BY <1>2, <2>4, <4>1, <4>4, SettledIs
    <3> QED
      BY <3>1, <3>2
  <2> QED
    BY <2>6, StatusedKept
<1> QED
  BY <1>0, <1>1, <1>2 DEF AddListener

(* The status changes: a dispatch of the new one begins. *)
LEMMA StatusedFinish ==
  ASSUME Typed, Statused, FinishesStatus(Worker)
  PROVE  Statused'
<1>0. Worker \in Threads /\ call \in [Threads -> UserCalls \cup WorkerCalls \cup SessionCalls]
  BY ThreadsDiffer DEF Typed
<1>1. call[Worker].op = "setStatus" /\ FinishStatus(Worker, call[Worker].on)
  BY DEF FinishesStatus
<1>2. CASE IsNewStatus(call[Worker].on)
  <2>1. call'[Worker] = Call("dispatch", call[Worker].on) /\ lastStatus' = call[Worker].on
    BY <1>0, <1>1, <1>2 DEF FinishStatus
  <2>2. call'[Worker].op = "dispatch" /\ call'[Worker].on = lastStatus'
    BY <2>1, FieldsOfCall
  <2> QED
    BY <2>2 DEF Statused
<1>3. CASE ~IsNewStatus(call[Worker].on)
  <2>1. call'[Worker] = NoCall /\ lastStatus' = lastStatus
    BY <1>0, <1>1, <1>3 DEF FinishStatus, IsNewStatus
  <2>2. NoDispatch
    BY <1>1, <2>1, NoCallFields DEF NoDispatch
  <2> QED
    BY <1>1, <2>1, <2>2, StatusedSame DEF FinishStatus
<1> QED
  BY <1>2, <1>3

(* The dispatch sends each listener in the map an event of the last status. *)
LEMMA StatusedDispatch ==
  ASSUME Typed, Statused, FinishesDispatch(Worker)
  PROVE  Statused'
<1>1. /\ call[Worker].op = "dispatch" /\ call[Worker].on \in Statuses /\ DispatchEvent(call[Worker].on)
      /\ UNCHANGED <<adds, removes, running, lastStatus, toldStatus>>
  BY DEF FinishesDispatch, ofStatus
<1>2. call[Worker].on = lastStatus /\ lastStatus \in Statuses
  BY <1>1 DEF Statused
<1>3. PICK m \in Events(lastStatus) : tasks' = tasks \o m
  BY <1>1, <1>2 DEF DispatchEvent
<1>4. Tidings(m, lastStatus)
  BY <1>2, EventsAreTidings
<1>5. ASSUME NEW l \in Listeners, InMap(l)' PROVE Settled(l)'
  <2>1. InMap(l)
    BY <1>1, <1>5 DEF InMap, Alive
  <2>2. \A t \in ToSet(m) : ~Else(t, l, adds[l], lastStatus)
    BY <1>4 DEF Tidings, Else
  <2>3. Ahead(l, m, adds[l], lastStatus)
    <3>1. Task("event", l, adds[l], lastStatus) \in ToSet(m)
      BY <1>4, <2>1 DEF Tidings
    <3>2. Of(Task("event", l, adds[l], lastStatus), l, adds[l], lastStatus)
      BY <1>2, TaskFields DEF Of, Tells, IsEvent
    <3> QED
      BY <3>1, <3>2 DEF Ahead
  <2>4. tasks \in Seq(Queued) /\ m \in Seq(Queued)
    BY <1>4 DEF Typed, Tidings
  <2>5. Quiet(l, tasks \o m, running, adds[l], lastStatus, toldStatus[l])
    BY <2>2, <2>3, <2>4, QuietJoined
  <2> QED
    BY <1>1, <1>3, <2>5, SettledIs
<1>6. call'[Worker].op # "dispatch"
  BY DoneCall, ThreadsDiffer, NoCallFields DEF FinishesDispatch
<1> QED
  BY <1>5, <1>6 DEF Statused

(* The events thread takes a task. *)
LEMMA StatusedTake ==
  ASSUME Typed, Statused, TakeTask
  PROVE  Statused'
<1>0. PICK x : x = Head(tasks)
  OBVIOUS
<1>1. /\ running = Idle /\ tasks \in Seq(Queued) /\ tasks # <<>> /\ tasks' = Tail(tasks)
      /\ UNCHANGED <<adds, removes, call, lastStatus, toldStatus>>
      /\ running' = IF x.kind = "event" /\ ~Alive(x.on, x.wrapper) THEN Idle ELSE x
  BY <1>0 DEF TakeTask, Take, Typed, ofCalls, ofStatus
<1>2. ASSUME NEW l \in Listeners, InMap(l)', InMap(l) => Settled(l) PROVE Settled(l)'
  <2>1. InMap(l) /\ Quiet(l, tasks, Idle, adds[l], lastStatus, toldStatus[l])
    BY <1>1, <1>2, SettledIs DEF InMap, Alive
  <2>2. ~Tells(Idle, l, adds[l]) /\ ~StartsLife(Idle, l, adds[l])
    BY RunningFields DEF Tells, IsEvent, StartsLife
  <2>3. running' = x \/ (running' = Idle /\ ~Tells(x, l, adds[l]) /\ ~StartsLife(x, l, adds[l]))
    BY <1>1, <2>1 DEF Tells, IsEvent, StartsLife, InMap
  <2>4. Quiet(l, tasks', running', adds[l], lastStatus, toldStatus[l])
    BY <1>0, <1>1, <2>1, <2>2, <2>3, QuietTaken
  <2> QED
    BY <1>1, <2>4, SettledIs
<1>3. NoDispatch
  BY <1>1 DEF NoDispatch, SameCall
<1> QED
  BY <1>1, <1>2, <1>3, StatusedKept

(* Its task goes on to tell nothing more. *)
LEMMA StatusedRan ==
  ASSUME Typed, Statused, UNCHANGED <<adds, removes, tasks, lastStatus>>, NoDispatch,
         running'.kind \notin {"start", "event"} \/ running'.what = Handled,
         \A l \in Listeners : InMap(l) =>
            \/ /\ toldStatus'[l] = toldStatus[l]
               /\ ~Tells(running, l, adds[l]) /\ ~StartsLife(running, l, adds[l])
            \/ toldStatus'[l] \in {Unknown, lastStatus}
            \/ Ahead(l, tasks, adds[l], lastStatus)
            \/ \E t \in ToSet(tasks) : StartsLife(t, l, adds[l])
  PROVE  Statused'
<1>1. ASSUME NEW l \in Listeners, InMap(l)', InMap(l) => Settled(l) PROVE Settled(l)'
  <2>1. InMap(l) /\ Quiet(l, tasks, running, adds[l], lastStatus, toldStatus[l])
    BY <1>1, SettledIs DEF InMap, Alive
  <2>2. ~Tells(running', l, adds[l]) /\ ~StartsLife(running', l, adds[l])
    BY WhatsDiffer DEF Tells, IsEvent, StartsLife
  <2>3. Quiet(l, tasks, running', adds[l], lastStatus, toldStatus'[l])
    BY <2>1, <2>2, QuietRan
  <2> QED
    BY <2>3, SettledIs
<1> QED
  BY <1>1, StatusedKept

(* A listener is told of a status: of the last, or the last will follow, or *)
(* the listener that is told was removed and added again, and will start.   *)
LEMMA StatusedTold ==
  ASSUME Typed, Lives, Calling, Statused, RunStatusEvent
  PROVE  Statused'
<1> DEFINE l == running.on
           s == running.what
<1>1. /\ running.kind = "event" /\ s \in Statuses /\ l \in Listeners
      /\ call[Worker].op = "none" /\ call'[Worker].op \in {"removeListener", "none"}
      /\ running'.what = Handled
  BY HandledTasks
<1>2. UNCHANGED <<adds, removes, tasks, lastStatus>> /\ toldStatus' = [toldStatus EXCEPT ![l] = s]
  BY DEF RunStatusEvent
<1>3. NoDispatch
  BY <1>1 DEF NoDispatch
<1>4. starts[l] = running.wrapper /\ running.wrapper <= adds[l]
  BY <1>1 DEF Lives
<1>5. ASSUME InMap(l), running.wrapper = adds[l], s # lastStatus PROVE Ahead(l, tasks, adds[l], lastStatus)
  <2>1. Settled(l)
    BY <1>1, <1>5 DEF Statused
  <2>2. Else(running, l, adds[l], lastStatus)
    BY <1>1, <1>5 DEF Else, Tells, IsEvent
  <2> QED
    BY <1>1, <2>1, <2>2, SettledIs DEF Quiet
<1>6. ASSUME InMap(l), running.wrapper # adds[l] PROVE \E t \in ToSet(tasks) : StartsLife(t, l, adds[l])
  <2> HIDE DEF l, s
  <2>1. /\ adds[l] \in Nat /\ removes[l] \in Nat /\ starts[l] \in Nat /\ ends[l] \in Nat
        /\ adds[l] = removes[l] + 1 /\ ends[l] <= starts[l] /\ starts[l] < adds[l]
    BY <1>1, <1>4, <1>6, LifeCounts
  <2>2. 2 * adds[l] - 1 \in starts[l] + ends[l] + 1 .. adds[l] + removes[l]
    BY <2>1
  <2>3. LivesIn(l, tasks, starts[l] + ends[l], adds[l] + removes[l])
    BY <1>1 DEF Lives
  <2>4. PICK i \in 1..Len(tasks) : IsLife(tasks[i], l) /\ Turn(tasks[i]) = 2 * adds[l] - 1
    BY <2>2, <2>3 DEF LivesIn
  <2>5. tasks[i] \in ToSet(tasks) /\ IsQueued(tasks[i])
    BY InToSet, QueuedFields DEF Typed
  <2>6. tasks[i].on = l /\ tasks[i].wrapper \in Nat /\ tasks[i].kind \in {"start", "end"}
    BY <2>4, <2>5 DEF IsLife, IsQueued, Serial
  <2>7. tasks[i].kind = "start" /\ tasks[i].wrapper = adds[l]
    <3>1. \A a, w \in Nat : 2 * w # 2 * a - 1 /\ (2 * w - 1 = 2 * a - 1 => w = a)
      OBVIOUS
    <3> QED
      BY <2>1, <2>4, <2>6, <3>1 DEF Turn
  <2>8. tasks[i].what = "start"
    BY <2>5, <2>7 DEF IsQueued
  <2> QED
    BY <2>5, <2>6, <2>7, <2>8 DEF StartsLife
<1>7. ASSUME NEW k \in Listeners, InMap(k)
      PROVE  \/ /\ toldStatus'[k] = toldStatus[k]
                /\ ~Tells(running, k, adds[k]) /\ ~StartsLife(running, k, adds[k])
             \/ toldStatus'[k] \in {Unknown, lastStatus}
             \/ Ahead(k, tasks, adds[k], lastStatus)
             \/ \E t \in ToSet(tasks) : StartsLife(t, k, adds[k])
  <2>1. CASE k = l
    <3>1. toldStatus'[l] = s
      BY <1>1, <1>2 DEF Typed
    <3> QED
      BY <1>5, <1>6, <1>7, <2>1, <3>1
  <2>2. CASE k # l
    <3>1. toldStatus'[k] = toldStatus[k]
      BY <1>2, <2>2 DEF Typed
    <3> QED
      BY <2>2, <3>1 DEF Tells, IsEvent, StartsLife
  <2> QED
    BY <2>1, <2>2
<1> QED
  BY <1>1, <1>2, <1>3, <1>7, StatusedRan

(* Whatever the step. *)
LEMMA StatusedStep ==
  ASSUME Typed, Lives, Calling, Statused, Next
  PROVE  Statused'
<1>1. ASSUME NEW t \in Threads, Finish(t) PROVE Statused'
  <2>1. CASE FinishesStatus(t)
    BY <2>1, StatusedFinish DEF FinishesStatus
  <2>2. CASE FinishesAdd(t)
    <3>1. SameCall
      BY <2>2, DoneByOthers, ThreadsDiffer DEF FinishesAdd
    <3> QED
      BY <2>2, <3>1, StatusedAdd DEF FinishesAdd, NoDispatch, ofStatus
  <2>3. CASE FinishesRemove(t)
    <3>0. NoDispatch
      <4>1. CASE t = Worker
        BY <2>3, <4>1, DoneCall, NoCallFields DEF FinishesRemove, NoDispatch
      <4> QED
        BY <2>3, <4>1, DoneByOthers DEF FinishesRemove, NoDispatch
    <3>1. CASE UNCHANGED dispatcherVars
      BY <2>3, <3>0, <3>1, StatusedSame DEF FinishesRemove, ofStatus
    <3> DEFINE l == call[t].on
               x == Task("end", l, adds[l], "end")
    <3>2. CASE /\ InMap(l) /\ removes' = [removes EXCEPT ![l] = @ + 1] /\ tasks' = Append(tasks, x)
               /\ UNCHANGED <<adds, running, starts, ends>>
      <4>1. l \in Listeners /\ UNCHANGED <<lastStatus, toldStatus>>
        BY <2>3 DEF FinishesRemove, ofStatus
      <4>2. x \in Queued /\ x.kind # "event"
        BY <3>2, <4>1, MapSerials, TaskTypes, TaskFields
      <4>4. \A k \in Listeners : InMap(k)' => InMap(k) /\ adds'[k] = adds[k]
        <5>1. \A k \in Listeners : removes[k] \in Nat /\ adds[k] \in Nat /\ removes'[k] \in {removes[k], removes[k] + 1}
          BY <3>2, <4>1 DEF Typed
        <5> QED
          BY <3>2, <5>1 DEF InMap, Alive
      <4> HIDE DEF x, l
      <4> QED
        BY <3>0, <3>2, <4>1, <4>2, <4>4, StatusedOneMore
    <3> QED
      BY <2>3, <3>1, <3>2 DEF FinishesRemove, RemoveListener
  <2>4. CASE FinishesSubs(t)
    <3>1. SameCall /\ call[t].on \in Subscriptions
      BY <2>4, DoneByOthers, ThreadsDiffer DEF FinishesSubs
    <3>2. UNCHANGED <<adds, removes, running, starts, ends, lastStatus, toldStatus>>
      BY <2>4 DEF FinishesSubs, ofStatus
    <3> DEFINE a == Task("add", call[t].on, 0, "add")
               r == Task("remove", call[t].on, 0, "remove")
    <3>3. a \in Queued /\ r \in Queued /\ a.kind # "event" /\ r.kind # "event"
      BY <3>1, OtherTaskTypes, TaskFields
    <3>4. tasks' = tasks \/ tasks' = Append(tasks, a) \/ tasks' = Append(tasks, r)
      BY <2>4 DEF FinishesSubs, Subscribe, Unsubscribe
    <3> HIDE DEF a, r
    <3>5. \A l \in Listeners : InMap(l)' => InMap(l) /\ adds'[l] = adds[l]
      BY <3>2 DEF InMap, Alive
    <3>6. CASE tasks' = tasks
      BY <3>1, <3>2, <3>6, StatusedSame DEF dispatcherVars, NoDispatch
    <3> QED
      BY <3>1, <3>2, <3>3, <3>4, <3>5, <3>6, StatusedOneMore DEF NoDispatch
  <2>5. CASE FinishesSet(t)
    <3>1. SameCall /\ call[t].on \in Options
      BY <2>5, DoneByOthers DEF FinishesSet
    <3>2. UNCHANGED <<adds, removes, running, starts, ends, lastStatus, toldStatus>>
      BY <2>5 DEF FinishesSet, ofStatus
    <3>3. \A l \in Listeners : InMap(l)' => InMap(l) /\ adds'[l] = adds[l]
      BY <3>2 DEF InMap, Alive
    <3>4. CASE tasks' = tasks
      BY <3>1, <3>2, <3>4, StatusedSame DEF dispatcherVars, NoDispatch
    <3>5. CASE DispatchThen(call[t].on, Forwarded(call[t].on))
      <4>1. PICK m : NewsOf(m, call[t].on) /\ tasks' = tasks \o m
        BY <3>1, <3>5, DispatchIsNews
      <4>2. m \in Seq(Queued) /\ \A x \in ToSet(m) : x.kind # "event" \/ x.what \notin Statuses
        BY <3>1, <4>1, TaskFields, WhatsDiffer DEF NewsOf, EngineTask
      <4> QED
        BY <3>1, <3>2, <3>3, <4>1, <4>2, StatusedJoined DEF NoDispatch
    <3> QED
      BY <2>5, <3>4, <3>5 DEF FinishesSet, SetOption
  <2>6. CASE FinishesDispatch(t)
    BY <2>6, StatusedDispatch DEF FinishesDispatch
  <2>7. CASE FinishesGet(t)
    <3>1. NoDispatch
      BY <2>7, DoneCall, NoCallFields DEF FinishesGet, NoDispatch
    <3> QED
      BY <2>7, <3>1, StatusedSame DEF FinishesGet, ofStatus
  <2> QED
    BY <1>1, <2>1, <2>2, <2>3, <2>4, <2>5, <2>6, <2>7, FinishKinds
<1>2. CASE RunReader
  <2>1. /\ running.kind \in {"start", "event"} /\ running.what \in {"start", watched} /\ running.on \in Listeners
        /\ call[Worker].op = "none" /\ call'[Worker].op = "getOption" /\ running'.what = Handled
    BY <1>2, HandledTasks
  <2>2. UNCHANGED <<adds, removes, tasks, lastStatus>>
    BY <1>2 DEF RunReader
  <2>3. ASSUME NEW l \in Listeners
        PROVE  \/ /\ toldStatus'[l] = toldStatus[l]
                  /\ ~Tells(running, l, adds[l]) /\ ~StartsLife(running, l, adds[l])
               \/ toldStatus'[l] \in {Unknown, lastStatus}
    <3>0. running.what \notin Statuses
      BY <2>1, WhatsDiffer DEF Typed
    <3>1. CASE running.what = "start" /\ l = running.on
      BY <1>2, <3>1 DEF RunReader, Typed
    <3>2. CASE running.what # "start" \/ l # running.on
      <4>1. toldStatus'[l] = toldStatus[l]
        BY <1>2, <3>2 DEF RunReader, Typed
      <4> QED
        BY <3>0, <3>2, <4>1 DEF Tells, StartsLife
    <3> QED
      BY <3>1, <3>2
  <2> QED
    BY <2>1, <2>2, <2>3, StatusedRan DEF NoDispatch
<1>3. CASE RunStatus
  <2>1. /\ running.kind = "status" /\ call[Worker].op = "none" /\ call'[Worker].op = "setStatus" /\ running'.what = Handled
    BY <1>3, HandledTasks
  <2>2. UNCHANGED <<adds, removes, tasks, lastStatus, toldStatus>>
    BY <1>3 DEF RunStatus, ofStatus
  <2>3. \A l : ~Tells(running, l, adds[l]) /\ ~StartsLife(running, l, adds[l])
    BY <2>1 DEF Tells, IsEvent, StartsLife
  <2> QED
    BY <2>1, <2>2, <2>3, StatusedRan DEF NoDispatch
<1>4. CASE RunUnwatched \/ RunEngine \/ RunManager \/ Return
  <2>1. running' = Idle /\ call[Worker].op = "none" /\ UNCHANGED call
    BY <1>4, EndingTasks DEF RunUnwatched, RunEngine, RunManager, Return, ofCalls
  <2>2. UNCHANGED <<adds, removes, tasks, lastStatus, toldStatus>>
    BY <1>4 DEF RunUnwatched, RunEngine, RunManager, Return, EndTask, ofStatus
  <2>3. running.kind \notin {"start", "event"} \/ running.what \in Options \cup {Handled, "end"}
    BY <1>4, EndingTasks
  <2>4. \A l : ~Tells(running, l, adds[l]) /\ ~StartsLife(running, l, adds[l])
    <3>1. running.kind = "event" => running.what \notin Statuses
      <4>1. CASE RunUnwatched
        BY <4>1, EndingTasks, WhatsDiffer
      <4>2. CASE RunEngine \/ RunManager
        BY <4>2, EndingTasks
      <4>3. CASE Return
        <5>1. running.what = Handled \/ running.kind = "end"
          BY <4>3 DEF Return
        <5> QED
          BY <5>1, WhatsDiffer
      <4> QED
        BY <1>4, <4>1, <4>2, <4>3
    <3>2. running.kind = "start" => running.what # "start"
      BY <2>3, WhatsDiffer
    <3> QED
      BY <3>1, <3>2 DEF Tells, IsEvent, StartsLife
  <2>5. running'.kind = "idle"
    BY <2>1, RunningFields
  <2> QED
    BY <2>1, <2>2, <2>4, <2>5, StatusedRan DEF NoDispatch, SameCall
<1>5. ASSUME NEW status \in Statuses, Report(status) PROVE Statused'
  <2>1. Task("status", status, 0, "status") \in Queued /\ Task("status", status, 0, "status").kind # "event"
    BY OtherTaskTypes, TaskFields
  <2>2. UNCHANGED <<adds, removes, running, lastStatus, toldStatus, call>>
    BY <1>5 DEF Report, ofCalls
  <2>3. \A l \in Listeners : InMap(l)' => InMap(l) /\ adds'[l] = adds[l]
    BY <2>2 DEF InMap, Alive
  <2>4. NoDispatch
    BY <2>2 DEF NoDispatch, SameCall
  <2> QED
    BY <1>5, <2>1, <2>2, <2>3, <2>4, StatusedOneMore DEF Report
<1>6. CASE UserBegins
  BY <1>6, BeginByOthers, StatusedSame DEF UserBegins, Begin, NoDispatch, ofStatus
<1>7. CASE SessionSets("realMaxBandwidth")
  <2>1. SameCall
    BY <1>7, CallsOfOthers, ThreadsDiffer, WorkerBegins DEF SessionSets
  <2> QED
    BY <1>7, <2>1, StatusedSame DEF SessionSets, NoDispatch
<1>8. ASSUME NEW t \in Threads, Acquire(t) PROVE Statused'
  <2>1. SameCall
    BY <1>8, AcquireCall, ThreadsDiffer DEF SameCall
  <2> QED
    BY <1>8, <2>1, StatusedSame DEF Acquire, NoDispatch, ofStatus
<1> QED
  BY <1>1, <1>2, <1>3, <1>4, <1>5, <1>6, <1>7, <1>8, Steps, StatusedTake, StatusedTold

-----------------------------------------------------------------------------
(* Nothing is queued, called or told at first. *)
LEMMA InitTyped == Init => Typed
<1> SUFFICES ASSUME Init PROVE Typed
  OBVIOUS
<1>1. /\ adds \in [Listeners -> Nat] /\ removes \in [Listeners -> Nat]
      /\ starts \in [Listeners -> Nat] /\ ends \in [Listeners -> Nat]
  BY DEF Init
<1>2. tasks \in Seq(Queued) /\ running \in Queued \cup Begun \cup {Idle}
  BY DEF Init
<1>3. /\ call \in [Threads -> UserCalls \cup WorkerCalls \cup SessionCalls]
      /\ \A t \in Threads : call[t] \in CallsOf(t)
  <2>1. NoCall \in UserCalls /\ \A t \in Threads : call[t] \in CallsOf(t)
    BY NoCallType DEF Init, UserCalls
  <2> QED
    BY <2>1 DEF Init
<1>4. calls \in Count /\ reports \in 0..MaxReports
  BY NamesAssumption DEF Init, Count
<1>5. watched \in Options /\ option \in Nat /\ engineKnows \in 0..option /\ told \in [Listeners -> 0..option]
  BY DEF Init
<1>6. /\ lastStatus \in Statuses /\ toldStatus \in [Listeners -> Statuses \cup {Unknown}]
      /\ subscriptionArray \subseteq Subscriptions /\ managed \subseteq Subscriptions
  BY NamesAssumption DEF Init
<1> QED
  BY <1>1, <1>2, <1>3, <1>4, <1>5, <1>6 DEF Typed

(* No listener has begun a life, so that all invariants hold of each. *)
LEMMA InitInvariant == Init => IInv
<1> SUFFICES ASSUME Init PROVE IInv
  OBVIOUS
<1>1. /\ Typed /\ tasks = <<>> /\ Len(tasks) = 0 /\ running.kind = "idle" /\ running.what = "nothing"
      /\ \A t \in Threads : call[t] = NoCall /\ call[t].op = "none"
  BY InitTyped, RunningFields, NoCallFields DEF Init
<1>2. \A l \in Listeners : adds[l] = 0 /\ removes[l] = 0 /\ starts[l] = 0 /\ ends[l] = 0 /\ ~InMap(l)
  BY DEF Init, InMap, Alive
<1>3. Lives
  <2>1. \A l \in Listeners : Alternates(l)
    BY <1>2 DEF Alternates
  <2>2. \A l \in Listeners : LivesIn(l, <<>>, 0, 0)
    BY <1>1 DEF LivesIn
  <2> QED
    BY <1>1, <1>2, <2>1, <2>2 DEF Lives
<1>4. Bounded
  <2>1. Adders = {}
    BY <1>1, ThreadsDiffer DEF Adders
  <2> QED
    BY <1>2, <2>1, FS_EmptySet DEF Bounded, Init
<1>5. Calling
  BY <1>1, ThreadsDiffer DEF Calling
<1>6. Informed
  BY <1>2 DEF Informed, Init
<1>7. Statused
  BY <1>1, <1>2, ThreadsDiffer DEF Statused
<1>8. SubscriptionsAgree
  <2>1. \A s \in Subscriptions : Pending(s) = {}
    BY <1>1 DEF Pending
  <2> QED
    BY <1>1, <2>1 DEF SubscriptionsAgree, WillHave, Concerns, Init
<1> QED
  BY <1>1, <1>3, <1>4, <1>5, <1>6, <1>7, <1>8 DEF IInv

(* Every step keeps every part. *)
LEMMA InvariantStep == IInv /\ [Next]_vars => IInv'
<1> SUFFICES ASSUME IInv, [Next]_vars PROVE IInv'
  OBVIOUS
<1>1. CASE Next
  <2>1. Typed' /\ Lives' /\ Bounded' /\ Calling'
    BY <1>1, TypedStep, LivesStep, BoundedStep, CallingStep DEF IInv
  <2>2. Informed' /\ Statused'
    BY <1>1, InformedStep, StatusedStep DEF IInv
  <2>3. SubscriptionsAgree'
    BY <1>1, <2>1, SubsStep DEF IInv
  <2> QED
    BY <2>1, <2>2, <2>3 DEF IInv
<1>2. CASE UNCHANGED vars
  <2>1. UNCHANGED <<adds, removes, tasks, running, starts, ends, call, calls>>
    BY <1>2 DEF vars, dispatcherVars, ofCalls
  <2>2. UNCHANGED <<watched, option, engineKnows, told, lastStatus, toldStatus, reports, subscriptionArray, managed>>
    BY <1>2 DEF vars, ofOption, ofStatus, ofSubs
  <2>3. Typed'
    BY <2>1, <2>2 DEF IInv, Typed
  <2>4. Lives'
    BY <2>1, LivesSame DEF IInv
  <2>5. Bounded' /\ Calling'
    BY <2>1, BoundedSame DEF IInv, Calling
  <2>6. Informed'
    BY <2>1, <2>2 DEF IInv, Informed, InMap, Alive, WillRead, Reads
  <2>7. Statused'
    BY <2>1, <2>2, StatusedSame DEF IInv, dispatcherVars, NoDispatch, SameCall
  <2>8. SubscriptionsAgree'
    BY <2>1, <2>2, <2>3, SubsSame DEF IInv
  <2> QED
    BY <2>3, <2>4, <2>5, <2>6, <2>7, <2>8 DEF IInv
<1> QED
  BY <1>1, <1>2

(* What the queue holds, and what each thread calls, fits what was done and *)
(* what is known: the invariant on which all the rest is based.             *)
THEOREM FacadeInductive == Spec => []IInv
  BY InitInvariant, InvariantStep, PTL DEF Spec

(* No listener ends, or is removed, more often than it starts, or is added. *)
THEOREM TypeCorrect == Spec => []TypeOK
<1>1. IInv => TypeOK
  <2> SUFFICES ASSUME IInv PROVE TypeOK
    OBVIOUS
  <2>1. Typed /\ Lives /\ Bounded
    BY DEF IInv
  <2>2. ASSUME NEW l \in Listeners
        PROVE  /\ adds[l] \in Count
               /\ removes[l] \in 0..adds[l] /\ starts[l] \in 0..adds[l] /\ ends[l] \in 0..starts[l]
    <3>1. adds[l] + Cardinality(Adders) <= calls /\ calls \in Nat /\ calls <= MaxCalls
      BY <2>1, NamesAssumption DEF Bounded, Typed, Count
    <3>2. PICK n : n = Cardinality(Adders)
      OBVIOUS
    <3>3. n \in Nat /\ adds[l] + n <= calls
      BY <3>1, <3>2, AddersFinite
    <3> QED
      BY <2>1, <3>1, <3>3, LifeCounts, NamesAssumption DEF Count
  <2>3. adds \in [Listeners -> Count]
    BY <2>1, <2>2 DEF Typed
  <2>4. ASSUME NEW t \in ToSet(tasks) \cup {running}
        PROVE  /\ t.kind \in {"idle", "start", "event", "end", "status", "add", "remove", "engine"}
               /\ t.on \in Things
    <3>1. t \in Queued \cup Begun \cup {Idle}
      BY <2>1, InToSet DEF Typed
    <3>2. CASE t \in Queued
      BY <3>2 DEF Queued, Things, Options
    <3>3. CASE t \in Begun
      BY <3>3 DEF Begun, Things
    <3>4. CASE t = Idle
      BY <3>4 DEF Idle, Task, Things
    <3> QED
      BY <3>1, <3>2, <3>3, <3>4
  <2>5. call \in [Threads -> [op : Operations, on : Things, held : 0..3]]
    <3> DEFINE C == [op : Operations, on : Things, held : 0..3]
    <3>1. UserCalls \subseteq C
      BY DEF UserCalls, ListenerCalls, NoCall, Call, Operations, ByUsers, Things, Options
    <3>2. WorkerCalls \subseteq C
      BY DEF WorkerCalls, ReaderCalls, NoCall, Call, Operations, ByUsers, Things
    <3>3. SessionCalls \subseteq C
      BY DEF SessionCalls, Operations, NoCall, Call, Things, Options
    <3> HIDE DEF C
    <3>4. call \in [Threads -> C]
      BY <2>1, <3>1, <3>2, <3>3 DEF Typed
    <3> QED
      BY <3>4 DEF C
  <2> QED
    BY <2>1, <2>2, <2>3, <2>4, <2>5 DEF TypeOK, Typed
<1> QED
  BY <1>1, FacadeInductive, PTL

(* With nothing left to do, the last option and status were heard: whatever *)
(* was still to tell is in the queue, in hand or in a call.                 *)
THEOREM LastIsTold == Spec => []ToldOfLast
<1>1. IInv => ToldOfLast
  <2> SUFFICES ASSUME IInv, tasks = <<>>, running = Idle
               PROVE  /\ watched = "forcedTransport" => engineKnows = option
                      /\ \A l \in Listeners : Listening(l) => told[l] = option /\ toldStatus[l] \in {Unknown, lastStatus}
    BY DEF ToldOfLast
  <2>1. Typed /\ Calling /\ Informed /\ Statused
    BY DEF IInv
  <2>2. running.kind = "idle" /\ call[Worker].op = "none"
    BY <2>1, NotCalling, RunningFields, WhatsDiffer
  <2>3. ToSet(tasks) = {}
    BY DEF ToSet
  <2>4. watched = "forcedTransport" => engineKnows = option
    BY <2>1, <2>2, <2>3 DEF Informed
  <2>5. ASSUME NEW l \in Listeners, Listening(l)
        PROVE  told[l] = option /\ toldStatus[l] \in {Unknown, lastStatus}
    <3>1. InMap(l)
      BY <2>5 DEF Listening
    <3>2. ~WillRead(l)
      BY <2>2, <2>3 DEF WillRead, Reads, IsFor
    <3>3. told[l] = option
      BY <2>1, <3>1, <3>2 DEF Informed
    <3>4. Settled(l)
      BY <2>1, <2>2, <3>1 DEF Statused
    <3>5. toldStatus[l] \in {Unknown, lastStatus}
      BY <2>2, <2>3, <3>4 DEF Settled, LastIsAhead, TellsLast, Tells, IsEvent, StartsLife
    <3> QED
      BY <3>3, <3>5
  <2> QED
    BY <2>4, <2>5
<1> QED
  BY <1>1, FacadeInductive, PTL

(* The manager comes to have what the client lists: of the tasks about a    *)
(* subscription, the last queued does what the last call asked for.         *)
THEOREM ManagerAgrees == Spec => []SubscriptionsAgree
<1>1. IInv => SubscriptionsAgree
  BY DEF IInv
<1> QED
  BY <1>1, FacadeInductive, PTL
-----------------------------------------------------------------------------
(* The contract of the listeners.                                          *)

(* The listener that handles an event, as the contract sees it.             *)
Handling == IF running.kind = "event" THEN {running.on} ELSE {}

(* Steps that leave the lives of listeners, and the event in hand, alone.   *)
NoLifeChanges == UNCHANGED <<adds, removes, starts, ends>> /\ Handling' = Handling

(* Such a step is none of the contract's. *)
LEMMA ContractStutters ==
  ASSUME NoLifeChanges
  PROVE  UNCHANGED Contract!contractVars
  BY DEF NoLifeChanges, Handling, Contract!contractVars

(* A thread that adds or removes a listener does so in turn. *)
LEMMA ContractCalls ==
  ASSUME Typed, Lives, NEW t \in Threads, Finish(t)
  PROVE  [Contract!Next]_Contract!contractVars
<1>1. CASE FinishesAdd(t)
  <2> DEFINE l == call[t].on
  <2>1. l \in Listeners /\ AddListener(l)
    BY <1>1 DEF FinishesAdd
  <2>2. CASE UNCHANGED dispatcherVars
    BY <2>2, ContractStutters DEF NoLifeChanges, Handling, dispatcherVars
  <2>3. CASE ~InMap(l) /\ adds' = [adds EXCEPT ![l] = @ + 1] /\ UNCHANGED <<removes, running, starts, ends>>
    <3>1. adds[l] = removes[l]
      BY <2>1, <2>3, LifeCounts
    <3>2. Contract!Add(l)
      BY <2>3, <3>1 DEF Contract!Add, Contract!Once
    <3> QED
      BY <2>1, <3>2 DEF Contract!Next
  <2> QED
    BY <2>1, <2>2, <2>3 DEF AddListener
<1>2. CASE FinishesRemove(t)
  <2> DEFINE l == call[t].on
  <2>1. l \in Listeners /\ RemoveListener(l)
    BY <1>2 DEF FinishesRemove
  <2>2. CASE UNCHANGED dispatcherVars
    BY <2>2, ContractStutters DEF NoLifeChanges, Handling, dispatcherVars
  <2>3. CASE InMap(l) /\ removes' = [removes EXCEPT ![l] = @ + 1] /\ UNCHANGED <<adds, running, starts, ends>>
    <3>1. adds[l] > removes[l]
      BY <2>1, <2>3, LifeCounts
    <3>2. Contract!Remove(l)
      BY <2>3, <3>1 DEF Contract!Remove, Contract!Once
    <3> QED
      BY <2>1, <3>2 DEF Contract!Next
  <2> QED
    BY <2>1, <2>2, <2>3 DEF RemoveListener
<1>3. CASE FinishesStatus(t) \/ FinishesSubs(t) \/ FinishesSet(t) \/ FinishesGet(t) \/ FinishesDispatch(t)
  <2>1. UNCHANGED <<adds, removes, running, starts, ends>>
    <3>1. CASE FinishesStatus(t) \/ FinishesGet(t)
      BY <3>1 DEF FinishesStatus, FinishesGet, FinishStatus, dispatcherVars
    <3>2. CASE FinishesSubs(t)
      BY <3>2 DEF FinishesSubs
    <3>3. CASE FinishesSet(t)
      BY <3>3 DEF FinishesSet
    <3>4. CASE FinishesDispatch(t)
      BY <3>4 DEF FinishesDispatch
    <3> QED
      BY <1>3, <3>1, <3>2, <3>3, <3>4
  <2> QED
    BY <2>1, ContractStutters DEF NoLifeChanges, Handling
<1> QED
  BY <1>1, <1>2, <1>3, FinishKinds

(* The events thread begins a callback when it may. *)
LEMMA ContractTakes ==
  ASSUME Typed, Lives, Take
  PROVE  [Contract!Next]_Contract!contractVars
<1>1. PICK x : x = Head(tasks)
  OBVIOUS
<1>2. x \in Queued /\ IsQueued(x) /\ tasks # <<>> /\ running.kind = "idle"
  BY <1>1, QueuedFields, HeadTailProperties, RunningFields DEF Take, Typed
<1>3. /\ running' = (IF x.kind = "event" /\ ~Alive(x.on, x.wrapper) THEN Idle ELSE x)
      /\ starts' = (IF x.kind = "start" THEN [starts EXCEPT ![x.on] = @ + 1] ELSE starts)
      /\ ends' = (IF x.kind = "end" THEN [ends EXCEPT ![x.on] = @ + 1] ELSE ends)
      /\ UNCHANGED <<adds, removes>>
  BY <1>1 DEF Take
<1>4. /\ x.kind \in {"start", "event", "end"} => x.on \in Listeners
      /\ x.kind = "start" => starts[x.on] = ends[x.on] /\ starts[x.on] < adds[x.on]
      /\ x.kind = "end" => starts[x.on] = ends[x.on] + 1 /\ ends[x.on] < removes[x.on]
      /\ x.kind = "event" /\ Alive(x.on, x.wrapper) => InMap(x.on) /\ starts[x.on] = adds[x.on]
  BY <1>1, <1>2, TakenTurn
<1>5. Handling = {} /\ Idle.kind = "idle"
  BY <1>2, RunningFields DEF Handling
<1>6. CASE x.kind = "start"
  <2>1. Contract!OnListenStart(x.on)
    BY <1>2, <1>3, <1>4, <1>6 DEF Contract!OnListenStart, Contract!Once
  <2> QED
    BY <1>4, <1>6, <2>1 DEF Contract!Next
<1>7. CASE x.kind = "end"
  <2>1. starts[x.on] > ends[x.on]
    BY <1>4, <1>7, LifeCounts
  <2>2. Contract!OnListenEnd(x.on)
    BY <1>2, <1>3, <1>4, <1>7, <2>1 DEF Contract!OnListenEnd, Contract!Once
  <2> QED
    BY <1>4, <1>7, <2>2 DEF Contract!Next
<1>8. CASE x.kind = "event" /\ Alive(x.on, x.wrapper)
  <2>1. adds[x.on] > removes[x.on]
    BY <1>4, <1>8, LifeCounts
  <2>2. Contract!OnEvent(x.on)
    BY <1>2, <1>3, <1>4, <1>8, <2>1 DEF Contract!OnEvent
  <2> QED
    BY <1>4, <1>8, <2>2 DEF Contract!Next
<1>9. CASE x.kind \notin {"start", "end", "event"} \/ (x.kind = "event" /\ ~Alive(x.on, x.wrapper))
  <2>1. UNCHANGED <<starts, ends>> /\ running'.kind # "event"
    BY <1>3, <1>5, <1>9
  <2> QED
    BY <1>3, <1>5, <2>1, ContractStutters DEF NoLifeChanges, Handling
<1> QED
  BY <1>6, <1>7, <1>8, <1>9

(* A callback for an event returns; of another task the contract says       *)
(* nothing.                                                                 *)
LEMMA ContractReturns ==
  ASSUME Typed, running' = Idle, UNCHANGED <<adds, removes, starts, ends>>
  PROVE  [Contract!Next]_Contract!contractVars
<1>1. Handling' = {}
  BY RunningFields DEF Handling
<1>2. CASE running.kind = "event"
  <2>1. running.on \in Listeners
    BY <1>2, RunningFields DEF IsQueued, IsBegun
  <2>2. Contract!Return(running.on)
    BY <1>1, <1>2 DEF Contract!Return, Handling
  <2> QED
    BY <2>1, <2>2 DEF Contract!Next
<1>3. CASE running.kind # "event"
  BY <1>1, <1>3, ContractStutters DEF NoLifeChanges, Handling
<1> QED
  BY <1>2, <1>3

(* The calls of each listener come in the order it may rely on: the client   *)
(* implements what the listeners are promised, step by step.                *)
THEOREM KeepsContract == Spec => ImplementsContract
<1>1. Init => Contract!Init
  <2> SUFFICES ASSUME Init PROVE Contract!Init
    OBVIOUS
  <2>1. running.kind = "idle"
    BY DEF Init, Idle, Task
  <2> QED
    BY <2>1 DEF Init, Contract!Init
<1>2. IInv /\ [Next]_vars => [Contract!Next]_Contract!contractVars
  <2> SUFFICES ASSUME IInv, [Next]_vars PROVE [Contract!Next]_Contract!contractVars
    OBVIOUS
  <2>0. Typed /\ Lives /\ Calling
    BY DEF IInv
  <2>1. ASSUME NEW t \in Threads, Finish(t) PROVE [Contract!Next]_Contract!contractVars
    BY <2>0, <2>1, ContractCalls
  <2>2. CASE TakeTask
    BY <2>0, <2>2, ContractTakes DEF TakeTask
  <2>3. CASE RunUnwatched \/ RunEngine \/ RunManager \/ Return
    <3>1. running' = Idle /\ UNCHANGED <<adds, removes, starts, ends>>
      BY <2>3 DEF RunUnwatched, RunEngine, RunManager, Return, EndTask
    <3> QED
      BY <2>0, <3>1, ContractReturns
  <2>4. CASE RunReader \/ RunStatusEvent \/ RunStatus
    <3>1. UNCHANGED <<adds, removes, starts, ends>>
      BY <2>4 DEF RunReader, RunStatusEvent, RunStatus
    <3>2. running'.kind = running.kind /\ running'.on = running.on
      BY <2>0, <2>4, HandledTasks
    <3> QED
      BY <3>1, <3>2, ContractStutters DEF NoLifeChanges, Handling
  <2>5. CASE \/ UserBegins \/ \E t \in Threads : Acquire(t)
             \/ \E status \in Statuses : Report(status)
             \/ SessionSets("realMaxBandwidth") \/ UNCHANGED vars
    <3>1. UNCHANGED <<adds, removes, running, starts, ends>>
      BY <2>5 DEF UserBegins, Begin, Acquire, Report, SessionSets, vars, dispatcherVars
    <3> QED
      BY <3>1, ContractStutters DEF NoLifeChanges, Handling
  <2> QED
    BY <2>1, <2>2, <2>3, <2>4, <2>5, Steps
<1> QED
  BY <1>1, <1>2, FacadeInductive, PTL DEF Spec, ImplementsContract, Contract!Spec
===============================================================================
