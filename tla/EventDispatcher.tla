---------------------------- MODULE EventDispatcher ----------------------------
(***************************************************************************)
(* events/EventDispatcher and events/EventsThread: listeners, the events    *)
(* dispatched to them, and the one thread that runs the queue of tasks, of   *)
(* which the calls of listeners are some.                                   *)
(*                                                                          *)
(* Each time it is added a listener gets a new ListenerWrapper, here the     *)
(* number of the addition.  The wrapper is in the map, and alive, until the  *)
(* listener is removed.  These operations run under the dispatcher's mutex;  *)
(* the module that calls them says when it is held.                          *)
(***************************************************************************)
EXTENDS Naturals, Sequences, FiniteSets, SequencesExt

CONSTANT Listeners
ASSUME ListenersAssumption == IsFiniteSet(Listeners)

VARIABLES
  adds, removes,   (* additions and removals of each listener           *)
  tasks,           (* EventsThread.tasks                                *)
  running,         (* the task in hand, or Idle                         *)
  starts, ends     (* onListenStart and onListenEnd calls of each one   *)

dispatcherVars == <<adds, removes, tasks, running, starts, ends>>

Task(kind, on, wrapper, what) == [kind |-> kind, on |-> on, wrapper |-> wrapper, what |-> what]
Idle == Task("idle", "nothing", 0, "nothing")
IsFor(task, l) == task.kind \in {"start", "event", "end"} /\ task.on = l

Alive(l, wrapper) == removes[l] < wrapper
InMap(l) == Alive(l, adds[l])
-----------------------------------------------------------------------------
(* addListener: nothing if it is there already. *)
AddListener(l) ==
  \/ /\ ~InMap(l)
     /\ adds' = [adds EXCEPT ![l] = @ + 1]
     /\ tasks' = Append(tasks, Task("start", l, adds[l] + 1, "start"))
     /\ UNCHANGED <<removes, running, starts, ends>>
  \/ InMap(l) /\ UNCHANGED dispatcherVars

(* The map is not asked for the listener. *)
RemoveListenerUnfound(l) ==
  /\ removes' = [removes EXCEPT ![l] = @ + 1]
  /\ tasks' = Append(tasks, Task("end", l, adds[l], "end"))
  /\ UNCHANGED <<adds, running, starts, ends>>

(* removeListener: nothing if it is not there. *)
RemoveListener(l) ==
  \/ /\ InMap(l)
     /\ removes' = [removes EXCEPT ![l] = @ + 1]
     /\ tasks' = Append(tasks, Task("end", l, adds[l], "end"))
     /\ UNCHANGED <<adds, running, starts, ends>>
  \/ ~InMap(l) /\ UNCHANGED dispatcherVars

(* No second event while a listener has one to handle. *)
DispatchUnlessPending(what) ==
  LET HasOne(l) == \E t \in ToSet(tasks) \cup {running} : IsFor(t, l) /\ t.kind = "event"
      Event(l) == Task("event", l, adds[l], what)
  IN  \E events \in SetToSeqs({Event(l) : l \in {k \in Listeners : InMap(k) /\ ~HasOne(k)}}) :
        tasks' = tasks \o events

(* dispatchEvent, to the listeners in the order of an unordered map. *)
Events(what) == SetToSeqs({Task("event", l, adds[l], what) : l \in {k \in Listeners : InMap(k)}})
DispatchEvent(what) == \E events \in Events(what) : tasks' = tasks \o events
DispatchThen(what, more) == \E events \in Events(what) : tasks' = tasks \o events \o more

(* The wrapper is not asked whether it is alive. *)
TakeUnasked ==
  LET task == Head(tasks)
  IN  /\ running = Idle /\ tasks # <<>>
      /\ tasks' = Tail(tasks)
      /\ running' = task
      /\ starts' = IF task.kind = "start" THEN [starts EXCEPT ![task.on] = @ + 1] ELSE starts
      /\ ends' = IF task.kind = "end" THEN [ends EXCEPT ![task.on] = @ + 1] ELSE ends
      /\ UNCHANGED <<adds, removes>>

(* EventsThread.worker takes a task; one that dispatchEventToListener made   *)
(* for an event is dropped if the wrapper is no longer alive.               *)
Take ==
  LET task == Head(tasks)
  IN  /\ running = Idle /\ tasks # <<>>
      /\ tasks' = Tail(tasks)
      /\ running' = IF task.kind = "event" /\ ~Alive(task.on, task.wrapper) THEN Idle ELSE task
      /\ starts' = IF task.kind = "start" THEN [starts EXCEPT ![task.on] = @ + 1] ELSE starts
      /\ ends' = IF task.kind = "end" THEN [ends EXCEPT ![task.on] = @ + 1] ELSE ends
      /\ UNCHANGED <<adds, removes>>

(* The task returns. *)
EndTask ==
  /\ running' = Idle
  /\ UNCHANGED <<adds, removes, tasks, starts, ends>>
-----------------------------------------------------------------------------
(* What the listeners are promised. *)
Contract == INSTANCE ListenerContract WITH
  busy <- IF running.kind = "event" THEN {running.on} ELSE {}
===============================================================================
