---------------------------- MODULE WorkerThreads ----------------------------
(***************************************************************************)
(* The two threads that work on a queue of tasks: EventsThread, which calls *)
(* the listeners, and CSJoinableExecutor, of the default factory.  They     *)
(* differ in how they wait and in how they end: the destructor of the       *)
(* former raises a flag without the lock and notifies once, join of the     *)
(* latter waits for the queue to be empty and holds the lock from then on.   *)
(*                                                                          *)
(* A section under the lock is one step, except where the thread goes to    *)
(* sleep inside it: the condition is tested, and only then does the thread  *)
(* begin to wait, the lock being held until it does.  Waits may also end     *)
(* for no reason.  running of the executor is read without the lock.         *)
(***************************************************************************)
EXTENDS Naturals, Sequences

CONSTANT MaxTasks       (* bound: tasks queued *)

ASSUME WorkerAssumption == MaxTasks \in Nat

VARIABLES
  owner,        (* "EventsThread" or "CSJoinableExecutor"                   *)
  queued,       (* tasks queued so far                                      *)
  jobs,         (* those that wait                                          *)
  running,      (* of the executor; for the events thread, ~stop            *)
  worker,       (* where the worker is                                      *)
  inHand,       (* the task it runs                                         *)
  ender,        (* where the thread is that destroys or joins               *)
  missed        (* has one of the two waited for what no longer comes       *)

workerVars == <<owner, queued, jobs, running, worker, inHand, ender, missed>>

WorkerTypeOK ==
  /\ owner \in {"EventsThread", "CSJoinableExecutor"}
  /\ queued \in 0..MaxTasks /\ jobs \in Seq(1..MaxTasks) /\ inHand \in Seq(1..MaxTasks)
  /\ running \in BOOLEAN /\ missed \in BOOLEAN
  /\ worker \in {"none", "test", "lock", "tested", "asleep", "running", "gone"}
  /\ ender \in {"none", "asleep", "woken", "stopped", "joining", "done"}

(* Who holds the lock between two steps. *)
LockIsFree == worker # "tested" /\ ~(owner = "CSJoinableExecutor" /\ ender = "joining")

Notified(place) == IF place = "asleep" THEN "lock" ELSE place
-----------------------------------------------------------------------------
(* EventsThread.queue and CSJoinableExecutor.execute; the latter starts the *)
(* worker when there is none.  Nobody queues once the destructor began. *)
QueueTask ==
  /\ queued < MaxTasks /\ LockIsFree /\ (owner = "EventsThread" => ender = "none")
  /\ queued' = queued + 1 /\ jobs' = Append(jobs, queued + 1)
  /\ running' = TRUE
  /\ worker' = IF running THEN Notified(worker) ELSE "test"
  /\ ender' = IF owner = "EventsThread" \/ ender \notin {"asleep", "done"} THEN ender
              ELSE IF ender = "asleep" THEN "woken" ELSE "none"
  /\ missed' = FALSE
  /\ UNCHANGED <<owner, inHand>>

(* while (!stop), while (running). *)
WorkerTests ==
  /\ worker = "test"
  /\ worker' = IF running THEN "lock" ELSE "gone"
  /\ UNCHANGED <<owner, queued, jobs, running, inHand, ender, missed>>

(* The newest task first. *)
TakeNewest ==
  /\ inHand' = <<jobs[Len(jobs)]>> /\ jobs' = SubSeq(jobs, 1, Len(jobs) - 1)
  /\ worker' = "running"
TakeTask ==
  /\ inHand' = <<Head(jobs)>> /\ jobs' = Tail(jobs)
  /\ worker' = "running"

(* With the lock: take a task, end, or go to sleep.  Nobody tells who waits *)
(* in join that the queue became empty. *)
WorkerLooks ==
  /\ worker = "lock" /\ LockIsFree
  /\ \/ jobs # <<>> /\ TakeTask
     \/ /\ jobs = <<>> /\ owner = "EventsThread" /\ ~running
        /\ worker' = "gone" /\ UNCHANGED <<jobs, inHand>>
     \/ /\ jobs = <<>> /\ (owner = "EventsThread" => running)
        /\ worker' = "tested" /\ UNCHANGED <<jobs, inHand>>
  /\ missed' = (missed \/ (ender = "asleep" /\ Len(jobs) = 1))
  /\ UNCHANGED <<owner, queued, running, ender>>
WorkerSleeps ==
  /\ worker = "tested"
  /\ worker' = "asleep"
  /\ UNCHANGED <<owner, queued, jobs, running, inHand, ender, missed>>

(* The wait of the executor ends after keepAliveTime at the latest; with    *)
(* nothing to do it tests the flag again.  A wait may end for no reason. *)
WaitEnds ==
  /\ worker = "asleep" /\ owner = "CSJoinableExecutor" /\ LockIsFree
  /\ worker' = IF jobs = <<>> THEN "test" ELSE "lock"
  /\ UNCHANGED <<owner, queued, jobs, running, inHand, ender, missed>>
WorkerAwakes ==
  /\ worker = "asleep" /\ LockIsFree
  /\ worker' = "lock"
  /\ UNCHANGED <<owner, queued, jobs, running, inHand, ender, missed>>

RunTask ==
  /\ worker = "running"
  /\ worker' = "test" /\ inHand' = <<>>
  /\ UNCHANGED <<owner, queued, jobs, running, ender, missed>>
-----------------------------------------------------------------------------
(* ~EventsThread, step by step and without the lock: a worker that tested   *)
(* and is not asleep yet misses the notification. *)
RaiseStop ==
  /\ owner = "EventsThread" /\ ender = "none"
  /\ running' = FALSE /\ ender' = "stopped"
  /\ UNCHANGED <<owner, queued, jobs, worker, inHand, missed>>
NobodyNotified ==
  /\ owner = "EventsThread" /\ ender = "stopped"
  /\ ender' = "joining" /\ missed' = (worker = "tested")
  /\ UNCHANGED <<owner, queued, jobs, running, worker, inHand>>
NotifyStop ==
  /\ owner = "EventsThread" /\ ender = "stopped"
  /\ ender' = "joining" /\ missed' = (worker = "tested")
  /\ worker' = Notified(worker)
  /\ UNCHANGED <<owner, queued, jobs, running, inHand>>

(* join of the executor: it waits for the queue to be empty, and then for a *)
(* worker that may need the lock join holds. *)
Join ==
  /\ owner = "CSJoinableExecutor" /\ ender \in {"none", "woken"} /\ LockIsFree
  /\ IF jobs = <<>>
     THEN /\ ender' = "joining" /\ running' = FALSE
          /\ missed' = (missed \/ worker \in {"lock", "asleep"})
     ELSE ender' = "asleep" /\ UNCHANGED <<running, missed>>
  /\ UNCHANGED <<owner, queued, jobs, worker, inHand>>
JoinAwakes ==
  /\ ender = "asleep"
  /\ ender' = "woken" /\ missed' = FALSE
  /\ UNCHANGED <<owner, queued, jobs, running, worker, inHand>>

(* The worker is gone: the call returns. *)
EndReturns ==
  /\ ender = "joining" /\ worker \in {"none", "gone"}
  /\ ender' = "done" /\ worker' = "none"
  /\ UNCHANGED <<owner, queued, jobs, running, inHand, missed>>
-----------------------------------------------------------------------------
(* The executor has no constructor of its own: its members start as zero.  *)
WorkerInit ==
  /\ \/ owner = "EventsThread" /\ running = TRUE /\ worker = "test"
     \/ owner = "CSJoinableExecutor" /\ running = FALSE /\ worker = "none"
  /\ queued = 0 /\ jobs = <<>> /\ inHand = <<>> /\ ender = "none" /\ missed = FALSE

WorkerStep == WorkerTests \/ WorkerLooks \/ WorkerSleeps \/ WaitEnds \/ RunTask
EnderStep == NotifyStop \/ EndReturns
JoinGoesOn == ender = "woken" /\ Join
WorkerNext == QueueTask \/ WorkerStep \/ WorkerAwakes \/ RaiseStop \/ NotifyStop \/ Join \/ JoinAwakes \/ EndReturns

(* Both threads go on, and tasks return.  A thread woken in join gets the   *)
(* lock in the end: an idle worker leaves it free for keepAliveTime. *)
WorkerFairness == WF_workerVars(WorkerStep) /\ WF_workerVars(EnderStep) /\ SF_workerVars(JoinGoesOn)
WorkerSpec == WorkerInit /\ [][WorkerNext]_workerVars /\ WorkerFairness
-----------------------------------------------------------------------------
(* Properties.                                                             *)

(* Both threads implement the queue of tasks, and the executor the patient  *)
(* one: join returns only after every task has run.                         *)
Queue == INSTANCE TaskQueue WITH
  waiting <- jobs, current <- inHand, patient <- owner = "CSJoinableExecutor", ended <- ender = "done"
ImplementsQueue == Queue!Spec

(* The destructor, and join, return, except after one of the three ways to  *)
(* wait for what no longer comes: the notification falls between the test   *)
(* and the wait, the queue becomes empty unannounced, or the worker needs   *)
(* the lock that join holds.                                                *)
EndsUnlessMissed == <>[](ender \in {"none", "done"} \/ missed)
=============================================================================
