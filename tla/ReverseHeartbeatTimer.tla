------------------------ MODULE ReverseHeartbeatTimer ------------------------
(***************************************************************************)
(* protocol/ReverseHeartbeatTimer: while a session is bound something must  *)
(* be sent to the server at least once per interval, a control request or,  *)
(* failing that, a heartbeat.                                               *)
(*                                                                          *)
(* The calls come from the session thread.  Each scheduled task sleeps on a *)
(* detached thread of its own and then works on the timer from there: it    *)
(* first compares its phase with the current one, and schedules again in a   *)
(* second step, without a lock, so the user's change of the interval may    *)
(* come in between.  A task ends by submitting at most one other, so it is   *)
(* named after the call that started its chain: 0 for the bind, n for the   *)
(* n-th change of the interval.                                             *)
(*                                                                          *)
(* Time is counted in ticks.  A task whose sleep is over runs before the     *)
(* next tick: the threads are late by less than that.                        *)
(***************************************************************************)
EXTENDS Integers

CONSTANTS
  Intervals,    (* values of the interval, in ticks; 0 disables heartbeats *)
  MaxChanges,   (* bound: changes of the interval                          *)
  Longest       (* bound: time that is told apart                          *)

ASSUME TimerAssumption ==
  /\ Intervals \in SUBSET Nat /\ 0 \in Intervals /\ MaxChanges \in Nat
  /\ Longest \in Nat /\ \A i \in Intervals : i < Longest

VARIABLES
  maxIntervalMs,
  currentIntervalMs,
  timerClosed,
  currentPhase,
  timerBound,     (* bindSent                                               *)
  elapsed,        (* since lastSentTime, counted up to a bound              *)
  tasks,          (* the one task of each chain                             *)
  silence         (* since anything was sent at all, heartbeats included    *)

timing    == <<maxIntervalMs, currentIntervalMs, currentPhase>>
timerVars == <<timing, timerClosed, timerBound, elapsed, tasks, silence>>

Chains  == 0..MaxChanges
NoTask  == [at |-> "gone", phase |-> 0, left |-> 0]

TimerTypeOK ==
  /\ maxIntervalMs \in Intervals /\ currentIntervalMs \in Intervals
  /\ timerClosed \in BOOLEAN /\ timerBound \in BOOLEAN
  /\ currentPhase \in Chains
  /\ elapsed \in 0..Longest /\ silence \in 0..Longest
  /\ tasks \in [Chains -> [at : {"gone", "asleep", "checked"}, phase : Chains, left : 0..Longest]]
-----------------------------------------------------------------------------
(* schedule for an interval and a phase, with submitTask and sendHeartbeat: *)
(* the task of the chain is replaced.  A heartbeat leaves lastSentTime.      *)
Schedule(chain, interval, phase) ==
  LET disableHeartbeats == interval = 0
      timeLeftMs == interval - elapsed
      Submit(left) == tasks' = [tasks EXCEPT ![chain] = [at |-> "asleep", phase |-> phase, left |-> left]]
  IN  \/ /\ disableHeartbeats \/ timerClosed
         /\ tasks' = [tasks EXCEPT ![chain] = NoTask]
         /\ UNCHANGED silence
      \/ /\ ~disableHeartbeats /\ ~timerClosed /\ timeLeftMs <= 0
         /\ silence' = 0
         /\ Submit(interval)
      \/ /\ ~disableHeartbeats /\ ~timerClosed /\ timeLeftMs > 0
         /\ Submit(timeLeftMs)
         /\ UNCHANGED silence

(* setCurrentInterval: the smaller of what the user and the server ask for. *)
NewInterval(interval) ==
  IF interval = 0 THEN maxIntervalMs
  ELSE IF maxIntervalMs = 0 \/ interval < maxIntervalMs THEN interval ELSE maxIntervalMs

(* The old task is told to stop and the new interval waits for the next. *)
OnChangeIntervalLater(interval) ==
  /\ currentPhase < MaxChanges
  /\ NewInterval(interval) # currentIntervalMs
  /\ currentIntervalMs' = NewInterval(interval)
  /\ currentPhase' = IF timerBound THEN currentPhase + 1 ELSE currentPhase
  /\ UNCHANGED <<maxIntervalMs, timerClosed, timerBound, elapsed, tasks, silence>>

(* The old task is not told to stop. *)
OnChangeIntervalInPhase(interval) ==
  /\ currentPhase < MaxChanges
  /\ NewInterval(interval) # currentIntervalMs
  /\ currentIntervalMs' = NewInterval(interval)
  /\ IF timerBound
     THEN Schedule(currentPhase + 1, currentIntervalMs', currentPhase)
     ELSE UNCHANGED <<tasks, silence>>
  /\ UNCHANGED <<maxIntervalMs, currentPhase, timerClosed, timerBound, elapsed>>

(* onChangeInterval.  With the same interval nothing happens. *)
OnChangeInterval(interval) ==
  /\ currentPhase < MaxChanges
  /\ NewInterval(interval) # currentIntervalMs
  /\ currentIntervalMs' = NewInterval(interval)
  /\ IF timerBound
     THEN /\ currentPhase' = currentPhase + 1
          /\ Schedule(currentPhase', currentIntervalMs', currentPhase')
     ELSE UNCHANGED <<currentPhase, tasks, silence>>
  /\ UNCHANGED <<maxIntervalMs, timerClosed, timerBound, elapsed>>

(* onBindSession over HTTP: a bind there is no control request.  The timer   *)
(* starts with the first of the session's binds, and what counts as silence *)
(* with it.  SessionWS sends no heartbeats.                                  *)
OnBindSession ==
  /\ ~timerBound
  /\ timerBound' = TRUE
  /\ Schedule(0, currentIntervalMs, currentPhase)
  /\ UNCHANGED <<timing, timerClosed, elapsed>>

(* onControlRequest. *)
OnControlRequest ==
  /\ elapsed' = 0 /\ silence' = 0
  /\ UNCHANGED <<timing, timerClosed, timerBound, tasks>>

(* onClose. *)
OnClose ==
  /\ timerClosed' = TRUE
  /\ UNCHANGED <<timing, timerBound, elapsed, tasks, silence>>
-----------------------------------------------------------------------------
(* The task of a chain, on its thread: the test of the phase ...            *)
CheckPhase(chain) ==
  /\ tasks[chain].at = "asleep" /\ tasks[chain].left = 0
  /\ tasks' = [tasks EXCEPT ![chain] =
       IF tasks[chain].phase < currentPhase THEN NoTask ELSE [@ EXCEPT !.at = "checked"]]
  /\ UNCHANGED <<timing, timerClosed, timerBound, elapsed, silence>>

(* ... and the call of schedule, which reads the timer again.               *)
Reschedule(chain) ==
  /\ tasks[chain].at = "checked"
  /\ Schedule(chain, currentIntervalMs, currentPhase)
  /\ UNCHANGED <<timing, timerClosed, timerBound, elapsed>>

Due(task) == task.at = "checked" \/ (task.at = "asleep" /\ task.left = 0)
AtMost(n) == IF n > Longest THEN Longest ELSE n
Tick ==
  /\ \A c \in Chains : ~Due(tasks[c])
  /\ elapsed' = AtMost(elapsed + 1)
  /\ silence' = IF timerBound THEN AtMost(silence + 1) ELSE 0
  /\ tasks' = [c \in Chains |-> IF tasks[c].at = "asleep" THEN [tasks[c] EXCEPT !.left = @ - 1] ELSE tasks[c]]
  /\ UNCHANGED <<timing, timerClosed, timerBound>>
-----------------------------------------------------------------------------
TimerInit ==
  /\ maxIntervalMs \in Intervals /\ currentIntervalMs = maxIntervalMs
  /\ timerClosed = FALSE /\ timerBound = FALSE /\ currentPhase = 0
  /\ elapsed = 0 /\ silence = 0
  /\ tasks = [c \in Chains |-> NoTask]

TimerNext ==
  \/ OnBindSession \/ OnControlRequest \/ OnClose \/ Tick
  \/ \E interval \in Intervals : OnChangeInterval(interval)
  \/ \E c \in Chains : CheckPhase(c) \/ Reschedule(c)

TimerSpec == TimerInit /\ [][TimerNext]_timerVars
-----------------------------------------------------------------------------
(* Properties.                                                             *)

(* The server of a bound session never waits longer than the interval,      *)
(* whatever changes of it the user made and however they met the tasks.     *)
HeartbeatInTime ==
  timerBound /\ ~timerClosed /\ currentIntervalMs # 0 => silence <= currentIntervalMs

(* A second task of the current phase only ever comes from a task that had  *)
(* compared its phase before the change and schedules after it; the class   *)
(* comment allows no second task at all.                                    *)
OfPhase(task, phase) == task.at # "gone" /\ task.phase = phase
SecondTaskByRace ==
  [][\A c, d \in Chains :
       c # d /\ OfPhase(tasks[d]', currentPhase') /\ OfPhase(tasks[c]', currentPhase')
         /\ ~OfPhase(tasks[c], currentPhase') =>
           tasks[c].at = "checked" /\ tasks[c].phase < currentPhase]_timerVars
=============================================================================
