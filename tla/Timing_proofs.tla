---------------------------- MODULE Timing_proofs ----------------------------
(****************************************************************************)
(* For any intervals and delays and any number of changes: heartbeats come in*)
(* time, retries are paced, a stream is called slow as measured; the threads*)
(* that work on queues are a queue, and a session goes to one server.       *)
(****************************************************************************)
EXTENDS ReverseHeartbeatTimer, RetryPace, SlowingHandler, WorkerThreads, SessionAddress,
        DataLemmas

-----------------------------------------------------------------------------
(* Heartbeats. *)

TaskStates == [at : {"gone", "asleep", "checked"}, phase : Chains, left : 0..Longest]

(* Something was sent no later than lastSentTime says. *)
SilenceIsRecent == silence <= elapsed

(* No task is of a phase to come, and none is there before the bind. *)
TasksArePast ==
  \A c \in Chains : tasks[c].at # "gone" => timerBound /\ tasks[c].phase <= currentPhase

(* A task to be run at once has slept enough. *)
CheckedHaveSlept == \A c \in Chains : tasks[c].at = "checked" => tasks[c].left = 0

(* While heartbeats are due, a task of the current phase wakes in time.     *)
Wakes(c) == OfPhase(tasks[c], currentPhase) /\ silence + tasks[c].left <= currentIntervalMs
SomeTaskWakes ==
  timerBound /\ ~timerClosed /\ currentIntervalMs # 0 => \E c \in Chains : Wakes(c)

TimerIInv == TimerTypeOK /\ SilenceIsRecent /\ TasksArePast /\ CheckedHaveSlept /\ SomeTaskWakes

(* What SecondTaskByRace says of one step. *)
ComesByRace ==
  \A c, d \in Chains :
    c # d /\ OfPhase(tasks[d]', currentPhase') /\ OfPhase(tasks[c]', currentPhase')
      /\ ~OfPhase(tasks[c], currentPhase') =>
        tasks[c].at = "checked" /\ tasks[c].phase < currentPhase
-----------------------------------------------------------------------------
(* The types of what is not changed. *)
LEMMA Types ==
  ASSUME TimerTypeOK
  PROVE  /\ currentIntervalMs \in Nat /\ maxIntervalMs \in Nat /\ currentPhase \in Nat
         /\ elapsed \in Nat /\ silence \in Nat /\ elapsed <= Longest /\ silence <= Longest
         /\ tasks \in [Chains -> TaskStates]
         /\ \A c \in Chains : tasks[c] \in TaskStates /\ tasks[c].left \in Nat /\ tasks[c].phase \in Nat
<1>1. /\ currentIntervalMs \in Intervals /\ maxIntervalMs \in Intervals /\ currentPhase \in Chains
      /\ elapsed \in 0..Longest /\ silence \in 0..Longest /\ tasks \in [Chains -> TaskStates]
  BY DEF TimerTypeOK, TaskStates
<1>2. Intervals \subseteq Nat /\ Chains \subseteq Nat /\ Longest \in Nat
  BY TimerAssumption DEF Chains
<1>3. ASSUME NEW c \in Chains
      PROVE  tasks[c] \in TaskStates /\ tasks[c].left \in Nat /\ tasks[c].phase \in Nat
  <2>1. tasks[c] \in TaskStates
    BY <1>1
  <2>2. tasks[c].left \in 0..Longest /\ tasks[c].phase \in Chains
    BY <2>1 DEF TaskStates
  <2> QED
    BY <1>2, <2>1, <2>2
<1> QED
  BY <1>1, <1>2, <1>3

(* The new interval is one of the intervals. *)
LEMMA NewIntervalType ==
  ASSUME TimerTypeOK, NEW interval \in Intervals
  PROVE  NewInterval(interval) \in Intervals
BY DEF TimerTypeOK, NewInterval

(* What a call of schedule leaves: no task where none is due, and otherwise  *)
(* one that wakes before the interval is over. *)
LEMMA ScheduleStep ==
  ASSUME TimerTypeOK, SilenceIsRecent,
         NEW chain \in Chains, NEW interval \in Intervals, NEW phase \in Chains,
         Schedule(chain, interval, phase)
  PROVE  \E t \in TaskStates :
           /\ tasks' = [tasks EXCEPT ![chain] = t]
           /\ silence' \in {0, silence}
           /\ \/ t.at = "gone" /\ (interval = 0 \/ timerClosed)
              \/ t.at = "asleep" /\ t.phase = phase /\ silence' + t.left <= interval
<1>1. /\ interval \in Nat /\ interval < Longest /\ Longest \in Nat /\ 0 \in Chains
      /\ elapsed \in Nat /\ silence \in Nat /\ silence <= elapsed
  BY Types, TimerAssumption DEF SilenceIsRecent, Chains
<1>2. CASE (interval = 0 \/ timerClosed) /\ tasks' = [tasks EXCEPT ![chain] = NoTask] /\ UNCHANGED silence
  <2>1. NoTask \in TaskStates /\ NoTask.at = "gone"
    BY <1>1 DEF NoTask, TaskStates
  <2> QED
    BY <1>2, <2>1
<1>3. CASE interval - elapsed <= 0 /\ silence' = 0
           /\ tasks' = [tasks EXCEPT ![chain] = [at |-> "asleep", phase |-> phase, left |-> interval]]
  <2> DEFINE t == [at |-> "asleep", phase |-> phase, left |-> interval]
  <2>1. t \in TaskStates /\ t.at = "asleep" /\ t.phase = phase /\ t.left = interval
    BY <1>1 DEF TaskStates
  <2>2. silence' + t.left <= interval
    BY <1>1, <1>3, <2>1
  <2> QED
    BY <1>3, <2>1, <2>2
<1>4. CASE interval - elapsed > 0 /\ UNCHANGED silence
           /\ tasks' = [tasks EXCEPT ![chain] = [at |-> "asleep", phase |-> phase, left |-> interval - elapsed]]
  <2> DEFINE t == [at |-> "asleep", phase |-> phase, left |-> interval - elapsed]
  <2>1. t \in TaskStates /\ t.at = "asleep" /\ t.phase = phase /\ t.left = interval - elapsed
    BY <1>1, <1>4 DEF TaskStates
  <2>2. silence' + t.left <= interval
    BY <1>1, <1>4, <2>1
  <2> QED
    BY <1>4, <2>1, <2>2
<1> QED
  BY <1>2, <1>3, <1>4 DEF Schedule

(* A call of schedule for the interval and the phase that are current from   *)
(* then on keeps the invariant: its task, if one is due, wakes in time.     *)
LEMMA ScheduleKeeps ==
  ASSUME TimerIInv, NEW chain \in Chains,
         Schedule(chain, currentIntervalMs', currentPhase'),
         timerBound', currentIntervalMs' \in Intervals, currentPhase' \in Chains,
         currentPhase <= currentPhase', UNCHANGED <<maxIntervalMs, timerClosed, elapsed>>
  PROVE  TimerIInv'
<1>1. PICK t \in TaskStates :
        /\ tasks' = [tasks EXCEPT ![chain] = t]
        /\ silence' \in {0, silence}
        /\ \/ t.at = "gone" /\ (currentIntervalMs' = 0 \/ timerClosed)
           \/ t.at = "asleep" /\ t.phase = currentPhase' /\ silence' + t.left <= currentIntervalMs'
  BY ScheduleStep DEF TimerIInv
<1>2. /\ tasks \in [Chains -> TaskStates] /\ silence \in Nat /\ elapsed \in Nat /\ silence <= Longest
      /\ \A c \in Chains : tasks[c].phase \in Nat
  BY Types DEF TimerIInv
<1>3. tasks' \in [Chains -> TaskStates] /\ tasks'[chain] = t
      /\ \A c \in Chains : c # chain => tasks'[c] = tasks[c]
  BY <1>1, <1>2
<1>4. timerBound' = TRUE
  BY DEF TimerIInv, TimerTypeOK
<1>5. TimerTypeOK'
  BY <1>1, <1>2, <1>3, TimerAssumption DEF TimerIInv, TimerTypeOK, TaskStates
<1>6. SilenceIsRecent'
  BY <1>1, <1>2 DEF TimerIInv, SilenceIsRecent
<1>7. TasksArePast'
  <2> SUFFICES ASSUME NEW c \in Chains, tasks'[c].at # "gone"
               PROVE  tasks'[c].phase <= currentPhase'
    BY DEF TasksArePast
  <2>0. currentPhase \in Nat /\ currentPhase' \in Nat
    BY Types, TimerAssumption DEF TimerIInv, Chains
  <2>1. CASE c = chain
    BY <1>1, <1>3, <2>0, <2>1
  <2>2. CASE c # chain
    BY <1>2, <1>3, <2>0, <2>2 DEF TimerIInv, TasksArePast
  <2> QED
    BY <2>1, <2>2
<1>8. CheckedHaveSlept'
  BY <1>1, <1>3 DEF TimerIInv, CheckedHaveSlept
<1>9. SomeTaskWakes'
  <2> SUFFICES ASSUME ~timerClosed, currentIntervalMs' # 0
               PROVE  Wakes(chain)'
    BY DEF SomeTaskWakes
  <2> QED
    BY <1>1, <1>3 DEF Wakes, OfPhase
<1> QED
  BY <1>5, <1>6, <1>7, <1>8, <1>9 DEF TimerIInv
-----------------------------------------------------------------------------
(* A change of the interval. *)
LEMMA OnChangeIntervalStep ==
  ASSUME TimerIInv, NEW interval \in Intervals, OnChangeInterval(interval)
  PROVE  TimerIInv' /\ ComesByRace
<1>1. currentPhase \in Chains /\ currentPhase \in Nat /\ timerBound \in BOOLEAN
      /\ NewInterval(interval) \in Intervals
  BY Types, NewIntervalType DEF TimerIInv, TimerTypeOK
<1>2. CASE timerBound
  <2>1. /\ currentPhase' = currentPhase + 1 /\ currentPhase' \in Chains /\ currentPhase <= currentPhase'
        /\ currentIntervalMs' \in Intervals /\ timerBound'
        /\ Schedule(currentPhase', currentIntervalMs', currentPhase')
        /\ UNCHANGED <<maxIntervalMs, timerClosed, elapsed>>
    BY <1>1, <1>2, TimerAssumption DEF OnChangeInterval, Chains
  <2>2. TimerIInv'
    BY <2>1, ScheduleKeeps
  <2>3. ComesByRace
    <3>1. PICK t \in TaskStates : tasks' = [tasks EXCEPT ![currentPhase'] = t]
      BY <2>1, ScheduleStep DEF TimerIInv
    <3>2. ASSUME NEW c \in Chains, c # currentPhase', OfPhase(tasks'[c], currentPhase')
          PROVE  FALSE
      <4>1. tasks'[c] = tasks[c] /\ tasks[c].phase \in Nat
        BY <3>1, <3>2, Types DEF TimerIInv, TimerTypeOK
      <4>2. tasks[c].at # "gone" => tasks[c].phase <= currentPhase
        BY DEF TimerIInv, TasksArePast
      <4>3. tasks[c].at # "gone" /\ tasks[c].phase = currentPhase'
        BY <3>2, <4>1 DEF OfPhase
      <4> QED
        BY <1>1, <2>1, <4>1, <4>2, <4>3
    <3> QED
      BY <3>2 DEF ComesByRace
  <2> QED
    BY <2>2, <2>3
<1>3. CASE ~timerBound
  <2>1. /\ UNCHANGED <<currentPhase, tasks, silence, maxIntervalMs, timerClosed, timerBound, elapsed>>
        /\ currentIntervalMs' \in Intervals
    BY <1>1, <1>3 DEF OnChangeInterval
  <2>2. TimerIInv'
    BY <1>3, <2>1
    DEF TimerIInv, TimerTypeOK, SilenceIsRecent, TasksArePast, CheckedHaveSlept, SomeTaskWakes
  <2>3. ComesByRace
    BY <2>1 DEF ComesByRace
  <2> QED
    BY <2>2, <2>3
<1> QED
  BY <1>2, <1>3

(* The first bind starts the one chain. *)
LEMMA OnBindSessionStep ==
  ASSUME TimerIInv, OnBindSession
  PROVE  TimerIInv' /\ ComesByRace
<1>1. /\ 0 \in Chains /\ currentPhase \in Chains /\ currentPhase \in Nat /\ currentIntervalMs \in Intervals
  BY Types, TimerAssumption DEF TimerIInv, TimerTypeOK, Chains
<1>2. /\ UNCHANGED <<maxIntervalMs, currentIntervalMs, currentPhase, timerClosed, elapsed>>
      /\ timerBound' /\ Schedule(0, currentIntervalMs, currentPhase)
  BY DEF OnBindSession, timing
<1>3. TimerIInv'
  BY <1>1, <1>2, ScheduleKeeps
<1>4. PICK t \in TaskStates : tasks' = [tasks EXCEPT ![0] = t]
  BY <1>1, <1>2, ScheduleStep DEF TimerIInv
<1>5. \A c \in Chains : c # 0 => tasks'[c].at = "gone"
  <2> SUFFICES ASSUME NEW c \in Chains, c # 0
               PROVE  tasks'[c].at = "gone"
    OBVIOUS
  <2>1. tasks'[c] = tasks[c]
    BY <1>4 DEF TimerIInv, TimerTypeOK
  <2> QED
    BY <2>1 DEF OnBindSession, TimerIInv, TasksArePast
<1> QED
  BY <1>3, <1>5 DEF ComesByRace, OfPhase

(* What is sent, or the end of the session. *)
LEMMA CallStep ==
  ASSUME TimerIInv, OnControlRequest \/ OnClose
  PROVE  TimerIInv' /\ ComesByRace
<1>1. UNCHANGED <<maxIntervalMs, currentIntervalMs, currentPhase, timerBound, tasks>>
  BY DEF OnControlRequest, OnClose, timing
<1>2. ComesByRace
  BY <1>1 DEF ComesByRace
<1>3. CASE OnControlRequest
  <2>1. \A c \in Chains : Wakes(c) => Wakes(c)'
    BY <1>1, <1>3, Types DEF OnControlRequest, TimerIInv, Wakes, OfPhase
  <2> QED
    BY <1>1, <1>2, <1>3, <2>1, TimerAssumption
    DEF OnControlRequest, TimerIInv, TimerTypeOK, SilenceIsRecent, TasksArePast, CheckedHaveSlept, SomeTaskWakes
<1>4. CASE OnClose
  BY <1>1, <1>2, <1>4
  DEF OnClose, TimerIInv, TimerTypeOK, SilenceIsRecent, TasksArePast, CheckedHaveSlept, SomeTaskWakes
<1> QED
  BY <1>3, <1>4
-----------------------------------------------------------------------------
(* A task wakes: one of the current phase goes on. *)
LEMMA CheckPhaseStep ==
  ASSUME TimerIInv, NEW c \in Chains, CheckPhase(c)
  PROVE  TimerIInv' /\ ComesByRace
<1>1. UNCHANGED <<maxIntervalMs, currentIntervalMs, currentPhase, timerClosed, timerBound, elapsed, silence>>
  BY DEF CheckPhase, timing
<1>2. /\ tasks \in [Chains -> TaskStates] /\ NoTask \in TaskStates /\ NoTask.at = "gone"
      /\ currentPhase \in Nat /\ tasks[c].phase \in Nat /\ tasks[c].at = "asleep" /\ tasks[c].left = 0
  BY Types, TimerAssumption DEF CheckPhase, TimerIInv, NoTask, TaskStates, Chains
<1>3. \A d \in Chains : d # c => tasks'[d] = tasks[d]
  BY <1>2 DEF CheckPhase
<1>4. CASE tasks[c].phase < currentPhase
  <2>1. tasks' \in [Chains -> TaskStates] /\ tasks'[c] = NoTask
    BY <1>2, <1>4 DEF CheckPhase
  <2>2. \A d \in Chains : Wakes(d) => d # c
    BY <1>2, <1>4 DEF Wakes, OfPhase
  <2>3. \A d \in Chains : Wakes(d) => Wakes(d)'
    BY <1>1, <1>3, <2>2 DEF Wakes, OfPhase
  <2>4. TimerIInv'
    BY <1>1, <1>2, <1>3, <2>1, <2>3
    DEF TimerIInv, TimerTypeOK, TaskStates, SilenceIsRecent, TasksArePast, CheckedHaveSlept, SomeTaskWakes
  <2>5. ComesByRace
    BY <1>1, <1>2, <1>3, <2>1 DEF ComesByRace, OfPhase
  <2> QED
    BY <2>4, <2>5
<1>5. CASE ~(tasks[c].phase < currentPhase)
  <2>1. tasks' = [tasks EXCEPT ![c] = [tasks[c] EXCEPT !.at = "checked"]]
    BY <1>2, <1>5 DEF CheckPhase
  <2>2. tasks[c] \in TaskStates
    BY <1>2
  <2>3. /\ [tasks[c] EXCEPT !.at = "checked"] \in TaskStates
        /\ tasks'[c].at = "checked" /\ tasks'[c].phase = tasks[c].phase /\ tasks'[c].left = tasks[c].left
    BY <1>2, <2>1, <2>2 DEF TaskStates
  <2>4. tasks' \in [Chains -> TaskStates]
    BY <1>2, <2>1, <2>3
  <2>5. \A d \in Chains : Wakes(d) => Wakes(d)'
    BY <1>1, <1>3, <2>3 DEF Wakes, OfPhase
  <2>6. TimerIInv'
    BY <1>1, <1>2, <1>3, <2>3, <2>4, <2>5
    DEF TimerIInv, TimerTypeOK, TaskStates, SilenceIsRecent, TasksArePast, CheckedHaveSlept, SomeTaskWakes
  <2>7. ComesByRace
    BY <1>1, <1>2, <1>3, <2>3 DEF ComesByRace, OfPhase
  <2> QED
    BY <2>6, <2>7
<1> QED
  BY <1>4, <1>5

(* A task goes on, whatever the phase has become: one that is late joins the *)
(* current chain. *)
LEMMA RescheduleStep ==
  ASSUME TimerIInv, NEW c \in Chains, Reschedule(c)
  PROVE  TimerIInv' /\ ComesByRace
<1>1. /\ UNCHANGED <<maxIntervalMs, currentIntervalMs, currentPhase, timerClosed, timerBound, elapsed>>
      /\ tasks[c].at = "checked" /\ Schedule(c, currentIntervalMs, currentPhase)
  BY DEF Reschedule, timing
<1>2. /\ currentPhase \in Chains /\ currentPhase \in Nat /\ currentIntervalMs \in Intervals
      /\ timerBound /\ tasks[c].phase <= currentPhase /\ tasks[c].phase \in Nat
  BY <1>1, Types DEF TimerIInv, TimerTypeOK, TasksArePast
<1>3. TimerIInv'
  <2>1. /\ Schedule(c, currentIntervalMs', currentPhase') /\ timerBound'
        /\ currentIntervalMs' \in Intervals /\ currentPhase' \in Chains /\ currentPhase <= currentPhase'
    BY <1>1, <1>2
  <2> QED
    BY <1>1, <2>1, ScheduleKeeps
<1>4. PICK t \in TaskStates : tasks' = [tasks EXCEPT ![c] = t]
  BY <1>1, <1>2, ScheduleStep DEF TimerIInv
<1>5. \A d \in Chains : d # c => tasks'[d] = tasks[d]
  BY <1>4 DEF TimerIInv, TimerTypeOK
<1> QED
  BY <1>1, <1>2, <1>3, <1>5 DEF ComesByRace, OfPhase

(* Time passes only while nobody has to run. *)
LEMMA TickStep ==
  ASSUME TimerIInv, Tick
  PROVE  TimerIInv' /\ ComesByRace
<1>1. /\ UNCHANGED <<maxIntervalMs, currentIntervalMs, currentPhase, timerClosed, timerBound>>
      /\ timerBound \in BOOLEAN /\ Longest \in Nat
      /\ elapsed \in Nat /\ silence \in Nat /\ currentIntervalMs \in Nat
      /\ tasks \in [Chains -> TaskStates] /\ SilenceIsRecent
  BY Types, TimerAssumption DEF Tick, timing, TimerIInv, TimerTypeOK
<1>2. /\ elapsed' \in 0..Longest /\ silence' \in 0..Longest
      /\ silence' <= elapsed' /\ silence' <= silence + 1
  <2>1. elapsed' = AtMost(elapsed + 1) /\ (silence' = AtMost(silence + 1) \/ silence' = 0)
    BY DEF Tick
  <2> QED
    BY <1>1, <2>1 DEF AtMost, SilenceIsRecent
<1>3. ASSUME NEW c \in Chains
      PROVE  /\ tasks'[c] \in TaskStates
             /\ tasks'[c].at = tasks[c].at /\ tasks'[c].phase = tasks[c].phase
             /\ tasks[c].at # "checked"
             /\ tasks[c].at = "asleep" => tasks'[c].left = tasks[c].left - 1
  <2>1. tasks[c] \in TaskStates /\ ~Due(tasks[c])
        /\ tasks'[c] = IF tasks[c].at = "asleep" THEN [tasks[c] EXCEPT !.left = @ - 1] ELSE tasks[c]
    BY <1>1 DEF Tick
  <2>2. CASE tasks[c].at = "asleep"
    <3>1. tasks[c].left \in 0..Longest /\ tasks[c].left # 0
      BY <2>1, <2>2 DEF Due, TaskStates
    <3>2. tasks[c].left - 1 \in 0..Longest
      BY <1>1, <3>1
    <3> QED
      BY <2>1, <2>2, <3>2 DEF TaskStates
  <2>3. CASE tasks[c].at # "asleep"
    BY <2>1, <2>3 DEF Due
  <2> QED
    BY <2>2, <2>3
<1>4. tasks' \in [Chains -> TaskStates]
  <2>1. tasks' = [c \in Chains |-> tasks'[c]]
    BY DEF Tick
  <2> QED
    BY <1>3, <2>1
<1>5. ASSUME NEW c \in Chains, Wakes(c)
      PROVE  Wakes(c)'
  <2>1. tasks[c].at = "asleep" /\ tasks[c].left \in Nat
    BY <1>1, <1>3, <1>5 DEF Wakes, OfPhase, TaskStates
  <2> QED
    BY <1>1, <1>2, <1>3, <1>5, <2>1 DEF Wakes, OfPhase
<1>6. TimerTypeOK'
  BY <1>1, <1>2, <1>4 DEF TimerIInv, TimerTypeOK, TaskStates
<1>7. SilenceIsRecent' /\ TasksArePast' /\ CheckedHaveSlept' /\ SomeTaskWakes'
  BY <1>1, <1>2, <1>3, <1>5 DEF TimerIInv, SilenceIsRecent, TasksArePast, CheckedHaveSlept, SomeTaskWakes
<1>8. ComesByRace
  BY <1>1, <1>3 DEF ComesByRace, OfPhase
<1> QED
  BY <1>6, <1>7, <1>8 DEF TimerIInv
-----------------------------------------------------------------------------
(* There is no task before the bind. *)
LEMMA TimerInitStep ==
  ASSUME TimerInit
  PROVE  TimerIInv
<1>1. 0 \in Chains /\ 0 \in 0..Longest /\ NoTask \in TaskStates /\ NoTask.at = "gone"
  BY TimerAssumption DEF Chains, NoTask, TaskStates
<1>2. TimerTypeOK
  BY <1>1 DEF TimerInit, TimerTypeOK, TaskStates
<1> QED
  BY <1>1, <1>2 DEF TimerInit, TimerIInv, SilenceIsRecent, TasksArePast, CheckedHaveSlept, SomeTaskWakes

(* Every step keeps the invariant, and adds a task only as it may. *)
LEMMA TimerNextStep ==
  ASSUME TimerIInv, [TimerNext]_timerVars
  PROVE  TimerIInv' /\ ComesByRace
<1>1. CASE UNCHANGED timerVars
  <2>1. TimerIInv'
    BY <1>1
    DEF timerVars, timing, TimerIInv, TimerTypeOK, SilenceIsRecent, TasksArePast, CheckedHaveSlept, SomeTaskWakes,
        Wakes, OfPhase
  <2>2. ComesByRace
    BY <1>1 DEF timerVars, timing, ComesByRace
  <2> QED
    BY <2>1, <2>2
<1>2. CASE TimerNext
  BY <1>2, OnBindSessionStep, CallStep, TickStep, OnChangeIntervalStep, CheckPhaseStep, RescheduleStep DEF TimerNext
<1> QED
  BY <1>1, <1>2

(* While heartbeats are due, a task of the current phase wakes before the   *)
(* interval is over; no task is of a phase to come. *)
THEOREM TimerInductive == TimerSpec => []TimerIInv
<1>1. TimerIInv /\ [TimerNext]_timerVars => TimerIInv'
  BY TimerNextStep
<1>2. TimerInit => TimerIInv
  BY TimerInitStep
<1> QED
  BY <1>1, <1>2, PTL DEF TimerSpec

(* The server of a bound session never waits longer than the interval,      *)
(* whatever changes of it the user made and however they met the tasks.     *)
THEOREM HeartbeatsAreInTime == TimerSpec => []HeartbeatInTime
<1>1. TimerIInv => HeartbeatInTime
  BY Types DEF TimerIInv, SomeTaskWakes, Wakes, HeartbeatInTime
<1> QED
  BY <1>1, TimerInductive, PTL

(* A second task of the current phase only ever comes from a task that had  *)
(* compared its phase before the change and schedules after it.             *)
THEOREM OnlyTheRaceAddsTasks == TimerSpec => SecondTaskByRace
<1>1. TimerIInv /\ [TimerNext]_timerVars => ComesByRace
  BY TimerNextStep
<1>2. [ComesByRace]_timerVars <=>
      [\A c, d \in Chains :
         c # d /\ OfPhase(tasks[d]', currentPhase') /\ OfPhase(tasks[c]', currentPhase')
           /\ ~OfPhase(tasks[c], currentPhase') =>
             tasks[c].at = "checked" /\ tasks[c].phase < currentPhase]_timerVars
  BY DEF ComesByRace
<1> QED
  BY <1>1, <1>2, TimerInductive, PTL DEF TimerSpec, SecondTaskByRace

(* The types of the timer. *)
LEMMA TimerTyped == TimerSpec => []TimerTypeOK
<1>1. TimerIInv => TimerTypeOK
  BY DEF TimerIInv
<1> QED
  BY <1>1, TimerInductive, PTL

-----------------------------------------------------------------------------
(* The pace of retries. *)

(* A counter whose delay is the one that its attempts call for. *)
IsPaced(r) ==
  /\ r \in [min : Positive, max : 1..Highest, current : 1..Highest, attempt : Nat]
  /\ r.min <= r.max
  /\ r.current = CalledFor(r)
PaceTypes ==
  /\ retry.attempt <= MaxAttempts
  /\ pacePhase \in {"SLEEP", "CREATING", "CREATED"}
  /\ age \in 0..MaxAge /\ timeLeft \in 0..Highest
  /\ failing \in BOOLEAN /\ leastDelay \in 0..Highest
WaitsLongEnough ==
  /\ leastDelay <= retry.current
  /\ failing => timeLeft + age >= leastDelay
PaceIInv == IsPaced(retry) /\ PaceTypes /\ WaitsLongEnough

(* The limits of what the application may set. *)
LEMMA HighestProperty ==
  /\ Highest \in Nat \ {0} /\ MaxDelay \in Nat \ {0} /\ MaxDelay <= Highest
  /\ MaxAge \in Nat /\ Highest <= MaxAge /\ MaxAttempts \in Nat
  /\ \A d \in RetryDelays : d > 0 => d \in Positive
  /\ \A d \in Positive : d \in Nat \ {0} /\ d <= Highest
<1> DEFINE T == Positive \cup {MaxDelay}
<1>0. /\ \A d \in RetryDelays : d \in Int
      /\ MaxDelay \in Nat \ {0} /\ MaxAge \in Nat /\ MaxAttempts \in Nat
  BY PaceAssumption
<1>5. \A d \in Positive : d \in Nat \ {0}
  <2>1. \A d \in Positive : d \in Int /\ d > 0
    BY <1>0, Zenon DEF Positive
  <2> QED
    BY <2>1
<1>1. IsFiniteSet(Positive)
  BY PaceAssumption, FS_Subset DEF Positive
<1>2. IsFiniteSet(T) /\ T # {} /\ T \in SUBSET Int
  BY <1>0, <1>5, <1>1, FS_AddElement
<1>3. Max(T) \in T /\ \A x \in T : Max(T) >= x
  <2> HIDE DEF T
  <2> QED
    BY <1>2, MaxProperty
<1>4. Highest = Max(T)
  BY DEF Highest
<1>7. Highest \in T /\ \A x \in T : Highest >= x
  BY <1>3, <1>4
<1>8. Highest \in Nat \ {0}
  BY <1>0, <1>5, <1>7
<1>9. \A d \in RetryDelays : d > 0 => d \in Positive
  BY DEF Positive
<1> QED
  BY <1>0, <1>5, <1>7, <1>8, <1>9, AgeAssumption

(* The delay that was just set is the one called for. *)
LEMMA SetIsPaced ==
  ASSUME NEW delay \in Positive
  PROVE  IsPaced(RetryInit(delay)) /\ RetryInit(delay).attempt = 0
<1>1. delay \in Nat \ {0} /\ delay <= Highest /\ MaxDelay \in Nat \ {0} /\ MaxDelay <= Highest /\ Highest \in Nat
  BY HighestProperty
<1> DEFINE r == RetryInit(delay)
<1>2. r.min = delay /\ r.max = MaxOf(MaxDelay, delay) /\ r.current = delay /\ r.attempt = 0
  BY DEF RetryInit
<1>3. PICK m \in 1..Highest : m = MaxOf(MaxDelay, delay) /\ delay <= m
  BY <1>1 DEF MaxOf
<1>4. r \in [min : Positive, max : 1..Highest, current : 1..Highest, attempt : Nat]
  <2>1. r = [min |-> delay, max |-> m, current |-> delay, attempt |-> 0]
    BY <1>3 DEF RetryInit
  <2>2. delay \in 1..Highest /\ 0 \in Nat
    BY <1>1
  <2> QED
    BY <2>1, <2>2
<1>5. MaxOf(0, 0 - DOUBLED_FROM) = 0 /\ TwoToThe[0] = 1
  BY Powers DEF MaxOf, DOUBLED_FROM
<1>6. CalledFor(r) = delay
  <2>1. CalledFor(r) = MinOf(m, delay * TwoToThe[MaxOf(0, 0 - DOUBLED_FROM)])
    BY <1>2, <1>3 DEF CalledFor
  <2>2. delay * 1 = delay
    BY <1>1
  <2> QED
    BY <1>1, <1>3, <2>1, <2>2, <1>5 DEF MinOf
<1> QED
  BY <1>2, <1>3, <1>4, <1>6 DEF IsPaced

(* What another attempt calls for. *)
LEMMA DoubledIsCalledFor ==
  ASSUME NEW min \in Nat \ {0}, NEW max \in Nat \ {0}, min <= max, NEW a \in Nat, NEW c \in Nat,
         c = MinOf(max, min * TwoToThe[MaxOf(0, a - DOUBLED_FROM)])
  PROVE  (IF a >= DOUBLED_FROM /\ c < max THEN MinOf(2 * c, max) ELSE c)
           = MinOf(max, min * TwoToThe[MaxOf(0, (a + 1) - DOUBLED_FROM)])
<1>1. CASE a >= DOUBLED_FROM
  <2>1. PICK k \in Nat : k = a - DOUBLED_FROM
    BY <1>1 DEF DOUBLED_FROM
  <2>2. MaxOf(0, a - DOUBLED_FROM) = k /\ MaxOf(0, (a + 1) - DOUBLED_FROM) = k + 1
    BY <2>1 DEF MaxOf, DOUBLED_FROM
  <2>3. TwoToThe[k] \in Nat \ {0} /\ TwoToThe[k + 1] = 2 * TwoToThe[k]
    BY Powers
  <2>4. PICK p \in Nat : p = min * TwoToThe[k]
    BY <2>3
  <2>5. min * TwoToThe[k + 1] = 2 * p
    BY <2>3, <2>4
  <2>6. c = MinOf(max, p)
    BY <2>2, <2>4
  <2> QED
    BY <1>1, <2>2, <2>5, <2>6 DEF MinOf
<1>2. CASE ~(a >= DOUBLED_FROM)
  <2>1. MaxOf(0, a - DOUBLED_FROM) = 0 /\ MaxOf(0, (a + 1) - DOUBLED_FROM) = 0
    BY <1>2 DEF MaxOf, DOUBLED_FROM
  <2> QED
    BY <1>2, <2>1
<1> QED
  BY <1>1, <1>2

(* An increase keeps to what the attempts call for. *)
LEMMA IncreaseIsPaced ==
  ASSUME NEW r, IsPaced(r)
  PROVE  IsPaced(Increase(r)) /\ Increase(r).attempt = r.attempt + 1
<1>1. PICK min \in Positive, max \in 1..Highest, c \in 1..Highest, a \in Nat :
        r = [min |-> min, max |-> max, current |-> c, attempt |-> a]
  BY Zenon DEF IsPaced
<1>2. min \in Nat \ {0} /\ max \in Nat \ {0} /\ c \in Nat \ {0} /\ min <= max /\ Highest \in Nat
  BY <1>1, HighestProperty DEF IsPaced
<1>3. c = MinOf(max, min * TwoToThe[MaxOf(0, a - DOUBLED_FROM)])
  BY <1>1 DEF IsPaced, CalledFor
<1>4. PICK d \in Int : d = IF a >= DOUBLED_FROM /\ c < max THEN MinOf(2 * c, max) ELSE c
  BY <1>2 DEF MinOf
<1>5. d \in 1..Highest
  BY <1>2, <1>4, <1>1 DEF MinOf
<1>6. Increase(r) = [min |-> min, max |-> max, current |-> d, attempt |-> a + 1]
  <2>1. r.attempt = a /\ r.current = c /\ r.max = max
    BY <1>1
  <2>2. Increase(r) = [[r EXCEPT !.current = d] EXCEPT !.attempt = a + 1]
    BY <2>1, <1>1, <1>4 DEF Increase
  <2> QED
    BY <2>2, <1>1
<1>7. d = MinOf(max, min * TwoToThe[MaxOf(0, (a + 1) - DOUBLED_FROM)])
  BY <1>2, <1>3, <1>4, DoubledIsCalledFor
<1>8. Increase(r).current = CalledFor(Increase(r))
  <2>1. /\ Increase(r).current = d /\ Increase(r).max = max
        /\ Increase(r).min = min /\ Increase(r).attempt = a + 1
    BY <1>6
  <2> QED
    <3>1. CalledFor(Increase(r))
            = MinOf(Increase(r).max, Increase(r).min * TwoToThe[MaxOf(0, Increase(r).attempt - DOUBLED_FROM)])
      BY Zenon DEF CalledFor
    <3> QED
      BY <2>1, <1>7, <3>1
<1>9. Increase(r) \in [min : Positive, max : 1..Highest, current : 1..Highest, attempt : Nat]
  BY <1>1, <1>5, <1>6
<1> QED
  BY <1>1, <1>2, <1>6, <1>8, <1>9 DEF IsPaced

(* The numbers of a counter. *)
LEMMA PacedNumbers ==
  ASSUME NEW r, IsPaced(r)
  PROVE  r.current \in 1..Highest /\ r.attempt \in Nat /\ CalledFor(r) = r.current
BY DEF IsPaced

(* The delay of a retry is what its attempts call for, up to its limit. *)
THEOREM PaceInductive == PaceSpec => []PaceIInv
<1> USE DEF MinOf, MaxOf
<1>1. PaceInit => PaceIInv
  <2> SUFFICES ASSUME PaceInit PROVE PaceIInv
    OBVIOUS
  <2>1. PICK delay \in Positive : retry = RetryInit(delay)
    BY DEF PaceInit
  <2>2. IsPaced(retry) /\ retry.attempt = 0
    BY <2>1, SetIsPaced
  <2>3. PaceTypes
    <3>1. /\ pacePhase = "SLEEP" /\ age = MaxAge /\ timeLeft = 0 /\ failing = FALSE /\ leastDelay = 0
          /\ 0 <= MaxAttempts /\ MaxAge \in Nat /\ Highest \in Nat
      BY HighestProperty DEF PaceInit
    <3> QED
      <4>1. failing \in BOOLEAN
        BY <3>1
      <4>2. age \in 0..MaxAge /\ timeLeft \in 0..Highest /\ leastDelay \in 0..Highest /\ retry.attempt <= MaxAttempts
        BY <2>2, <3>1
      <4> QED
        BY <3>1, <4>1, <4>2, Zenon DEF PaceTypes
  <2>4. WaitsLongEnough
    BY <2>2, PacedNumbers, HighestProperty DEF PaceInit, WaitsLongEnough
  <2> QED
    BY <2>2, <2>3, <2>4 DEF PaceIInv
<1>2. PaceIInv /\ [PaceNext]_paceVars => PaceIInv'
  <2> SUFFICES ASSUME PaceIInv, [PaceNext]_paceVars PROVE PaceIInv'
    OBVIOUS
  <2>1. PICK c \in 1..Highest : c = retry.current /\ c = CalledFor(retry) /\ retry.attempt \in Nat
    BY PacedNumbers DEF PaceIInv
  <2>2. /\ age \in 0..MaxAge /\ timeLeft \in 0..Highest /\ leastDelay \in 0..Highest /\ leastDelay <= c
        /\ failing \in BOOLEAN /\ (failing => timeLeft + age >= leastDelay)
        /\ pacePhase \in {"SLEEP", "CREATING", "CREATED"} /\ retry.attempt <= MaxAttempts
    BY <2>1 DEF PaceIInv, PaceTypes, WaitsLongEnough
  <2>3. Highest \in Nat /\ MaxAge \in Nat /\ Highest <= MaxAge /\ MaxAttempts \in Nat
    BY HighestProperty
  <2>4. ASSUME IsPaced(retry'), retry'.attempt <= MaxAttempts, leastDelay' = MinOf(leastDelay, CalledFor(retry')),
               age' = age, timeLeft' \in 0..Highest, failing' = failing,
               pacePhase' \in {"SLEEP", "CREATING", "CREATED"},
               failing => timeLeft' + age >= leastDelay
        PROVE  PaceIInv'
    <3>1. PICK e \in 1..Highest : e = retry'.current /\ e = CalledFor(retry')
      BY <2>4, PacedNumbers
    <3>2. leastDelay' \in 0..Highest /\ leastDelay' <= leastDelay /\ leastDelay' <= e
      BY <2>2, <2>3, <2>4, <3>1
    <3>3. PaceTypes'
      BY <2>2, <2>4, <3>2 DEF PaceTypes
    <3>4. WaitsLongEnough'
      <4>1. leastDelay' <= retry'.current
        BY <3>1, <3>2
      <4>2. ASSUME failing' PROVE timeLeft' + age' >= leastDelay'
        <5>1. timeLeft' + age >= leastDelay /\ age' = age /\ timeLeft' \in 0..Highest
          BY <2>4, <4>2
        <5>2. age \in Nat /\ leastDelay \in Nat /\ leastDelay' \in Nat /\ timeLeft' \in Nat /\ leastDelay' <= leastDelay
          BY <2>2, <2>3, <3>2, <5>1
        <5>3. timeLeft' + age >= leastDelay'
          <6>1. ASSUME NEW t \in Nat, NEW g \in Nat, NEW l \in Nat, NEW m \in Nat, t + g >= l, m <= l
                PROVE  t + g >= m
            BY <6>1
          <6> QED
            BY <5>1, <5>2, <6>1
        <5> QED
          BY <5>1, <5>3, Zenon
      <4> QED
        BY <4>1, <4>2 DEF WaitsLongEnough
    <3> QED
      BY <2>4, <3>3, <3>4 DEF PaceIInv
  <2>5. ASSUME CreateSent PROVE PaceIInv'
    <3>1. IsPaced(retry') /\ retry' = retry
      BY <2>5 DEF CreateSent, PaceIInv
    <3>2. age' = 0 /\ timeLeft' = c /\ leastDelay' = c /\ failing' = TRUE /\ pacePhase' = "CREATING"
      BY <2>1, <2>5 DEF CreateSent
    <3>3. PaceTypes'
      BY <2>2, <2>3, <3>1, <3>2 DEF PaceTypes
    <3>4. WaitsLongEnough'
      <4>1. leastDelay' <= retry'.current
        <5>1. c <= c
          BY <2>3
        <5> QED
          BY <5>1, <2>1, <3>1, <3>2, Zenon
      <4>2. timeLeft' + age' >= leastDelay'
        BY <2>1, <3>2
      <4> QED
        BY <4>1, <4>2 DEF WaitsLongEnough
    <3> QED
      BY <3>1, <3>3, <3>4 DEF PaceIInv
  <2>6. ASSUME ChangeRetry(Increase(retry)), retry.attempt < MaxAttempts
        PROVE  /\ IsPaced(retry') /\ retry'.attempt <= MaxAttempts
               /\ leastDelay' = MinOf(leastDelay, CalledFor(retry'))
    <3>1. IsPaced(Increase(retry)) /\ Increase(retry).attempt = retry.attempt + 1
      BY IncreaseIsPaced DEF PaceIInv
    <3>2. retry' = Increase(retry)
      BY <2>6 DEF ChangeRetry
    <3>3. leastDelay' = MinOf(leastDelay, CalledFor(retry'))
      BY <2>6, <3>2 DEF ChangeRetry
    <3> QED
      BY <2>1, <2>3, <2>6, <3>1, <3>2, <3>3
  <2>7. ASSUME NEW delay \in RetryDelays, SetRetryDelay(delay) PROVE PaceIInv'
    <3>1. delay \in Positive /\ ChangeRetry(RetryInit(delay)) /\ UNCHANGED <<pacePhase, age, timeLeft, failing>>
      BY <2>7, HighestProperty DEF SetRetryDelay
    <3>2. retry' = RetryInit(delay) /\ leastDelay' = MinOf(leastDelay, CalledFor(retry'))
      BY <3>1 DEF ChangeRetry
    <3>3. IsPaced(retry') /\ retry'.attempt = 0
      BY <3>1, <3>2, SetIsPaced
    <3> QED
      BY <2>2, <2>3, <2>4, <3>1, <3>2, <3>3
  <2>8. ASSUME AbortSocket PROVE PaceIInv'
    <3>1. /\ ChangeRetry(Increase(retry)) /\ retry.attempt < MaxAttempts
          /\ UNCHANGED <<pacePhase, age, timeLeft, failing>>
      BY <2>8 DEF AbortSocket
    <3> QED
      BY <2>2, <2>4, <2>6, <3>1
  <2>9. ASSUME CreateTimeout PROVE PaceIInv'
    <3>1. /\ ChangeRetry(Increase(retry)) /\ retry.attempt < MaxAttempts
          /\ pacePhase' = "SLEEP" /\ UNCHANGED <<age, timeLeft, failing>>
      BY <2>9 DEF CreateTimeout
    <3> QED
      BY <2>2, <2>4, <2>6, <3>1
  <2>10. ASSUME CreateError PROVE PaceIInv'
    <3>1. /\ ChangeRetry(Increase(retry)) /\ retry.attempt < MaxAttempts
          /\ pacePhase' = "SLEEP" /\ UNCHANGED <<age, failing>>
          /\ timeLeft' = IF age > c THEN 0 ELSE c - age
      BY <2>1, <2>10 DEF CreateError, CalculateRetryDelay
    <3>2. timeLeft' \in 0..Highest /\ timeLeft' + age >= leastDelay
      BY <2>2, <2>3, <3>1
    <3> QED
      BY <2>4, <2>6, <3>1, <3>2
  <2>11. ASSUME AnswerReceived PROVE PaceIInv'
    <3>1. /\ pacePhase' = "CREATED" /\ failing' = FALSE /\ timeLeft' = 0
          /\ retry' = retry /\ age' = age /\ leastDelay' = leastDelay
      BY <2>11 DEF AnswerReceived
    <3>2. PaceTypes'
      <4>1. failing' \in BOOLEAN
        BY <3>1
      <4>2. timeLeft' \in 0..Highest
        BY <3>1, <2>3
      <4> QED
        BY <2>2, <3>1, <4>1, <4>2, Zenon DEF PaceTypes
    <3> QED
      BY <3>1, <3>2 DEF PaceIInv, WaitsLongEnough
  <2>12. ASSUME PaceTick PROVE PaceIInv'
    <3>1. /\ age' = MinOf(MaxAge, age + 1) /\ timeLeft' = MaxOf(0, timeLeft - 1)
          /\ retry' = retry /\ pacePhase' = pacePhase /\ failing' = failing /\ leastDelay' = leastDelay
      BY <2>12 DEF PaceTick
    <3>2. age' \in 0..MaxAge /\ timeLeft' \in 0..Highest
      BY <2>2, <2>3, <3>1
    <3>3. failing' => timeLeft' + age' >= leastDelay'
      BY <2>2, <2>3, <3>1
    <3>4. PaceTypes'
      BY <2>2, <3>1, <3>2 DEF PaceTypes
    <3> QED
      BY <2>1, <2>2, <3>1, <3>3, <3>4 DEF PaceIInv, WaitsLongEnough
  <2>13. ASSUME UNCHANGED paceVars PROVE PaceIInv'
    BY <2>13 DEF paceVars, PaceIInv, PaceTypes, WaitsLongEnough
  <2> QED
    BY <2>5, <2>7, <2>8, <2>9, <2>10, <2>11, <2>12, <2>13 DEF PaceNext, RetryTimeout, CreatedTimeout
<1> QED
  BY <1>1, <1>2, PTL DEF PaceSpec

(* Whatever the delays and the number of attempts, none is made sooner after one
   without an answer than its delay (RetryDelayCounter: increase; Session:
   calculateRetryDelay). *)
THEOREM RetriesArePaced == PaceSpec => AttemptsArePaced
<1>1. PaceIInv => (failing /\ RetryTimeout => age >= leastDelay)
  BY DEF PaceIInv, PaceTypes, WaitsLongEnough, RetryTimeout
<1>2. PaceIInv => [failing /\ RetryTimeout => age >= leastDelay]_paceVars
  BY <1>1
<1> QED
  BY <1>2, PaceInductive, PTL DEF AttemptsArePaced

(* The types of the pace. *)
LEMMA PaceTyped == PaceSpec => []PaceTypeOK
<1>1. PaceIInv => PaceTypeOK
  <2> SUFFICES ASSUME PaceIInv PROVE PaceTypeOK
    OBVIOUS
  <2>1. /\ retry \in [min : Positive, max : 1..Highest, current : 1..Highest, attempt : Nat]
        /\ retry.attempt <= MaxAttempts /\ MaxAttempts \in Nat
    BY PaceAssumption DEF PaceIInv, IsPaced, PaceTypes
  <2>2. retry.attempt \in 0..MaxAttempts
    BY <2>1
  <2>3. retry \in [min : Positive, max : 1..Highest, current : 1..Highest, attempt : 0..MaxAttempts]
    BY <2>1, <2>2, Zenon
  <2> QED
    BY <2>3 DEF PaceIInv, PaceTypes, PaceTypeOK
<1> QED
  BY <1>1, PaceInductive, PTL

-----------------------------------------------------------------------------
(* What is late in the stream. *)

(* A millisecond has parts. *)
LEMMA UnitIsPositive == UNIT \in Nat \ {0}
BY Powers, SlowingAssumption DEF UNIT

(* Comparisons in parts of a millisecond are those of milliseconds.           *)
LEMMA InUnitsCompares ==
  ASSUME NEW a \in Int, NEW b \in Int
  PROVE  /\ InUnits(a) \in Int
         /\ a <= b => InUnits(a) <= InUnits(b)
         /\ a < b => InUnits(a) < InUnits(b)
<1>1. UNIT \in Nat \ {0}
  BY UnitIsPositive
<1>2. PICK u \in Nat \ {0} : u = UNIT
  BY <1>1
<1>3. a * u \in Int /\ b * u \in Int /\ (b - a) * u \in Int /\ b * u = a * u + (b - a) * u
  OBVIOUS
<1>4. a <= b => (b - a) * u >= 0
  OBVIOUS
<1>5. a < b => (b - a) * u >= 1
  OBVIOUS
<1> QED
  BY <1>2, <1>3, <1>4, <1>5 DEF InUnits

(* A mean above a number of milliseconds is, in whole ones, no less. *)
LEMMA WholeMilliseconds ==
  ASSUME NEW m \in Int, NEW a \in Nat, m > InUnits(a)
  PROVE  m \div UNIT >= a
<1>1. PICK u \in Nat \ {0} : u = UNIT
  BY UnitIsPositive
<1>2. m > a * u
  BY <1>1 DEF InUnits
<1>3. m = (m \div u) * u + (m % u) /\ m % u \in 0..u - 1 /\ m \div u \in Int
  OBVIOUS
<1>4. ASSUME m \div u < a PROVE FALSE
  <2>1. PICK q \in Int : q = m \div u
    BY <1>3
  <2>2. (a - q) * u >= u /\ a * u = q * u + (a - q) * u
    BY <1>4, <2>1
  <2> QED
    BY <1>2, <1>3, <2>1, <2>2
<1> QED
  BY <1>1, <1>3, <1>4

Handlers == [mean : Int, first : BOOLEAN, huge : BOOLEAN]
Pollings == [polling : BOOLEAN, forced : BOOLEAN]
(* The mean is at most some delay it is of, or zero. *)
MeanIsOf(m, ds) == \E d \in ds \cup {0} : m <= InUnits(d)
SlowingTypes ==
  /\ slowing \in Handlers
  /\ polls \in Pollings
  /\ answered \in BOOLEAN /\ resumed \in BOOLEAN /\ toldSlow \in BOOLEAN
  /\ syncs \in Seq(Readings) /\ Len(syncs) <= syncsAndSessions /\ syncsAndSessions \in 0..MaxSyncs
  /\ before \in Int
MeanInRange == InUnits(Early) <= slowing.mean /\ slowing.mean <= InUnits(Max(Delays))
MeanMeasured ==
  /\ MeanIsOf(slowing.mean, ToSet(syncs))
  /\ slowing.first => syncs # << >> \/ resumed
  /\ ~answered /\ slowing.first => resumed
  /\ slowing.huge => \E d \in ToSet(syncs) : d > HUGE_DELAY
SlowMeasured ==
  toldSlow =>
    /\ answered /\ syncs # << >> /\ slowing.first
    /\ slowing.mean > InUnits(MAX_MEAN)
    /\ Range(Front(syncs)) # {} \/ resumed
    /\ Last(syncs) > HUGE_DELAY =>
         before > InUnits(MAX_MEAN) \/ \E d \in Range(Front(syncs)) : d > HUGE_DELAY
SlowingIInv == SlowingTypes /\ MeanInRange /\ MeanMeasured /\ SlowMeasured

(* What a sequence has after one more. *)
LEMMA AppendedReading ==
  ASSUME NEW S, NEW s \in Seq(S), NEW e \in S
  PROVE  /\ Append(s, e) \in Seq(S) /\ Len(Append(s, e)) = Len(s) + 1 /\ Append(s, e) # << >>
         /\ ToSet(Append(s, e)) = ToSet(s) \cup {e} /\ Last(Append(s, e)) = e
         /\ Range(Front(Append(s, e))) = ToSet(s)
<1>1. Front(Append(s, e)) = s
  BY DEF Front
<1>2. Range(s) = ToSet(s)
  BY DEF Range, ToSet
<1>3. ToSet(Append(s, e)) = ToSet(s) \cup {e}
  <2>1. /\ DOMAIN Append(s, e) = DOMAIN s \cup {Len(s) + 1}
        /\ \A i \in DOMAIN s : Append(s, e)[i] = s[i]
        /\ Append(s, e)[Len(s) + 1] = e
    OBVIOUS
  <2> QED
    BY <2>1, Zenon DEF ToSet
<1> QED
  BY <1>1, <1>2, <1>3 DEF Last

(* The elements of a sequence are of its set. *)
LEMMA SequenceElements ==
  ASSUME NEW S, NEW s \in Seq(S)
  PROVE  ToSet(s) \subseteq S
<1>1. \A i \in DOMAIN s : s[i] \in S
  OBVIOUS
<1> QED
  BY <1>1, Zenon DEF ToSet

(* A halving stays within what is halved. *)
LEMMA HalvedIsBetween ==
  ASSUME NEW a \in Int, NEW b \in Int
  PROVE  LET m == (a + b) \div 2
         IN  m \in Int /\ (m <= a \/ m <= b) /\ \A lo \in Int : lo <= a /\ lo <= b => lo <= m
OBVIOUS

(* The bounds of what the server may tell. *)
LEMMA ReadingsAreIntegers ==
  /\ Readings \subseteq Int /\ Max(Delays) \in Nat
  /\ \A d \in Readings : Early <= d /\ d <= Max(Delays)
<1>1. Delays \in SUBSET Int /\ IsFiniteSet(Delays) /\ Delays # {} /\ Delays \subseteq Nat
  BY SlowingAssumption
<1>2. Max(Delays) \in Delays /\ \A x \in Delays : Max(Delays) >= x
  BY <1>1, MaxProperty
<1>3. PICK m \in Nat : m = Max(Delays)
  BY <1>1, <1>2
<1>4. \A d \in Delays : d \in Nat /\ d <= m
  BY <1>1, <1>2, <1>3
<1> HIDE <1>1, <1>2
<1> QED
  BY <1>3, <1>4 DEF Readings, Early

(* What each way of changing a handler makes of its parts. *)
LEMMA HandlerParts ==
  ASSUME NEW h \in Handlers
  PROVE  /\ h.mean \in Int /\ h.first \in BOOLEAN /\ h.huge \in BOOLEAN
         /\ \A b \in BOOLEAN : /\ [h EXCEPT !.huge = b] \in Handlers
                                /\ [h EXCEPT !.huge = b].mean = h.mean
                                /\ [h EXCEPT !.huge = b].first = h.first
                                /\ [h EXCEPT !.huge = b].huge = b
BY DEF Handlers

(* Likewise setting the mean. *)
LEMMA SetMeanParts ==
  ASSUME NEW h \in Handlers, NEW v \in Int
  PROVE  /\ SetMean(h, v) \in Handlers /\ SetMean(h, v).mean = v
         /\ SetMean(h, v).first = TRUE /\ SetMean(h, v).huge = h.huge
BY DEF Handlers, SetMean

(* What a test leaves of a handler. *)
TestIsSound(h, d, ds) ==
  LET t == TestSync(h, d)
  IN  /\ t.handler \in Handlers /\ t.slow \in BOOLEAN
      /\ t.handler.first = TRUE
      /\ InUnits(Early) <= t.handler.mean /\ t.handler.mean <= InUnits(Max(Delays))
      /\ MeanIsOf(t.handler.mean, ds \cup {d})
      /\ t.handler.huge => h.huge \/ d > HUGE_DELAY
      /\ t.slow => /\ h.first
                   /\ t.handler.mean > InUnits(MAX_MEAN)
                   /\ d > HUGE_DELAY => h.huge \/ h.mean > InUnits(MAX_MEAN)

(* testSync keeps the mean between the least and the greatest of the delays,
   and calls the stream slow for what it measured. *)
LEMMA TestSyncIsSound ==
  ASSUME NEW h \in Handlers, NEW d \in Readings, NEW ds \in SUBSET Int,
         InUnits(Early) <= h.mean, h.mean <= InUnits(Max(Delays)), MeanIsOf(h.mean, ds)
  PROVE  TestIsSound(h, d, ds)
<1>1. /\ d \in Int /\ Early <= d /\ d <= Max(Delays) /\ Max(Delays) \in Nat /\ Early \in Int
      /\ h.mean \in Int /\ h.first \in BOOLEAN /\ h.huge \in BOOLEAN
  <2>1. h.mean \in Int /\ h.first \in BOOLEAN /\ h.huge \in BOOLEAN
    BY DEF Handlers
  <2> QED
    BY <2>1, ReadingsAreIntegers DEF Early
<1>2. /\ InUnits(d) \in Int /\ InUnits(Early) <= InUnits(d) /\ InUnits(d) <= InUnits(Max(Delays))
      /\ InUnits(Early) \in Int /\ InUnits(Max(Delays)) \in Int
  BY <1>1, InUnitsCompares
<1>3. /\ InUnits(0) = 0 /\ InUnits(Early) <= 0 /\ 0 <= InUnits(Max(Delays))
      /\ InUnits(MAX_MEAN) \in Int /\ InUnits(IGNORE_MEAN) \in Int
      /\ 0 <= InUnits(MAX_MEAN)
  <2>1. PICK u \in Nat \ {0} : u = UNIT
    BY UnitIsPositive
  <2>2. InUnits(0) = 0
    BY <2>1 DEF InUnits
  <2> QED
    BY <1>1, <2>2, InUnitsCompares DEF Early, MAX_MEAN, IGNORE_MEAN
<1>4. d > HUGE_DELAY => InUnits(d) > 2 * InUnits(MAX_MEAN)
  <2>1. PICK u \in Nat \ {0} : u = UNIT
    BY UnitIsPositive
  <2>2. d > HUGE_DELAY => (d - 14000) * u > 0 /\ d * u = (d - 14000) * u + 14000 * u
    BY <1>1 DEF HUGE_DELAY
  <2> QED
    BY <1>1, <2>1, <2>2 DEF InUnits, MAX_MEAN
<1>5. MeanIsOf(InUnits(d), ds \cup {d}) /\ MeanIsOf(h.mean, ds \cup {d}) /\ MeanIsOf(0, ds \cup {d})
  BY <1>1, <1>2, <1>3 DEF MeanIsOf
<1>6. /\ Halved(h, d) \in Int /\ InUnits(Early) <= Halved(h, d) /\ Halved(h, d) <= InUnits(Max(Delays))
      /\ Halved(h, d) <= h.mean \/ Halved(h, d) <= InUnits(d)
  BY <1>1, <1>2, HalvedIsBetween DEF Halved
<1>7. MeanIsOf(Halved(h, d), ds \cup {d})
  <2>1. PICK e \in ds \cup {0} : h.mean <= InUnits(e)
    BY DEF MeanIsOf
  <2>4. InUnits(e) \in Int
    BY ReadingsAreIntegers, InUnitsCompares
  <2>2. CASE Halved(h, d) <= InUnits(d)
    BY <2>2 DEF MeanIsOf
  <2>3. CASE Halved(h, d) <= h.mean
    BY <1>1, <2>3, <1>6, <2>1, <2>4 DEF MeanIsOf
  <2> QED
    BY <1>6, <2>2, <2>3
<1>8. ASSUME NEW g \in Handlers, g.mean = h.mean
      PROVE  LET t == Averaged(g, d)
             IN  /\ t.handler \in Handlers /\ t.slow \in BOOLEAN /\ t.handler.first = TRUE /\ t.handler.huge = g.huge
                 /\ InUnits(Early) <= t.handler.mean /\ t.handler.mean <= InUnits(Max(Delays))
                 /\ MeanIsOf(t.handler.mean, ds \cup {d})
                 /\ t.slow => t.handler.mean > InUnits(MAX_MEAN)
  <2>1. Halved(g, d) = Halved(h, d)
    BY <1>8 DEF Halved
  <2>2. CASE Halved(h, d) < InUnits(IGNORE_MEAN)
    <3>1. Averaged(g, d) = Tested(SetMean(g, 0), FALSE)
      BY <2>1, <2>2 DEF Averaged
    <3>2. Averaged(g, d).handler = SetMean(g, 0) /\ Averaged(g, d).slow = FALSE
      BY <3>1 DEF Tested
    <3>3. /\ SetMean(g, 0) \in Handlers /\ SetMean(g, 0).mean = 0
          /\ SetMean(g, 0).first = TRUE /\ SetMean(g, 0).huge = g.huge
      BY <1>8, 0 \in Int, SetMeanParts
    <3> QED
      BY <3>2, <3>3, <1>8, <1>3, <1>5
  <2>3. CASE ~(Halved(h, d) < InUnits(IGNORE_MEAN))
    <3>1. Averaged(g, d) = Tested(SetMean(g, Halved(h, d)), Halved(h, d) > InUnits(MAX_MEAN))
      BY <2>1, <2>3 DEF Averaged
    <3>2. PICK b \in BOOLEAN : b <=> Halved(h, d) > InUnits(MAX_MEAN)
      OBVIOUS
    <3>3. Averaged(g, d).handler = SetMean(g, Halved(h, d)) /\ (Averaged(g, d).slow <=> b)
      BY <3>1, <3>2 DEF Tested
    <3>4. /\ SetMean(g, Halved(h, d)) \in Handlers /\ SetMean(g, Halved(h, d)).mean = Halved(h, d)
          /\ SetMean(g, Halved(h, d)).first = TRUE /\ SetMean(g, Halved(h, d)).huge = g.huge
      BY <1>8, <1>6, SetMeanParts
    <3> QED
      BY <3>2, <3>3, <3>4, <1>8, <1>6, <1>7
  <2> QED
    BY <2>2, <2>3
<1>9. CASE ~h.first
  <2>1. TestSync(h, d) = Tested(SetMean(h, InUnits(d)), FALSE)
    BY <1>9 DEF TestSync
  <2>2. TestSync(h, d).handler = SetMean(h, InUnits(d)) /\ TestSync(h, d).slow = FALSE
    BY <2>1 DEF Tested
  <2>3. /\ SetMean(h, InUnits(d)) \in Handlers /\ SetMean(h, InUnits(d)).mean = InUnits(d)
        /\ SetMean(h, InUnits(d)).first = TRUE /\ SetMean(h, InUnits(d)).huge = h.huge
    BY <1>2, SetMeanParts
  <2> QED
    BY <2>2, <2>3, <1>9, <1>1, <1>2, <1>5 DEF TestIsSound
<1>10. CASE h.first /\ IsHuge(h, d) /\ ~h.huge
  <2>1. TestSync(h, d) = Tested([h EXCEPT !.huge = TRUE], h.mean > InUnits(MAX_MEAN))
    BY <1>10 DEF TestSync
  <2>2. PICK b \in BOOLEAN : b <=> h.mean > InUnits(MAX_MEAN)
    OBVIOUS
  <2>3. TestSync(h, d).handler = [h EXCEPT !.huge = TRUE] /\ (TestSync(h, d).slow <=> b)
    BY <2>1, <2>2 DEF Tested
  <2>4. /\ [h EXCEPT !.huge = TRUE] \in Handlers /\ [h EXCEPT !.huge = TRUE].mean = h.mean
        /\ [h EXCEPT !.huge = TRUE].first = h.first
    BY HandlerParts
  <2>5. h.first = TRUE /\ d > HUGE_DELAY
    BY <1>10, <1>1 DEF IsHuge
  <2> QED
    BY <2>2, <2>3, <2>4, <2>5, <1>10, <1>1, <1>2, <1>5 DEF TestIsSound
<1>11. CASE h.first /\ IsHuge(h, d) /\ h.huge
  <2>1. TestSync(h, d) = Averaged([h EXCEPT !.huge = FALSE], d)
    BY <1>11 DEF TestSync
  <2>2. [h EXCEPT !.huge = FALSE] \in Handlers /\ [h EXCEPT !.huge = FALSE].mean = h.mean /\ ~[h EXCEPT !.huge = FALSE].huge
    BY HandlerParts
  <2> QED
    BY <2>1, <2>2, <1>8, <1>11 DEF TestIsSound
<1>12. CASE h.first /\ ~IsHuge(h, d)
  <2>1. TestSync(h, d) = Averaged(h, d)
    BY <1>12 DEF TestSync
  <2>2. d > HUGE_DELAY => h.mean > InUnits(MAX_MEAN)
    BY <1>12, <1>4, <1>1, <1>2, <1>3 DEF IsHuge
  <2>3. CASE h.huge
    BY <2>1, <2>2, <1>8, <1>12, <2>3 DEF TestIsSound
  <2>5. /\ Averaged(h, d).handler \in Handlers /\ Averaged(h, d).slow \in BOOLEAN
        /\ Averaged(h, d).handler.first = TRUE /\ Averaged(h, d).handler.huge = h.huge
        /\ InUnits(Early) <= Averaged(h, d).handler.mean /\ Averaged(h, d).handler.mean <= InUnits(Max(Delays))
        /\ MeanIsOf(Averaged(h, d).handler.mean, ds \cup {d})
        /\ Averaged(h, d).slow => Averaged(h, d).handler.mean > InUnits(MAX_MEAN)
    BY <1>8, Zenon
  <2>4. CASE ~h.huge
    BY <2>1, <2>2, <2>5, <1>1, <1>12, <2>4 DEF TestIsSound
  <2> QED
    BY <2>3, <2>4, <1>1
<1> QED
  BY <1>1, <1>9, <1>10, <1>11, <1>12

(* The bound is a number. *)
LEMMA SyncsAreBounded == MaxSyncs \in Nat
BY SlowingAssumption

(* The mean is within the delays measured so far. *)
THEOREM SlowingInductive == SlowingSpec => []SlowingIInv
<1>1. SlowingInit => SlowingIInv
  <2> SUFFICES ASSUME SlowingInit PROVE SlowingIInv
    OBVIOUS
  <2>1. InUnits(0) = 0 /\ InUnits(Early) <= 0 /\ 0 <= InUnits(Max(Delays))
    <3>1. PICK u \in Nat \ {0} : u = UNIT
      BY UnitIsPositive
    <3>2. InUnits(0) = 0
      BY <3>1 DEF InUnits
    <3> QED
      BY <3>2, ReadingsAreIntegers, InUnitsCompares DEF Early
  <2>2. SlowingTypes
    <3>1. NewHandler \in Handlers
      BY DEF NewHandler, Handlers
    <3>2. << >> \in Seq(Readings) /\ Len(<< >>) = 0
      OBVIOUS
    <3> QED
      <4>1. polls \in Pollings
        BY DEF SlowingInit, Pollings
      <4> QED
        <5>1. answered \in BOOLEAN /\ resumed \in BOOLEAN /\ toldSlow \in BOOLEAN
          BY DEF SlowingInit
        <5>5. before \in Int
          BY DEF SlowingInit
        <5>2. syncs \in Seq(Readings) /\ Len(syncs) <= syncsAndSessions
          BY <3>2 DEF SlowingInit
        <5>3. syncsAndSessions \in 0..MaxSyncs
          BY SyncsAreBounded DEF SlowingInit
        <5>4. slowing \in Handlers
          BY <3>1 DEF SlowingInit
        <5> QED
          BY <4>1, <5>1, <5>2, <5>3, <5>4, <5>5 DEF SlowingTypes
  <2>3. MeanIsOf(0, ToSet(syncs))
    BY <2>1 DEF MeanIsOf
  <2> QED
    BY <2>1, <2>2, <2>3 DEF SlowingInit, SlowingIInv, MeanInRange, MeanMeasured, SlowMeasured, NewHandler
<1>2. SlowingIInv /\ [SlowingNext]_slowingVars => SlowingIInv'
  <2> SUFFICES ASSUME SlowingIInv, [SlowingNext]_slowingVars PROVE SlowingIInv'
    OBVIOUS
  <2>1. ASSUME StartSync PROVE SlowingIInv'
    <3>1. CASE polls.polling \/ polls.forced
      <4>1. InUnits(0) = 0 /\ InUnits(Early) <= 0 /\ 0 <= InUnits(Max(Delays))
        <5>1. PICK u \in Nat \ {0} : u = UNIT
          BY UnitIsPositive
        <5>2. InUnits(0) = 0
          BY <5>1 DEF InUnits
        <5> QED
          BY <5>2, ReadingsAreIntegers, InUnitsCompares DEF Early
      <4>2. SlowingTypes'
        <5>1. slowing' \in Handlers
          <6>1. PICK h \in Handlers : h = slowing
            BY DEF SlowingIInv, SlowingTypes
          <6>2. [h EXCEPT !.mean = 0, !.huge = FALSE] \in Handlers
            <7>1. [h EXCEPT !.mean = 0] \in Handlers
              BY DEF Handlers
            <7>2. [[h EXCEPT !.mean = 0] EXCEPT !.huge = FALSE] \in Handlers
              BY <7>1, HandlerParts
            <7>3. [h EXCEPT !.mean = 0, !.huge = FALSE] = [[h EXCEPT !.mean = 0] EXCEPT !.huge = FALSE]
              BY DEF Handlers
            <7> QED
              BY <7>2, <7>3
          <6> QED
            BY <2>1, <3>1, <6>1, <6>2 DEF StartSync
        <5>2. << >> \in Seq(Readings) /\ Len(<< >>) = 0
          OBVIOUS
        <5> QED
          <6>1. /\ syncsAndSessions \in 0..MaxSyncs /\ resumed \in BOOLEAN /\ toldSlow \in BOOLEAN
                /\ before \in Int /\ polls \in Pollings
            BY DEF SlowingIInv, SlowingTypes
          <6>2. /\ syncs' = << >> /\ answered' = TRUE
                /\ UNCHANGED <<polls, resumed, syncsAndSessions, before, toldSlow>>
            BY <2>1, <3>1 DEF StartSync
          <6>3. Len(syncs') <= syncsAndSessions'
            BY <6>1, <6>2, <5>2
          <6> QED
            BY <5>1, <5>2, <6>1, <6>2, <6>3 DEF SlowingTypes
      <4>3. MeanIsOf(slowing'.mean, ToSet(syncs')) /\ slowing'.mean = 0
        <5>1. slowing'.mean = 0
          BY <2>1, <3>1 DEF StartSync, SlowingIInv, SlowingTypes, Handlers
        <5> QED
          BY <5>1, <4>1 DEF MeanIsOf
      <4>4. MeanInRange'
        BY <4>1, <4>3 DEF MeanInRange
      <4> QED
        <5>1. slowing'.huge = FALSE /\ slowing'.first = slowing.first
          BY <2>1, <3>1 DEF StartSync, SlowingIInv, SlowingTypes, Handlers
        <5>2. slowing.first => resumed
          BY <2>1 DEF StartSync, SlowingIInv, MeanMeasured
        <5>3. MeanMeasured'
          BY <2>1, <4>3, <5>1, <5>2 DEF StartSync, MeanMeasured
        <5>4. ~toldSlow'
          BY <2>1 DEF StartSync, SlowingIInv, SlowMeasured
        <5> QED
          BY <4>2, <4>4, <5>3, <5>4 DEF SlowingIInv, SlowMeasured
    <3>2. CASE ~(polls.polling \/ polls.forced)
      BY <2>1, <3>2 DEF StartSync, SlowingIInv, SlowingTypes, MeanInRange, MeanMeasured, SlowMeasured
    <3> QED
      BY <3>1, <3>2
  <2>2. ASSUME NEW delay \in Readings, NEW slowingEnabled \in BOOLEAN, SyncCheck(delay, slowingEnabled)
        PROVE  SlowingIInv'
    <3>1. CASE polls.polling
      <4>1. SlowingTypes'
        <5>1. /\ syncsAndSessions \in 0..MaxSyncs /\ syncs \in Seq(Readings) /\ Len(syncs) <= syncsAndSessions
              /\ Len(syncs) \in Nat
          BY DEF SlowingIInv, SlowingTypes
        <5>2. /\ UNCHANGED <<slowing, polls, answered, resumed, syncs, before>> /\ ~toldSlow' /\ toldSlow' \in BOOLEAN
              /\ syncsAndSessions' = syncsAndSessions + 1 /\ syncsAndSessions < MaxSyncs
          BY <2>2, <3>1 DEF SyncCheck
        <5>3. syncsAndSessions' \in 0..MaxSyncs /\ Len(syncs) <= syncsAndSessions'
          BY <5>1, <5>2, SyncsAreBounded
        <5> QED
          BY <5>1, <5>2, <5>3 DEF SlowingIInv, SlowingTypes
      <4>2. ~toldSlow' /\ UNCHANGED <<slowing, polls, answered, resumed, syncs>>
        BY <2>2, <3>1 DEF SyncCheck
      <4> QED
        BY <4>1, <4>2 DEF SlowingIInv, MeanInRange, MeanMeasured, SlowMeasured
    <3>2. CASE ~polls.polling
      <4> DEFINE t == TestSync(slowing, delay)
      <4>1. TestIsSound(slowing, delay, ToSet(syncs))
        <5>1. ToSet(syncs) \in SUBSET Int
          BY SequenceElements, ReadingsAreIntegers DEF SlowingIInv, SlowingTypes
        <5> QED
          BY <5>1, TestSyncIsSound DEF SlowingIInv, SlowingTypes, MeanInRange, MeanMeasured
      <4>2. /\ slowing' = t.handler /\ (toldSlow' <=> t.slow /\ slowingEnabled)
            /\ syncs' = Append(syncs, delay) /\ before' = slowing.mean /\ answered
            /\ syncsAndSessions' = syncsAndSessions + 1 /\ syncsAndSessions < MaxSyncs
            /\ UNCHANGED <<polls, answered, resumed>> /\ toldSlow' \in BOOLEAN
        BY <2>2, <3>2, <4>1 DEF SyncCheck, TestIsSound
      <4>3. /\ syncs' \in Seq(Readings) /\ Len(syncs') = Len(syncs) + 1 /\ syncs' # << >>
            /\ ToSet(syncs') = ToSet(syncs) \cup {delay} /\ Last(syncs') = delay
            /\ Range(Front(syncs')) = ToSet(syncs)
        BY <4>2, AppendedReading DEF SlowingIInv, SlowingTypes
      <4>4. SlowingTypes'
        <5>1. /\ slowing' \in Handlers /\ syncsAndSessions \in 0..MaxSyncs /\ Len(syncs) <= syncsAndSessions
              /\ polls' \in Pollings /\ answered' \in BOOLEAN /\ resumed' \in BOOLEAN
              /\ slowing.mean \in Int /\ Len(syncs) \in Nat /\ before' = slowing.mean
          BY <4>1, <4>2, HandlerParts DEF SlowingIInv, SlowingTypes, TestIsSound
        <5> QED
          BY <5>1, <4>2, <4>3, SyncsAreBounded DEF SlowingTypes
      <4>5. MeanInRange'
        BY <4>1, <4>2 DEF TestIsSound, MeanInRange
      <4>6. MeanMeasured'
        BY <4>1, <4>2, <4>3 DEF TestIsSound, MeanMeasured, SlowingIInv
      <4>7. SlowMeasured'
        <5>1. slowing.first => syncs # << >> \/ resumed
          BY DEF SlowingIInv, MeanMeasured
        <5>2. slowing.huge => \E d \in ToSet(syncs) : d > HUGE_DELAY
          BY DEF SlowingIInv, MeanMeasured
        <5>3. toldSlow' => /\ slowing.first /\ slowing'.mean > InUnits(MAX_MEAN) /\ slowing'.first
                           /\ delay > HUGE_DELAY => slowing.huge \/ slowing.mean > InUnits(MAX_MEAN)
          BY <4>1, <4>2 DEF TestIsSound
        <5>4. syncs # << >> => ToSet(syncs) # {}
          <6>1. syncs \in Seq(Readings)
            BY DEF SlowingIInv, SlowingTypes
          <6> QED
            BY <6>1 DEF ToSet
        <5> QED
          BY <5>1, <5>2, <5>3, <5>4, <4>2, <4>3 DEF SlowMeasured
      <4> QED
        BY <4>4, <4>5, <4>6, <4>7 DEF SlowingIInv
    <3> QED
      BY <3>1, <3>2
  <2>3. ASSUME NEW polling \in BOOLEAN, NEW forced \in BOOLEAN, NextSlowing(polling, forced)
        PROVE  SlowingIInv'
    <3>1. /\ slowing' \in Handlers /\ slowing'.mean = slowing.mean /\ slowing'.huge = FALSE
          /\ slowing.mean \in Int
      BY <2>3, HandlerParts DEF NextSlowing, SetMean, NewHandler, SlowingIInv, SlowingTypes, Handlers
    <3>2. SlowingTypes'
      <4>1. /\ syncsAndSessions \in 0..MaxSyncs /\ syncs \in Seq(Readings) /\ Len(syncs) <= syncsAndSessions
            /\ before \in Int /\ Len(syncs) \in Nat
        BY DEF SlowingIInv, SlowingTypes
      <4>2. polls' \in Pollings
        BY <2>3 DEF NextSlowing, Pollings
      <4> QED
        <5>1. /\ syncsAndSessions' = syncsAndSessions + 1 /\ syncsAndSessions < MaxSyncs
              /\ syncs' = syncs /\ before' = before
              /\ answered' = FALSE /\ resumed' = TRUE /\ toldSlow' = FALSE
          BY <2>3 DEF NextSlowing
        <5>2. syncsAndSessions' \in 0..MaxSyncs /\ Len(syncs) <= syncsAndSessions'
          BY <4>1, <5>1, SyncsAreBounded
        <5> QED
          BY <3>1, <4>1, <4>2, <5>1, <5>2 DEF SlowingTypes
    <3>3. ~answered' /\ resumed' /\ ~toldSlow' /\ syncs' = syncs
      BY <2>3 DEF NextSlowing
    <3> QED
      BY <3>1, <3>2, <3>3 DEF SlowingIInv, MeanInRange, MeanMeasured, SlowMeasured
  <2>4. ASSUME UNCHANGED slowingVars PROVE SlowingIInv'
    BY <2>4 DEF slowingVars, SlowingIInv, SlowingTypes, MeanInRange, MeanMeasured, SlowMeasured
  <2> QED
    BY <2>1, <2>2, <2>3, <2>4 DEF SlowingNext
<1> QED
  BY <1>1, <1>2, PTL DEF SlowingSpec

(* Whatever the delays, the session is told that its stream is slow only when
   delays were measured that make it so (SlowingHandler: testSync). *)
THEOREM StreamIsSlowAsMeasured == SlowingSpec => []SlowIsMeasured
<1>1. SlowingIInv => SlowIsMeasured
  <2> SUFFICES ASSUME SlowingIInv PROVE SlowIsMeasured
    OBVIOUS
  <2>1. slowing.mean \in Int /\ ToSet(syncs) \in SUBSET Int /\ IsFiniteSet(ToSet(syncs)) /\ syncs \in Seq(Readings)
    <3>1. slowing.mean \in Int /\ syncs \in Seq(Readings)
      BY HandlerParts DEF SlowingIInv, SlowingTypes
    <3> QED
      BY <3>1, ReadingsAreIntegers, ToSetFinite, SequenceElements
  <2> DEFINE ds == ToSet(syncs) \cup {0}
  <2>2. ds \in SUBSET Int /\ IsFiniteSet(ds) /\ ds # {}
    BY <2>1, FS_AddElement
  <2>3. Max(ds) \in ds /\ \A x \in ds : Max(ds) >= x
    <3> HIDE DEF ds
    <3> QED
      BY <2>2, MaxProperty
  <2>4. PICK d \in ds : slowing.mean <= InUnits(d)
    BY DEF SlowingIInv, MeanMeasured, MeanIsOf
  <2>5. slowing.mean <= InUnits(Max(ds))
    <3>1. PICK m \in Int : m = Max(ds)
      BY <2>2, <2>3
    <3>2. d \in Int /\ d <= m
      BY <2>2, <2>3, <3>1
    <3>3. InUnits(d) \in Int /\ InUnits(m) \in Int /\ InUnits(d) <= InUnits(m)
      BY <3>1, <3>2, InUnitsCompares
    <3> QED
      BY <2>1, <2>4, <3>1, <3>3
  <2>6. ASSUME toldSlow PROVE GetDelay(slowing) >= MAX_MEAN /\ \E delay \in ToSet(syncs) : delay > MAX_MEAN
    <3>1. slowing.first /\ slowing.mean > InUnits(MAX_MEAN)
      BY <2>6 DEF SlowingIInv, SlowMeasured
    <3>2. PICK u \in Nat \ {0} : u = UNIT
      BY UnitIsPositive
    <3>3. slowing.mean > 0
      BY <3>1, <3>2, <2>1 DEF InUnits, MAX_MEAN
    <3>4. GetDelay(slowing) >= MAX_MEAN
      BY <3>1, <3>3, <2>1, WholeMilliseconds DEF GetDelay, MAX_MEAN
    <3>5. ~(d <= MAX_MEAN)
      <4>1. d \in Int /\ MAX_MEAN \in Int
        BY <2>2 DEF MAX_MEAN
      <4>2. InUnits(d) \in Int /\ InUnits(MAX_MEAN) \in Int /\ (d <= MAX_MEAN => InUnits(d) <= InUnits(MAX_MEAN))
        BY <4>1, InUnitsCompares
      <4> QED
        BY <4>2, <3>1, <2>1, <2>4
    <3>6. d > MAX_MEAN /\ d # 0
      BY <3>5, <2>2 DEF MAX_MEAN
    <3> QED
      BY <3>4, <3>6
  <2> QED
    BY <2>5, <2>6 DEF SlowingIInv, SlowMeasured, SlowIsMeasured
<1> QED
  BY <1>1, SlowingInductive, PTL

(* The types of the handler. *)
LEMMA SlowingTyped == SlowingSpec => []SlowingTypeOK
<1>1. SlowingIInv => SlowingTypeOK
  <2> SUFFICES ASSUME SlowingIInv PROVE SlowingTypeOK
    OBVIOUS
  <2>1. slowing \in Handlers /\ SlowingTypes /\ MeanInRange
    BY DEF SlowingIInv, SlowingTypes
  <2>2. slowing.mean \in InUnits(Early)..InUnits(Max(Delays))
    <3>1. InUnits(Early) \in Int /\ InUnits(Max(Delays)) \in Int
      <4>1. Early \in Int /\ Max(Delays) \in Int
        BY ReadingsAreIntegers DEF Early
      <4> QED
        BY <4>1, InUnitsCompares
    <3>2. slowing.mean \in Int
      BY <2>1 DEF Handlers
    <3> QED
      BY <2>1, <3>1, <3>2 DEF MeanInRange
  <2>3. slowing \in [mean : InUnits(Early)..InUnits(Max(Delays)), first : BOOLEAN, huge : BOOLEAN]
    BY <2>1, <2>2 DEF Handlers
  <2>4. Len(syncs) <= MaxSyncs
    BY <2>1, SlowingAssumption DEF SlowingTypes
  <2> QED
    BY <2>1, <2>3, <2>4 DEF SlowingTypes, Pollings, SlowingTypeOK
<1> QED
  BY <1>1, SlowingInductive, PTL

-----------------------------------------------------------------------------
(* The threads that work on queues. *)

(* A task is in hand just while the worker runs it. *)
HandIsBusy == worker = "running" <=> inHand # <<>>

(* A call that returned leaves no worker, and join waits with an empty queue. *)
EndLeavesNone ==
  /\ ender = "done" => worker = "none"
  /\ owner = "CSJoinableExecutor" /\ ender = "joining" => jobs = <<>>

(* Whoever queues a task with the flag down finds no worker to replace. *)
IdleHasNoWorker ==
  ~running => IF owner = "EventsThread" THEN ender # "none"
              ELSE ender \in {"joining", "done"} \/ worker = "none"

WorkerIInv == WorkerTypeOK /\ HandIsBusy /\ EndLeavesNone /\ IdleHasNoWorker

(* A step of the queue, or none. *)
QueueStep == [Queue!Next]_(Queue!queueVars)

-----------------------------------------------------------------------------
(* What is appended leaves the sequence as a prefix. *)
LEMMA AppendIsPrefix ==
  ASSUME NEW S, NEW s \in Seq(S), NEW e \in S
  PROVE  /\ Append(s, e) \in Seq(S)
         /\ Len(Append(s, e)) = Len(s) + 1 /\ Queue!IsPrefix(s, Append(s, e))
BY DEF Queue!IsPrefix

(* The first of a sequence, and the rest of it. *)
LEMMA HeadAndTail ==
  ASSUME NEW S, NEW s \in Seq(S), s # <<>>
  PROVE  Head(s) \in S /\ Tail(s) \in Seq(S) /\ <<Head(s)>> \in Seq(S)
OBVIOUS

(* There is an empty sequence of anything. *)
LEMMA NoTasks ==
  ASSUME NEW S
  PROVE  <<>> \in Seq(S)
OBVIOUS

(* A step that leaves tasks, hand, owner and end alone is a stutter. *)
LEMMA Stutter ==
  ASSUME UNCHANGED <<jobs, inHand, owner>>, ender' = "done" <=> ender = "done"
  PROVE  QueueStep
<1>1. (ender' = "done") = (ender = "done")
  OBVIOUS
<1>2. (owner' = "CSJoinableExecutor") = (owner = "CSJoinableExecutor")
  OBVIOUS
<1> QED
  BY <1>1, <1>2 DEF QueueStep, Queue!queueVars

(* Queueing a task is the Put of the queue. *)
LEMMA QueueTaskStep ==
  ASSUME WorkerIInv, QueueTask
  PROVE  WorkerIInv' /\ QueueStep
<1>1. /\ queued \in Nat /\ queued + 1 \in 1..MaxTasks /\ queued + 1 \in 0..MaxTasks
      /\ jobs \in Seq(1..MaxTasks) /\ jobs' = Append(jobs, queued + 1)
  BY WorkerAssumption DEF QueueTask, WorkerIInv, WorkerTypeOK
<1>2. jobs' \in Seq(1..MaxTasks) /\ Len(jobs') = Len(jobs) + 1 /\ Queue!IsPrefix(jobs, jobs')
  BY <1>1, AppendIsPrefix
<1>3. ender' # "done"
  BY DEF QueueTask, WorkerIInv, EndLeavesNone
<1>4. WorkerTypeOK'
  <2>1. queued' \in 0..MaxTasks /\ jobs' \in Seq(1..MaxTasks) /\ inHand' \in Seq(1..MaxTasks)
    BY <1>1, <1>2 DEF QueueTask, WorkerIInv, WorkerTypeOK
  <2>2. worker' \in {"none", "test", "lock", "tested", "asleep", "running", "gone"}
    BY DEF QueueTask, WorkerIInv, WorkerTypeOK, Notified
  <2>3. /\ ender' \in {"none", "asleep", "woken", "stopped", "joining", "done"}
        /\ owner' = owner /\ running' \in BOOLEAN /\ missed' \in BOOLEAN
    BY DEF QueueTask, WorkerIInv, WorkerTypeOK
  <2> QED
    BY <2>1, <2>2, <2>3 DEF WorkerIInv, WorkerTypeOK
<1>5. HandIsBusy' /\ EndLeavesNone' /\ IdleHasNoWorker'
  BY <1>3 DEF QueueTask, WorkerIInv, WorkerTypeOK, HandIsBusy, EndLeavesNone, IdleHasNoWorker, LockIsFree, Notified
<1>6. (ender' = "done") = FALSE
  BY <1>3
<1>7. (owner' = "CSJoinableExecutor") = (owner = "CSJoinableExecutor")
  BY DEF QueueTask
<1>8. Queue!Put
  BY <1>2, <1>6, <1>7 DEF QueueTask, Queue!Put
<1> QED
  BY <1>4, <1>5, <1>8 DEF WorkerIInv, QueueStep, Queue!Next

(* Taking a task is the Start of the queue; anything else the worker does   *)
(* with the lock leaves the tasks alone. *)
LEMMA WorkerLooksStep ==
  ASSUME WorkerIInv, WorkerLooks
  PROVE  WorkerIInv' /\ QueueStep
<1>1. inHand = <<>> /\ ender # "done"
  BY DEF WorkerLooks, WorkerIInv, HandIsBusy, EndLeavesNone
<1>2. CASE jobs # <<>> /\ TakeTask
  <2>1. jobs' \in Seq(1..MaxTasks) /\ inHand' \in Seq(1..MaxTasks) /\ inHand' # <<>>
    BY <1>2, HeadAndTail DEF TakeTask, WorkerIInv, WorkerTypeOK
  <2>2. WorkerIInv'
    BY <1>1, <1>2, <2>1
    DEF WorkerLooks, TakeTask, WorkerIInv, WorkerTypeOK, HandIsBusy, EndLeavesNone, IdleHasNoWorker
  <2>3. (ender' = "done") = (ender = "done") /\ (owner' = "CSJoinableExecutor") = (owner = "CSJoinableExecutor")
    BY DEF WorkerLooks
  <2>4. Queue!Start
    BY <1>1, <1>2, <2>3 DEF TakeTask, Queue!Start
  <2> QED
    BY <2>2, <2>4 DEF QueueStep, Queue!Next
<1>3. CASE UNCHANGED <<jobs, inHand>> /\ worker' \in {"gone", "tested"}
  <2>1. WorkerIInv'
    BY <1>1, <1>3 DEF WorkerLooks, WorkerIInv, WorkerTypeOK, HandIsBusy, EndLeavesNone, IdleHasNoWorker
  <2>2. QueueStep
    BY <1>3, Stutter DEF WorkerLooks
  <2> QED
    BY <2>1, <2>2
<1> QED
  BY <1>2, <1>3 DEF WorkerLooks

(* A task that returns is the Finish of the queue. *)
LEMMA RunTaskStep ==
  ASSUME WorkerIInv, RunTask
  PROVE  WorkerIInv' /\ QueueStep
<1>1. inHand # <<>>
  BY DEF RunTask, WorkerIInv, HandIsBusy
<1>2. WorkerIInv'
  BY DEF RunTask, WorkerIInv, WorkerTypeOK, HandIsBusy, EndLeavesNone, IdleHasNoWorker
<1>3. (ender' = "done") = (ender = "done") /\ (owner' = "CSJoinableExecutor") = (owner = "CSJoinableExecutor")
  BY DEF RunTask
<1>4. Queue!Finish
  BY <1>1, <1>3 DEF RunTask, Queue!Finish
<1> QED
  BY <1>2, <1>4 DEF QueueStep, Queue!Next

(* The return of the destructor, or of join, is the End of the queue: no    *)
(* task runs, and join leaves none in the queue. *)
LEMMA EndReturnsStep ==
  ASSUME WorkerIInv, EndReturns
  PROVE  WorkerIInv' /\ QueueStep
<1>1. inHand = <<>> /\ (owner = "CSJoinableExecutor" => jobs = <<>>)
  BY DEF EndReturns, WorkerIInv, HandIsBusy, EndLeavesNone
<1>2. WorkerIInv'
  BY DEF EndReturns, WorkerIInv, WorkerTypeOK, HandIsBusy, EndLeavesNone, IdleHasNoWorker
<1>3. (ender' = "done") = TRUE /\ (owner' = "CSJoinableExecutor") = (owner = "CSJoinableExecutor")
  BY DEF EndReturns
<1>4. Queue!End
  BY <1>1, <1>3 DEF EndReturns, Queue!End
<1> QED
  BY <1>2, <1>4 DEF QueueStep, Queue!Next

(* The worker's tests and waits leave the tasks alone. *)
LEMMA WaitStep ==
  ASSUME WorkerIInv, WorkerTests \/ WorkerSleeps \/ WaitEnds \/ WorkerAwakes
  PROVE  WorkerIInv' /\ QueueStep
<1>1. worker \in {"test", "tested", "asleep"} /\ worker' \in {"lock", "gone", "asleep", "test"}
  BY DEF WorkerTests, WorkerSleeps, WaitEnds, WorkerAwakes
<1>2. UNCHANGED <<owner, queued, jobs, running, inHand, ender, missed>>
  BY DEF WorkerTests, WorkerSleeps, WaitEnds, WorkerAwakes
<1>3. WorkerIInv'
  BY <1>1, <1>2 DEF WorkerIInv, WorkerTypeOK, HandIsBusy, EndLeavesNone, IdleHasNoWorker
<1> QED
  BY <1>2, <1>3, Stutter

(* The destructor and join, up to their return, leave the tasks alone.      *)
LEMMA EnderGoesOn ==
  ASSUME WorkerIInv, RaiseStop \/ NotifyStop \/ Join \/ JoinAwakes
  PROVE  WorkerIInv' /\ QueueStep
<1>1. CASE RaiseStop \/ NotifyStop
  <2>1. WorkerIInv'
    BY <1>1 DEF RaiseStop, NotifyStop, Notified, WorkerIInv, WorkerTypeOK, HandIsBusy, EndLeavesNone, IdleHasNoWorker
  <2> QED
    BY <1>1, <2>1, Stutter DEF RaiseStop, NotifyStop
<1>2. CASE Join \/ JoinAwakes
  <2>1. WorkerIInv'
    BY <1>2 DEF Join, JoinAwakes, WorkerIInv, WorkerTypeOK, HandIsBusy, EndLeavesNone, IdleHasNoWorker
  <2> QED
    BY <1>2, <2>1, Stutter DEF Join, JoinAwakes
<1> QED
  BY <1>1, <1>2
-----------------------------------------------------------------------------
(* Both start with nothing to do. *)
LEMMA WorkerInitStep ==
  ASSUME WorkerInit
  PROVE  WorkerIInv /\ Queue!Init
<1>1. WorkerIInv
  <2>1. 0 \in 0..MaxTasks
    BY WorkerAssumption
  <2>2. WorkerTypeOK
    BY <2>1, NoTasks DEF WorkerInit, WorkerTypeOK
  <2>3. HandIsBusy /\ EndLeavesNone /\ IdleHasNoWorker
    BY DEF WorkerInit, HandIsBusy, EndLeavesNone, IdleHasNoWorker
  <2> QED
    BY <2>2, <2>3 DEF WorkerIInv
<1>2. (ender = "done") = FALSE /\ (owner = "CSJoinableExecutor") \in BOOLEAN
  BY DEF WorkerInit
<1> QED
  BY <1>1, <1>2 DEF WorkerInit, Queue!Init

(* Every step keeps the invariant and is a step of the queue, or none. *)
LEMMA WorkerNextStep ==
  ASSUME WorkerIInv, [WorkerNext]_workerVars
  PROVE  WorkerIInv' /\ QueueStep
<1>1. CASE UNCHANGED workerVars
  <2>1. WorkerIInv'
    BY <1>1 DEF workerVars, WorkerIInv, WorkerTypeOK, HandIsBusy, EndLeavesNone, IdleHasNoWorker
  <2> QED
    BY <1>1, <2>1, Stutter DEF workerVars
<1>2. CASE WorkerStep
  BY <1>2, WorkerLooksStep, RunTaskStep, WaitStep DEF WorkerStep
<1>3. CASE WorkerNext /\ ~WorkerStep
  BY <1>3, QueueTaskStep, EndReturnsStep, WaitStep, EnderGoesOn DEF WorkerNext
<1> QED
  BY <1>1, <1>2, <1>3

(* A task is in hand just while the worker runs it, and a call that returned *)
(* leaves no worker, nor a task that join waited for.                        *)
THEOREM WorkerInductive == WorkerInit /\ [][WorkerNext]_workerVars => []WorkerIInv
<1>1. WorkerInit => WorkerIInv
  BY WorkerInitStep
<1>2. WorkerIInv /\ [WorkerNext]_workerVars => WorkerIInv'
  BY WorkerNextStep
<1> QED
  BY <1>1, <1>2, PTL

(* EventsThread and CSJoinableExecutor run what was queued once, in order    *)
(* and one at a time, nothing once they have ended, and join of the latter   *)
(* returns only after every task has run; however the threads are scheduled.   *)
THEOREM ThreadsAreAQueue == WorkerInit /\ [][WorkerNext]_workerVars => ImplementsQueue
<1>1. WorkerInit => Queue!Init
  BY WorkerInitStep
<1>2. WorkerIInv /\ [WorkerNext]_workerVars => [Queue!Next]_(Queue!queueVars)
  BY WorkerNextStep DEF QueueStep
<1> QED
  BY <1>1, <1>2, WorkerInductive, PTL DEF ImplementsQueue, Queue!Spec

(* The types of the threads. *)
LEMMA WorkerTyped == WorkerInit /\ [][WorkerNext]_workerVars => []WorkerTypeOK
<1>1. WorkerIInv => WorkerTypeOK
  BY DEF WorkerIInv
<1> QED
  BY <1>1, WorkerInductive, PTL

-----------------------------------------------------------------------------
(* The server that requests go to. *)

IsLive  == stage \in {"open", "recovering"}
Address == PushServerAddress(session)

AddressTypes ==
  /\ stage \in {"off", "creating", "recovering", "open"}
  /\ session \in [cache : Links, own : Links, ignore : BOOLEAN, id : SessionIds \cup {NoId}]
  /\ serverAddress \in Links /\ controlLink \in Links /\ socket \in Links /\ serversLink \in Links
  /\ reached \in [SessionIds -> SUBSET Links]
  /\ waiting \subseteq SessionIds \X Links
  /\ ignored \in BOOLEAN
  /\ IsLive => session.id \in SessionIds
  /\ stage = "creating" => session.id < MaxIds

(* A session over HTTP has neither a WebSocket nor a link for one.           *)
HttpHasNoSocket == overHttp => controlLink = NoAddress /\ socket = NoAddress

(* What waits is of the session, unless Session objects were shared, and     *)
(* nothing is left by one over HTTP.                                         *)
WaitingIsOwn ==
  /\ \A w \in waiting : /\ w[1] <= session.id
                        /\ w[1] \in tainted \/ (stage # "creating" /\ w[1] = session.id)
  /\ stage = "off" /\ overHttp => waiting = {}

(* Everything of a live session has its address. *)
LiveHasAddress ==
  IsLive /\ session.id \notin tainted =>
    /\ \A w \in waiting : w[2] = Address
    /\ reached[session.id] \subseteq {Address}
    /\ socket \in {NoAddress, Address} /\ controlLink \in {NoAddress, Address}
    /\ serversLink # NoAddress /\ ~session.ignore => Address = serversLink

(* A session to come has at most a WebSocket, to the configured address. *)
NextIsFresh ==
  stage = "creating" /\ session.id + 1 \notin tainted =>
    /\ waiting = {} /\ controlLink = NoAddress /\ session.own = NoAddress
    /\ socket \in {NoAddress, session.cache}
UnbornReachNone == \A id \in SessionIds : id > session.id => reached[id] = {}

ReachOne == \A id \in SessionIds \ tainted : \E a \in Links : reached[id] \subseteq {a}

Rest == AddressTypes /\ HttpHasNoSocket /\ WaitingIsOwn /\ LiveHasAddress /\ NextIsFresh /\ UnbornReachNone
AddressIInv == Rest /\ ReachOne
-----------------------------------------------------------------------------
(* The numbers of sessions. *)
LEMMA SessionNumbers == SessionIds \subseteq Nat /\ NoId \in Nat /\ NoId \notin SessionIds
BY AddressAssumption DEF SessionIds, NoId

(* The address of a session is one of the links. *)
LEMMA AddressIsLink ==
  ASSUME AddressTypes
  PROVE  Address \in Links
BY DEF AddressTypes, Address, PushServerAddress, Or

(* Where requests go: those of other sessions stay as they are. *)
LEMMA GoesStep ==
  ASSUME AddressTypes, NEW qs, NEW a \in Links, Goes(qs, a)
  PROVE  /\ reached' \in [SessionIds -> SUBSET Links]
         /\ \A id \in SessionIds : /\ reached[id] \subseteq reached'[id] /\ reached'[id] \subseteq reached[id] \cup {a}
                                   /\ (\A q \in qs : q[1] # id) => reached'[id] = reached[id]
BY DEF AddressTypes, Goes

(* Requests that go to the address of a live session reach one server. *)
LEMMA ReachOneStep ==
  ASSUME AddressIInv, IsLive, NEW qs, NEW a \in Links, Goes(qs, a), UNCHANGED <<session, tainted>>,
         \A q \in qs : q[1] \in tainted \/ q[1] = session.id,
         \A q \in qs : q[1] <= session.id,
         session.id \notin tainted => a = Address
  PROVE  /\ reached' \in [SessionIds -> SUBSET Links]
         /\ ReachOne' /\ UnbornReachNone'
         /\ session.id \notin tainted => reached'[session.id] \subseteq {Address}
<1>1. /\ reached' \in [SessionIds -> SUBSET Links]
      /\ \A id \in SessionIds : /\ reached'[id] \subseteq reached[id] \cup {a}
                                /\ (\A q \in qs : q[1] # id) => reached'[id] = reached[id]
  BY GoesStep DEF AddressIInv, Rest
<1>2. session.id \in SessionIds
  BY DEF AddressIInv, Rest, AddressTypes
<1>3. session.id \notin tainted => reached'[session.id] \subseteq {Address}
  BY <1>1, <1>2 DEF AddressIInv, Rest, LiveHasAddress
<1>4. ReachOne'
  <2> SUFFICES ASSUME NEW id \in SessionIds \ tainted
               PROVE  \E b \in Links : reached'[id] \subseteq {b}
    BY DEF ReachOne
  <2>1. CASE id = session.id
    BY <1>3, <2>1, AddressIsLink DEF AddressIInv, Rest
  <2>2. CASE id # session.id
    <3>1. reached'[id] = reached[id]
      BY <1>1, <2>2
    <3> QED
      BY <3>1 DEF AddressIInv, ReachOne
  <2> QED
    BY <2>1, <2>2
<1>5. UnbornReachNone'
  <2> SUFFICES ASSUME NEW id \in SessionIds, id > session.id
               PROVE  reached'[id] = {}
    BY DEF UnbornReachNone
  <2>0. id \in Nat /\ session.id \in Nat
    BY <1>2, SessionNumbers
  <2>1. \A q \in qs : q[1] # id
    <3> SUFFICES ASSUME NEW q \in qs, q[1] = id
                 PROVE  FALSE
      OBVIOUS
    <3>1. id <= session.id
      OBVIOUS
    <3> QED
      BY <2>0, <3>1
  <2> QED
    BY <1>1, <2>1 DEF AddressIInv, Rest, UnbornReachNone
<1> QED
  BY <1>1, <1>3, <1>4, <1>5
-----------------------------------------------------------------------------
(* The steps. *)

(* The configuration concerns sessions to come. *)
LEMMA ConfigureStep ==
  ASSUME AddressIInv, Configure
  PROVE  AddressIInv'
<1>1. UNCHANGED <<stage, session, overHttp, controlLink, socket, serversLink, waiting, reached, tainted>>
      /\ serverAddress' \in Links /\ ignored' \in BOOLEAN
  BY DEF Configure, AddressIInv, Rest, AddressTypes, Links
<1> QED
  BY <1>1 DEF AddressIInv, Rest, AddressTypes, HttpHasNoSocket, WaitingIsOwn, LiveHasAddress, NextIsFresh, UnbornReachNone,
              ReachOne, IsLive, Address, PushServerAddress

(* A new session leaves what waits only where it shares the Session object. *)
LEMMA CreateSessionStep ==
  ASSUME AddressIInv, CreateSession
  PROVE  AddressIInv'
<1>t. AddressTypes /\ HttpHasNoSocket /\ WaitingIsOwn /\ UnbornReachNone /\ ReachOne
  BY DEF AddressIInv, Rest
<1>1. /\ stage = "off" /\ stage' = "creating" /\ session.id < MaxIds
      /\ session' = [cache |-> serverAddress, own |-> NoAddress, ignore |-> ignored, id |-> session.id]
      /\ serversLink' = NoAddress /\ UNCHANGED <<serverAddress, ignored, reached>>
      /\ socket' \in {NoAddress} \cup (IF overHttp' THEN {} ELSE {Or(controlLink', PushServerAddress(session'))})
  BY DEF CreateSession, configured
<1>2. \/ controlLink' = NoAddress /\ waiting' = {} /\ tainted' = tainted
      \/ /\ UNCHANGED <<overHttp, controlLink, waiting>>
         /\ tainted' = tainted \cup (IF overHttp THEN {} ELSE {session.id, session.id + 1})
  BY DEF CreateSession
<1>3. Or(NoAddress, serverAddress) = serverAddress /\ PushServerAddress(session') = serverAddress
  BY <1>1 DEF Or, PushServerAddress
<1>4. socket' \in Links /\ controlLink' \in Links
  BY <1>t, <1>1, <1>2, <1>3 DEF AddressTypes, Or, Links
<1>5. AddressTypes' /\ ~IsLive'
  BY <1>t, <1>1, <1>2, <1>4 DEF AddressTypes, IsLive, Links
<1>6. HttpHasNoSocket'
  BY <1>t, <1>1, <1>2 DEF HttpHasNoSocket
<1>7. WaitingIsOwn'
  <2>1. CASE waiting' = {}
    BY <1>1, <2>1 DEF WaitingIsOwn
  <2>2. CASE waiting' # {}
    <3>1. ~overHttp /\ waiting' = waiting /\ tainted' = tainted \cup {session.id, session.id + 1}
      BY <1>t, <1>1, <1>2, <2>2 DEF WaitingIsOwn
    <3> QED
      BY <1>t, <1>1, <3>1 DEF WaitingIsOwn
  <2> QED
    BY <2>1, <2>2
<1>8. NextIsFresh'
  <2> SUFFICES ASSUME session'.id + 1 \notin tainted'
               PROVE  /\ waiting' = {} /\ controlLink' = NoAddress /\ session'.own = NoAddress
                      /\ socket' \in {NoAddress, session'.cache}
    BY DEF NextIsFresh
  <2>1. waiting' = {} /\ controlLink' = NoAddress
    BY <1>t, <1>1, <1>2 DEF WaitingIsOwn, HttpHasNoSocket
  <2> QED
    BY <1>1, <1>3, <2>1
<1>9. UnbornReachNone' /\ ReachOne'
  BY <1>t, <1>1, <1>2 DEF UnbornReachNone, ReachOne
<1> QED
  BY <1>5, <1>6, <1>7, <1>8, <1>9 DEF AddressIInv, Rest, LiveHasAddress

(* The answer to a creation fixes the address of the session for good. *)
LEMMA OnOKReceivedStep ==
  ASSUME AddressIInv, OnOKReceived
  PROVE  AddressIInv'
<1>t. /\ AddressTypes /\ HttpHasNoSocket /\ WaitingIsOwn /\ LiveHasAddress /\ NextIsFresh
      /\ UnbornReachNone /\ ReachOne
  BY DEF AddressIInv, Rest
<1>1. PICK link \in Links :
        /\ stage = "recovering" => link \in {serversLink, NoAddress}
        /\ serversLink' = (IF stage = "creating" THEN link ELSE serversLink)
        /\ session' = [session EXCEPT !.own = AddressToUse(link), !.id = IF stage = "creating" THEN @ + 1 ELSE @]
        /\ LET changed == ~overHttp /\ Address # AddressToUse(link)
           IN  /\ controlLink' = (IF changed THEN AddressToUse(link) ELSE controlLink)
               /\ socket' = (IF changed /\ socket # NoAddress THEN AddressToUse(link) ELSE socket)
  BY <1>t DEF OnOKReceived, AddressTypes, Links, Address
<1>2. /\ stage \in {"creating", "recovering"} /\ stage' = "open"
      /\ UNCHANGED <<serverAddress, ignored, overHttp, waiting, reached, tainted>>
  BY DEF OnOKReceived, configured
<1>3. Address \in Links /\ AddressToUse(link) \in Links
  BY <1>t, AddressIsLink DEF AddressToUse, Address
<1>4. Address' = AddressToUse(link)
  BY <1>1, <1>t DEF Address, PushServerAddress, Or, AddressToUse, AddressTypes
<1>5. session'.id \in SessionIds /\ session'.id = IF stage = "creating" THEN session.id + 1 ELSE session.id
  <2>1. session.id \in Nat
    BY <1>t, SessionNumbers DEF AddressTypes
  <2>2. session'.id = IF stage = "creating" THEN session.id + 1 ELSE session.id
    BY <1>t, <1>1 DEF AddressTypes
  <2>3. CASE stage = "creating"
    BY <1>t, <2>1, <2>2, <2>3, AddressAssumption DEF AddressTypes, SessionIds
  <2>4. CASE stage = "recovering"
    BY <1>t, <2>2, <2>4 DEF AddressTypes, IsLive
  <2> QED
    BY <1>2, <2>2, <2>3, <2>4
<1>n. session.id \in Nat /\ session'.id \in Nat /\ session.id <= session'.id
  <2>1. session.id \in Nat
    BY <1>t, SessionNumbers DEF AddressTypes
  <2> QED
    BY <1>5, <2>1
<1>6. AddressTypes' /\ HttpHasNoSocket'
  <2>1. session' \in [cache : Links, own : Links, ignore : BOOLEAN, id : SessionIds \cup {NoId}]
    BY <1>t, <1>1, <1>3, <1>5 DEF AddressTypes
  <2>2. controlLink' \in Links /\ socket' \in Links /\ serversLink' \in Links
    BY <1>t, <1>1, <1>3 DEF AddressTypes
  <2>3. HttpHasNoSocket'
    BY <1>t, <1>1, <1>2 DEF HttpHasNoSocket
  <2> QED
    BY <1>t, <1>2, <1>5, <2>1, <2>2, <2>3 DEF AddressTypes
<1>7. WaitingIsOwn'
  <2>1. \A w \in waiting : w[1] \in Nat
    BY <1>t, SessionNumbers DEF AddressTypes
  <2> QED
    BY <1>t, <1>2, <1>5, <1>n, <2>1 DEF WaitingIsOwn
<1>8. LiveHasAddress'
  <2> SUFFICES ASSUME session'.id \notin tainted
               PROVE  /\ \A w \in waiting : w[2] = Address'
                      /\ reached[session'.id] \subseteq {Address'}
                      /\ socket' \in {NoAddress, Address'} /\ controlLink' \in {NoAddress, Address'}
                      /\ serversLink' # NoAddress /\ ~session'.ignore => Address' = serversLink'
    BY <1>2 DEF LiveHasAddress
  <2>1. session'.ignore = session.ignore
    BY <1>t, <1>1 DEF AddressTypes
  <2>2. CASE stage = "creating"
    <3>1. /\ waiting = {} /\ controlLink = NoAddress /\ session.own = NoAddress
          /\ socket \in {NoAddress, session.cache}
      BY <1>t, <1>5, <2>2 DEF NextIsFresh
    <3>2. Address = session.cache
      BY <3>1 DEF Address, PushServerAddress, Or
    <3>3. reached[session'.id] = {}
      BY <1>t, <1>5, <1>n, <2>2 DEF UnbornReachNone
    <3>4. socket' \in {NoAddress, Address'} /\ controlLink' \in {NoAddress, Address'}
      BY <1>t, <1>1, <1>4, <3>1, <3>2 DEF HttpHasNoSocket
    <3>5. serversLink' # NoAddress /\ ~session.ignore => Address' = serversLink'
      BY <1>1, <1>4, <2>2 DEF AddressToUse
    <3> QED
      BY <2>1, <3>1, <3>3, <3>4, <3>5
  <2>3. CASE stage = "recovering"
    <3>1. session'.id = session.id /\ IsLive /\ serversLink' = serversLink
      BY <1>1, <1>5, <2>3 DEF IsLive
    <3>2. /\ \A w \in waiting : w[2] = Address
          /\ reached[session.id] \subseteq {Address}
          /\ socket \in {NoAddress, Address} /\ controlLink \in {NoAddress, Address}
          /\ serversLink # NoAddress /\ ~session.ignore => Address = serversLink
      BY <1>t, <3>1 DEF LiveHasAddress
    <3>3. Address' = Address
      BY <1>1, <1>4, <2>3, <3>2 DEF AddressToUse, Address
    <3>4. socket' = socket /\ controlLink' = controlLink
      BY <1>1, <1>4, <3>3
    <3> QED
      BY <2>1, <3>1, <3>2, <3>3, <3>4
  <2> QED
    BY <1>2, <2>2, <2>3
<1>9. UnbornReachNone'
  <2> SUFFICES ASSUME NEW id \in SessionIds, id > session'.id
               PROVE  reached[id] = {}
    BY <1>2 DEF UnbornReachNone
  <2>1. id \in Nat
    BY SessionNumbers
  <2> QED
    BY <1>t, <1>n, <2>1 DEF UnbornReachNone
<1> QED
  BY <1>t, <1>2, <1>6, <1>7, <1>8, <1>9 DEF AddressIInv, Rest, NextIsFresh, ReachOne

(* The answer to a bind names the same address again. *)
LEMMA OnBoundStep ==
  ASSUME AddressIInv, OnBound
  PROVE  AddressIInv'
<1>t. AddressTypes /\ HttpHasNoSocket /\ WaitingIsOwn /\ LiveHasAddress /\ UnbornReachNone /\ ReachOne
  BY DEF AddressIInv, Rest
<1>1. PICK link \in {serversLink, NoAddress} : session' = [session EXCEPT !.own = AddressToUse(link)]
  BY DEF OnBound
<1>2. /\ stage = "open"
      /\ UNCHANGED <<serverAddress, ignored, stage, overHttp, controlLink, socket, serversLink, waiting, reached, tainted>>
  BY DEF OnBound, configured
<1>3. Address \in Links /\ AddressToUse(link) \in Links
  BY <1>t, AddressIsLink DEF AddressToUse, Address, AddressTypes
<1>4. session'.id = session.id /\ session'.ignore = session.ignore /\ Address' = AddressToUse(link)
  BY <1>1, <1>t DEF Address, PushServerAddress, Or, AddressToUse, AddressTypes
<1>5. AddressTypes'
  <2>1. session' \in [cache : Links, own : Links, ignore : BOOLEAN, id : SessionIds \cup {NoId}]
    BY <1>t, <1>1, <1>3 DEF AddressTypes
  <2> QED
    BY <1>t, <1>2, <1>4, <2>1 DEF AddressTypes, IsLive
<1>6. LiveHasAddress'
  <2>1. session.id \notin tainted => Address' = Address
    BY <1>t, <1>2, <1>4 DEF LiveHasAddress, IsLive, AddressToUse, Address
  <2> QED
    BY <1>t, <1>2, <1>4, <2>1 DEF LiveHasAddress, IsLive
<1> QED
  BY <1>t, <1>2, <1>4, <1>5, <1>6 DEF AddressIInv, Rest, HttpHasNoSocket, WaitingIsOwn, NextIsFresh, UnbornReachNone, ReachOne

(* A request that is made waits with the address of its session. *)
LEMMA MakeRequestStep ==
  ASSUME AddressIInv, MakeRequest
  PROVE  AddressIInv'
<1>t. AddressTypes /\ WaitingIsOwn /\ LiveHasAddress
  BY DEF AddressIInv, Rest
<1>1. /\ stage = "open" /\ waiting' = waiting \cup {<<session.id, Address>>}
      /\ UNCHANGED <<serverAddress, ignored, stage, session, overHttp, controlLink, socket, serversLink, reached, tainted>>
  BY DEF MakeRequest, configured, Address
<1>2. Address \in Links /\ Address' = Address /\ session.id \in SessionIds /\ session.id \in Nat
  BY <1>t, <1>1, AddressIsLink, SessionNumbers DEF AddressTypes, IsLive, Address, PushServerAddress
<1>3. AddressTypes'
  BY <1>t, <1>1, <1>2 DEF AddressTypes, IsLive
<1>4. WaitingIsOwn'
  BY <1>t, <1>1, <1>2 DEF WaitingIsOwn
<1>5. LiveHasAddress'
  BY <1>t, <1>1, <1>2 DEF LiveHasAddress, IsLive
<1> QED
  BY <1>1, <1>3, <1>4, <1>5 DEF AddressIInv, Rest, HttpHasNoSocket, NextIsFresh, UnbornReachNone, ReachOne

(* A step of a live session that sends some of its requests to its address,  *)
(* and may leave others waiting, keeps the invariant.                         *)
LEMMA SendWaitingStep ==
  ASSUME AddressIInv, IsLive, NEW qs, NEW a \in Links, Goes(qs, a),
         \A q \in qs : q \in waiting \/ q[1] = session.id,
         session.id \notin tainted => a = Address,
         waiting' \subseteq waiting, stage' \in {"open", "recovering", "off"},
         stage' = "off" /\ overHttp' => waiting' = {},
         UNCHANGED <<serverAddress, ignored, session, serversLink, tainted>>, controlLink' \in {controlLink, NoAddress},
         socket' \in Links, overHttp' => controlLink' = NoAddress /\ socket' = NoAddress,
         session.id \notin tainted => socket' \in {NoAddress, Address}
  PROVE  AddressIInv'
<1>t. AddressTypes /\ WaitingIsOwn /\ LiveHasAddress
  BY DEF AddressIInv, Rest
<1>1. session.id \in SessionIds /\ session.id \in Nat /\ Address' = Address
  BY <1>t, SessionNumbers DEF AddressTypes, Address, PushServerAddress
<1>2. /\ \A q \in qs : q[1] \in tainted \/ q[1] = session.id
      /\ \A q \in qs : q[1] <= session.id
  BY <1>t, <1>1 DEF WaitingIsOwn
<1>3. /\ reached' \in [SessionIds -> SUBSET Links] /\ ReachOne' /\ UnbornReachNone'
      /\ session.id \notin tainted => reached'[session.id] \subseteq {Address}
  BY <1>2, ReachOneStep
<1>4. AddressTypes'
  BY <1>t, <1>1, <1>3 DEF AddressTypes, Links
<1>5. WaitingIsOwn' /\ HttpHasNoSocket'
  BY <1>t DEF WaitingIsOwn, HttpHasNoSocket
<1>6. LiveHasAddress'
  BY <1>t, <1>1, <1>3 DEF LiveHasAddress
<1> QED
  BY <1>3, <1>4, <1>5, <1>6 DEF AddressIInv, Rest, NextIsFresh

(* A request that goes to nobody: wherever that would have been. *)
LEMMA GoesNowhere ==
  ASSUME AddressTypes, NEW a, NEW b, Goes({}, a) \/ reached' = reached
  PROVE  Goes({}, b) /\ reached' = reached
<1>1. \A c : Goes({}, c) => \A id \in SessionIds : reached'[id] = reached[id]
  BY DEF Goes
<1>2. \A c : Goes({}, c) => reached' = reached
  <2> SUFFICES ASSUME NEW c, Goes({}, c)
               PROVE  reached' = reached
    OBVIOUS
  <2>1. reached' = [id \in SessionIds |-> reached'[id]]
    BY DEF Goes
  <2> QED
    BY <1>1, <2>1 DEF AddressTypes
<1>3. reached' = reached => Goes({}, b)
  <2> SUFFICES ASSUME reached' = reached
               PROVE  Goes({}, b)
    OBVIOUS
  <2>1. \A id \in SessionIds : reached[id] \cup {b : r \in {q \in {} : q[1] = id}} = reached[id]
    OBVIOUS
  <2> QED
    BY <2>1 DEF Goes, AddressTypes
<1> QED
  BY <1>2, <1>3

(* The request that forces a rebind goes to the address at once. *)
LEMMA ForceRebindStep ==
  ASSUME AddressIInv, ForceRebind
  PROVE  AddressIInv'
<1>t. AddressTypes /\ HttpHasNoSocket /\ WaitingIsOwn /\ LiveHasAddress
  BY DEF AddressIInv, Rest
<1>1. /\ stage = "open" /\ stage' = stage /\ Goes({<<session.id, NoAddress>>}, Address)
      /\ UNCHANGED <<serverAddress, ignored, session, overHttp, controlLink, socket, serversLink, waiting, tainted>>
  BY DEF ForceRebind, configured, Address
<1>2. IsLive /\ Address \in Links /\ socket \in Links
  BY <1>t, <1>1, AddressIsLink DEF IsLive, AddressTypes
<1>3. /\ overHttp => controlLink = NoAddress /\ socket = NoAddress
      /\ session.id \notin tainted => socket \in {NoAddress, Address}
  BY <1>t, <1>2 DEF HttpHasNoSocket, LiveHasAddress
<1>4. \A q \in {<<session.id, NoAddress>>} : q[1] = session.id
  OBVIOUS
<1> QED
  BY <1>1, <1>2, <1>3, <1>4, SendWaitingStep

(* What waits goes where the first of it is to go, or the WebSocket leads.   *)
LEMMA SendQueuedStep ==
  ASSUME AddressIInv, SendQueued
  PROVE  AddressIInv'
<1>t. AddressTypes /\ HttpHasNoSocket /\ LiveHasAddress
  BY DEF AddressIInv, Rest
<1>1. /\ stage = "open" /\ stage' = stage /\ waiting' = {} /\ (overHttp \/ socket # NoAddress)
      /\ UNCHANGED <<serverAddress, ignored, session, overHttp, controlLink, socket, serversLink, tainted>>
  BY DEF SendQueued, configured
<1>2. PICK first \in waiting : Goes(waiting, IF overHttp THEN first[2] ELSE socket)
  BY DEF SendQueued
<1> DEFINE a == IF overHttp THEN first[2] ELSE socket
<1>3. IsLive /\ a \in Links /\ socket \in Links
  BY <1>t, <1>1, <1>2 DEF IsLive, AddressTypes
<1>4. /\ overHttp => controlLink = NoAddress /\ socket = NoAddress
      /\ session.id \notin tainted => socket \in {NoAddress, Address}
      /\ session.id \notin tainted => a = Address
  BY <1>t, <1>1, <1>2, <1>3 DEF HttpHasNoSocket, LiveHasAddress
<1>5. Goes(waiting, a)
  BY <1>2
<1> HIDE DEF a
<1> QED
  BY <1>1, <1>3, <1>4, <1>5, SendWaitingStep

(* A bind goes to the address, and so does the WebSocket it opens. *)
LEMMA BindAtAddressStep ==
  ASSUME AddressIInv, BindAtAddress
  PROVE  AddressIInv'
<1>t. AddressTypes /\ HttpHasNoSocket /\ WaitingIsOwn /\ LiveHasAddress
  BY DEF AddressIInv, Rest
<1> DEFINE a == IF overHttp THEN Address ELSE socket'
<1>1. /\ stage = "open" /\ stage' = stage /\ Goes({<<session.id, NoAddress>>}, a)
      /\ UNCHANGED <<serverAddress, ignored, session, overHttp, controlLink, serversLink, waiting, tainted>>
      /\ socket' = (IF overHttp THEN socket ELSE Or(socket, Or(controlLink, Address)))
  BY DEF BindAtAddress, configured, Address
<1>2. IsLive /\ Address \in Links
  BY <1>t, <1>1, AddressIsLink DEF IsLive
<1>3. socket' \in Links /\ a \in Links
  BY <1>t, <1>1, <1>2 DEF AddressTypes, Or
<1>4. /\ overHttp => controlLink = NoAddress /\ socket' = NoAddress
      /\ session.id \notin tainted => socket' \in {NoAddress, Address} /\ a = Address
  BY <1>t, <1>1, <1>2 DEF HttpHasNoSocket, LiveHasAddress, Or
<1>5. \A q \in {<<session.id, NoAddress>>} : q[1] = session.id
  OBVIOUS
<1> HIDE DEF a
<1> QED
  BY <1>1, <1>2, <1>3, <1>4, <1>5, SendWaitingStep

(* The session that takes over has the address of this one, and no socket.   *)
LEMMA TakeOverStep ==
  ASSUME AddressIInv, TakeOver
  PROVE  AddressIInv'
<1>t. AddressTypes
  BY DEF AddressIInv, Rest
<1>1. /\ stage = "open" /\ stage' \in {"open", "recovering"} /\ controlLink' = NoAddress /\ socket' = NoAddress
      /\ UNCHANGED <<serverAddress, ignored, session, serversLink, waiting, tainted>>
  BY DEF TakeOver, configured
<1>2. IsLive /\ Address \in Links
  BY <1>t, <1>1, AddressIsLink DEF IsLive
<1>3. PICK qs \in {{}, {<<session.id, NoAddress>>}} : Goes(qs, Address)
  BY <1>t, GoesNowhere DEF TakeOver, Address
<1>4. \A q \in qs : q[1] = session.id
  BY <1>3
<1>5. NoAddress \in Links
  BY DEF Links
<1> QED
  BY <1>1, <1>2, <1>3, <1>4, <1>5, SendWaitingStep

(* A closed session leaves what waits for its WebSocket. *)
LEMMA CloseAtAddressStep ==
  ASSUME AddressIInv, CloseAtAddress
  PROVE  AddressIInv'
<1>t. AddressTypes /\ HttpHasNoSocket /\ WaitingIsOwn /\ LiveHasAddress
  BY DEF AddressIInv, Rest
<1> DEFINE qs == IF stage = "open" /\ ~overHttp /\ socket # NoAddress THEN {<<session.id, NoAddress>>} ELSE {}
<1>1. /\ stage # "off" /\ stage' = "off" /\ Goes(qs, socket)
      /\ waiting' = IF overHttp THEN {} ELSE waiting
      /\ UNCHANGED <<serverAddress, ignored, session, overHttp, controlLink, socket, serversLink, tainted>>
  BY DEF CloseAtAddress, configured
<1>2. CASE stage = "creating"
  <2>1. reached' = reached
    BY <1>t, <1>1, <1>2, GoesNowhere
  <2>2. AddressTypes'
    BY <1>t, <1>1, <2>1 DEF AddressTypes, IsLive
  <2>3. WaitingIsOwn'
    BY <1>t, <1>1, <1>2 DEF WaitingIsOwn
  <2> QED
    BY <1>1, <2>1, <2>2, <2>3
    DEF AddressIInv, Rest, HttpHasNoSocket, LiveHasAddress, IsLive, NextIsFresh, UnbornReachNone, ReachOne
<1>3. CASE stage # "creating"
  <2>1. IsLive /\ Address \in Links /\ socket \in Links
    BY <1>t, <1>1, <1>3, AddressIsLink DEF IsLive, AddressTypes
  <2>2. /\ overHttp => controlLink = NoAddress /\ socket = NoAddress
        /\ session.id \notin tainted => socket \in {NoAddress, Address}
    BY <1>t, <2>1 DEF HttpHasNoSocket, LiveHasAddress
  <2>3. PICK a \in Links : Goes(qs, a) /\ (session.id \notin tainted => a = Address)
    <3>1. CASE qs = {}
      BY <1>t, <1>1, <2>1, <3>1, GoesNowhere
    <3>2. CASE qs # {}
      BY <1>1, <2>1, <2>2, <3>2
    <3> QED
      BY <3>1, <3>2
  <2>4. \A q \in qs : q[1] = session.id
    OBVIOUS
  <2> HIDE DEF qs
  <2> QED
    BY <1>1, <2>1, <2>2, <2>3, <2>4, SendWaitingStep
<1> QED
  BY <1>2, <1>3
-----------------------------------------------------------------------------
(* Before the first session there is nothing. *)
LEMMA AddressInitStep ==
  ASSUME AddressInit
  PROVE  AddressIInv
<1>1. NoId \in Nat /\ NoId \notin SessionIds
  BY SessionNumbers
<1>2. AddressTypes /\ ~IsLive
  BY <1>1 DEF AddressInit, AddressTypes, IsLive, Links
<1>3. ReachOne
  BY DEF AddressInit, ReachOne, Links
<1> QED
  BY <1>2, <1>3
  DEF AddressInit, AddressIInv, Rest, HttpHasNoSocket, WaitingIsOwn, LiveHasAddress, NextIsFresh, UnbornReachNone

(* Every step keeps the invariant. *)
LEMMA AddressNextStep ==
  ASSUME AddressIInv, [AddressNext]_addressVars
  PROVE  AddressIInv'
<1>1. CASE UNCHANGED addressVars
  <2>1. AddressTypes' /\ HttpHasNoSocket' /\ WaitingIsOwn'
    BY <1>1 DEF addressVars, AddressIInv, Rest, AddressTypes, HttpHasNoSocket, WaitingIsOwn, IsLive
  <2>2. LiveHasAddress' /\ NextIsFresh'
    BY <1>1 DEF addressVars, AddressIInv, Rest, LiveHasAddress, NextIsFresh, IsLive, Address, PushServerAddress
  <2>3. UnbornReachNone' /\ ReachOne'
    BY <1>1 DEF addressVars, AddressIInv, Rest, UnbornReachNone, ReachOne
  <2> QED
    BY <2>1, <2>2, <2>3 DEF AddressIInv, Rest
<1>2. CASE AddressNext
  <2>1. CASE Configure \/ CreateSession \/ OnOKReceived \/ OnBound \/ MakeRequest
    BY <2>1, ConfigureStep, CreateSessionStep, OnOKReceivedStep, OnBoundStep, MakeRequestStep
  <2>2. CASE ForceRebind \/ SendQueued \/ BindAtAddress \/ TakeOver \/ CloseAtAddress
    BY <2>2, ForceRebindStep, SendQueuedStep, BindAtAddressStep, TakeOverStep, CloseAtAddressStep
  <2> QED
    BY <1>2, <2>1, <2>2 DEF AddressNext
<1> QED
  BY <1>1, <1>2

(* A live session has one address, and all that waits or is connected for    *)
(* it, but where Session objects were shared, has that address.              *)
THEOREM AddressInductive == AddressSpec => []AddressIInv
<1> QED
  BY AddressInitStep, AddressNextStep, PTL DEF AddressSpec

(* All requests of a session go to one server, but those of sessions over a  *)
(* WebSocket that shared a Session object.                                   *)
THEOREM SessionHasOneServer == AddressSpec => []OneServerPerSession
<1>1. AddressIInv => OneServerPerSession
  <2> SUFFICES ASSUME AddressIInv, NEW id \in SessionIds \ tainted
               PROVE  Cardinality(reached[id]) <= 1
    BY DEF OneServerPerSession
  <2>1. PICK a \in Links : reached[id] \subseteq {a}
    BY DEF AddressIInv, ReachOne
  <2>2. reached[id] = {} \/ reached[id] = {a}
    BY <2>1
  <2>3. Cardinality({}) = 0 /\ Cardinality({a}) = 1
    BY FS_EmptySet, FS_Singleton
  <2> QED
    BY <2>2, <2>3
<1> QED
  BY <1>1, AddressInductive, PTL

(* Requests are made, and go, to addresses: a session has one once it is under *)
(* way, and its number once it has one.                                       *)
HasAddress == session.cache \in Addresses
AddressesAreKnown ==
  /\ AddressTypeOK
  /\ stage # "off" => HasAddress
  /\ stage = "creating" => session.id < MaxIds
  /\ stage \in {"open", "recovering"} => session.id \in SessionIds

(* Requests that go to an address. *)
LEMMA GoesToAddresses ==
  ASSUME reached \in [SessionIds -> SUBSET Addresses], NEW qs, NEW a, qs = {} \/ a \in Addresses, Goes(qs, a)
  PROVE  reached' \in [SessionIds -> SUBSET Addresses]
<1>1. \A id \in SessionIds : reached[id] \cup {a : r \in {q \in qs : q[1] = id}} \in SUBSET Addresses
  OBVIOUS
<1> QED
  BY <1>1 DEF Goes

(* The address of a session that has one. *)
LEMMA PushIsAddress ==
  ASSUME AddressTypeOK, HasAddress
  PROVE  PushServerAddress(session) \in Addresses
BY DEF AddressTypeOK, HasAddress, PushServerAddress, Or, Links

(* And the one it goes on with. *)
LEMMA ToUseIsAddress ==
  ASSUME AddressTypeOK, HasAddress, NEW link \in Links
  PROVE  AddressToUse(link) \in Addresses
BY PushIsAddress DEF AddressToUse, Links

(* SessionNumbers of sessions. *)
LEMMA NumbersOfSessions ==
  /\ SessionIds \subseteq Nat /\ NoId \in Nat
  /\ \A id \in SessionIds \cup {NoId} : id < MaxIds => id + 1 \in SessionIds
BY AddressAssumption DEF SessionIds, NoId

(* The fields of a session. *)
LEMMA SessionFields ==
  ASSUME AddressTypeOK
  PROVE  /\ session.cache \in Links /\ session.own \in Links /\ session.ignore \in BOOLEAN
         /\ session.id \in SessionIds \cup {NoId}
         /\ session = [cache |-> session.cache, own |-> session.own, ignore |-> session.ignore, id |-> session.id]
BY DEF AddressTypeOK

(* Whatever the addresses, the variables have their types: requests go to     *)
(* addresses that the user or the server named.                              *)
THEOREM AddressTyped == AddressSpec => []AddressTypeOK
<1>1. AddressInit => AddressesAreKnown
  <2> SUFFICES ASSUME AddressInit PROVE AddressesAreKnown
    OBVIOUS
  <2>1. session \in [cache : Links, own : Links, ignore : BOOLEAN, id : SessionIds \cup {NoId}]
    BY DEF AddressInit, Links
  <2>2. reached \in [SessionIds -> SUBSET Addresses]
    BY DEF AddressInit
  <2> QED
    BY <2>1, <2>2 DEF AddressInit, AddressesAreKnown, AddressTypeOK, Links
<1>2. AddressesAreKnown /\ [AddressNext]_addressVars => AddressesAreKnown'
  <2> SUFFICES ASSUME AddressesAreKnown, [AddressNext]_addressVars PROVE AddressesAreKnown'
    OBVIOUS
  <2>0. AddressTypeOK
    BY DEF AddressesAreKnown
  <2>1. CASE Configure
    BY <2>0, <2>1, Zenon DEF Configure, AddressesAreKnown, AddressTypeOK, HasAddress
  <2>2. CASE CreateSession
    <3>1. /\ stage = "off" /\ session.id < MaxIds /\ stage' = "creating"
          /\ session' = [cache |-> serverAddress, own |-> NoAddress, ignore |-> ignored, id |-> session.id]
          /\ serversLink' = NoAddress /\ UNCHANGED <<configured, reached>>
      BY <2>2 DEF CreateSession
    <3>2. session' \in [cache : Links, own : Links, ignore : BOOLEAN, id : SessionIds \cup {NoId}]
      BY <2>0, <3>1, SessionFields DEF AddressTypeOK, Links
    <3>3. HasAddress' /\ session'.id < MaxIds
      BY <2>0, <3>1 DEF HasAddress, AddressTypeOK
    <3>4. PICK fresh \in BOOLEAN :
            IF fresh \/ session.id = NoId
            THEN /\ overHttp' \in BOOLEAN /\ controlLink' = NoAddress
                 /\ waiting' = {} /\ UNCHANGED tainted
            ELSE /\ UNCHANGED <<overHttp, controlLink, waiting>>
                 /\ tainted' = tainted \cup (IF overHttp THEN {} ELSE {session.id, session.id + 1})
      BY <2>2 DEF CreateSession
    <3>5. /\ overHttp' \in BOOLEAN /\ controlLink' \in Links /\ waiting' \subseteq (SessionIds \X Addresses)
          /\ tainted' \subseteq SessionIds
      <4>1. CASE fresh \/ session.id = NoId
        <5>1. overHttp' \in BOOLEAN /\ controlLink' = NoAddress /\ waiting' = {} /\ UNCHANGED tainted
          BY <3>4, <4>1
        <5> QED
          BY <2>0, <5>1 DEF AddressTypeOK, Links
      <4>2. CASE ~(fresh \/ session.id = NoId)
        <5>1. /\ UNCHANGED <<overHttp, controlLink, waiting>>
              /\ tainted' = tainted \cup (IF overHttp THEN {} ELSE {session.id, session.id + 1})
          BY <3>4, <4>2
        <5>2. session.id \in SessionIds /\ session.id + 1 \in SessionIds
          BY <2>0, <3>1, <4>2, SessionFields, NumbersOfSessions
        <5>3. tainted' \subseteq SessionIds
          BY <2>0, <5>1, <5>2 DEF AddressTypeOK
        <5> QED
          BY <2>0, <5>1, <5>3 DEF AddressTypeOK
      <4> QED
        BY <4>1, <4>2
    <3>6. socket' \in Links
      <4>1. PushServerAddress(session') \in Links
        BY <2>0, <3>1 DEF PushServerAddress, Or, AddressTypeOK, Links
      <4>2. Or(controlLink', PushServerAddress(session')) \in Links
        BY <3>5, <4>1 DEF Or
      <4>3. socket' \in {NoAddress} \cup (IF overHttp' THEN {} ELSE {Or(controlLink', PushServerAddress(session'))})
        BY <2>2 DEF CreateSession
      <4> QED
        BY <4>2, <4>3 DEF Links
    <3> QED
      BY <2>0, <3>1, <3>2, <3>3, <3>5, <3>6 DEF AddressesAreKnown, AddressTypeOK, configured, Links
  <2>3. CASE OnOKReceived
    <3>1. /\ stage \in {"creating", "recovering"} /\ stage' = "open"
          /\ UNCHANGED <<configured, overHttp, waiting, reached, tainted>>
      BY <2>3 DEF OnOKReceived
    <3>2. HasAddress
      BY <3>1 DEF AddressesAreKnown
    <3>3. PICK link \in (IF stage = "creating" THEN Links ELSE {serversLink, NoAddress}) :
            /\ serversLink' = (IF stage = "creating" THEN link ELSE serversLink)
            /\ session' = [session EXCEPT !.own = AddressToUse(link), !.id = IF stage = "creating" THEN @ + 1 ELSE @]
            /\ LET changed == ~overHttp /\ PushServerAddress(session) # AddressToUse(link)
               IN  /\ controlLink' = (IF changed THEN AddressToUse(link) ELSE controlLink)
                   /\ socket' = (IF changed /\ socket # NoAddress THEN AddressToUse(link) ELSE socket)
      BY <2>3 DEF OnOKReceived
    <3>4. link \in Links
      BY <2>0 DEF AddressTypeOK, Links
    <3>5. AddressToUse(link) \in Addresses
      BY <2>0, <3>2, <3>4, ToUseIsAddress
    <3>6. serversLink' \in Links /\ controlLink' \in Links /\ socket' \in Links
      BY <2>0, <3>3, <3>4, <3>5 DEF AddressTypeOK, Links
    <3>7. session'.id \in SessionIds
      <4>1. CASE stage = "creating"
        <5>1. session'.id = session.id + 1
          BY <2>0, <3>3, <4>1 DEF AddressTypeOK
        <5> QED
          BY <2>0, <4>1, <5>1, SessionFields, NumbersOfSessions DEF AddressesAreKnown
      <4>2. CASE stage # "creating"
        <5>1. session'.id = session.id
          BY <2>0, <3>3, <4>2 DEF AddressTypeOK
        <5> QED
          BY <3>1, <4>2, <5>1 DEF AddressesAreKnown
      <4> QED
        BY <4>1, <4>2
    <3>8. /\ session' \in [cache : Links, own : Links, ignore : BOOLEAN, id : SessionIds \cup {NoId}]
          /\ session'.cache = session.cache
      <4>1. session' = [session EXCEPT !.own = AddressToUse(link), !.id = session'.id]
        BY <2>0, <3>3 DEF AddressTypeOK
      <4> QED
        BY <2>0, <3>5, <3>7, <4>1 DEF AddressTypeOK, Links
    <3> QED
      BY <2>0, <3>1, <3>2, <3>6, <3>7, <3>8 DEF AddressesAreKnown, AddressTypeOK, configured, HasAddress
  <2>4. CASE OnBound
    <3>1. stage = "open" /\ UNCHANGED <<configured, stage, overHttp, controlLink, socket, serversLink, waiting, reached, tainted>>
      BY <2>4 DEF OnBound
    <3>2. PICK link \in {serversLink, NoAddress} : session' = [session EXCEPT !.own = AddressToUse(link)]
      BY <2>4 DEF OnBound
    <3>3. AddressToUse(link) \in Addresses /\ HasAddress
      BY <2>0, <3>1, ToUseIsAddress DEF AddressesAreKnown, AddressTypeOK, Links
    <3>4. /\ session' \in [cache : Links, own : Links, ignore : BOOLEAN, id : SessionIds \cup {NoId}]
          /\ session'.cache = session.cache /\ session'.id = session.id
      BY <2>0, <3>2, <3>3 DEF AddressTypeOK, Links
    <3> QED
      BY <2>0, <3>1, <3>3, <3>4 DEF AddressesAreKnown, AddressTypeOK, configured, HasAddress
  <2>5. CASE MakeRequest \/ ForceRebind \/ SendQueued \/ BindAtAddress
    <3>1. stage = "open" /\ UNCHANGED <<configured, stage, session, overHttp, controlLink, serversLink, tainted>>
      BY <2>5 DEF MakeRequest, ForceRebind, SendQueued, BindAtAddress
    <3>2. HasAddress /\ session.id \in SessionIds
      BY <3>1 DEF AddressesAreKnown
    <3>3. PushServerAddress(session) \in Addresses
      BY <2>0, <3>2, PushIsAddress
    <3>4. socket' \in Links
      BY <2>0, <2>5, <3>3 DEF MakeRequest, ForceRebind, SendQueued, BindAtAddress, Or, AddressTypeOK, Links
    <3>5. waiting' \subseteq (SessionIds \X Addresses)
      BY <2>0, <2>5, <3>2, <3>3 DEF MakeRequest, ForceRebind, SendQueued, BindAtAddress, AddressTypeOK
    <3>6. reached' \in [SessionIds -> SUBSET Addresses]
      <4>0. reached \in [SessionIds -> SUBSET Addresses]
        BY <2>0 DEF AddressTypeOK
      <4>1. CASE MakeRequest
        BY <4>0, <4>1 DEF MakeRequest
      <4>2. CASE ForceRebind
        BY <3>3, <4>0, <4>2, GoesToAddresses DEF ForceRebind
      <4>3. CASE SendQueued
        <5>1. PICK first \in waiting : Goes(waiting, IF overHttp THEN first[2] ELSE socket)
          BY <4>3 DEF SendQueued
        <5>2. (IF overHttp THEN first[2] ELSE socket) \in Addresses
          BY <2>0, <4>3 DEF SendQueued, AddressTypeOK, Links
        <5> QED
          BY <4>0, <5>1, <5>2, GoesToAddresses
      <4>4. CASE BindAtAddress
        <5>1. (IF overHttp THEN PushServerAddress(session) ELSE socket') \in Addresses
          BY <2>0, <3>3, <4>4 DEF BindAtAddress, Or, AddressTypeOK, Links
        <5> QED
          BY <4>0, <4>4, <5>1, GoesToAddresses DEF BindAtAddress
      <4> QED
        BY <2>5, <4>1, <4>2, <4>3, <4>4
    <3> QED
      BY <2>0, <3>1, <3>2, <3>4, <3>5, <3>6 DEF AddressesAreKnown, AddressTypeOK, configured, HasAddress
  <2>6. CASE TakeOver
    <3>1. /\ stage = "open" /\ stage' \in {"open", "recovering"} /\ UNCHANGED <<configured, session, serversLink, waiting, tainted>>
          /\ overHttp' \in BOOLEAN /\ controlLink' = NoAddress /\ socket' = NoAddress
      BY <2>6 DEF TakeOver
    <3>2. HasAddress /\ session.id \in SessionIds
      BY <3>1 DEF AddressesAreKnown
    <3>3. reached' \in [SessionIds -> SUBSET Addresses]
      <4>0. reached \in [SessionIds -> SUBSET Addresses]
        BY <2>0 DEF AddressTypeOK
      <4>1. PushServerAddress(session) \in Addresses
        BY <2>0, <3>2, PushIsAddress
      <4>2. reached' = reached \/ Goes({<<session.id, NoAddress>>}, PushServerAddress(session))
        BY <2>6 DEF TakeOver
      <4> QED
        BY <4>0, <4>1, <4>2, GoesToAddresses
    <3> QED
      BY <2>0, <3>1, <3>2, <3>3 DEF AddressesAreKnown, AddressTypeOK, configured, HasAddress, Links
  <2>7. CASE CloseAtAddress
    <3>1. /\ stage' = "off" /\ waiting' \subseteq waiting
          /\ UNCHANGED <<configured, session, overHttp, controlLink, socket, serversLink, tainted>>
          /\ Goes(IF stage = "open" /\ ~overHttp /\ socket # NoAddress THEN {<<session.id, NoAddress>>} ELSE {}, socket)
      BY <2>7 DEF CloseAtAddress
    <3>2. reached' \in [SessionIds -> SUBSET Addresses]
      BY <2>0, <3>1, GoesToAddresses DEF AddressTypeOK, Links
    <3> QED
      BY <2>0, <3>1, <3>2 DEF AddressesAreKnown, AddressTypeOK, configured
  <2>8. CASE UNCHANGED addressVars
    BY <2>8 DEF addressVars, AddressesAreKnown, AddressTypeOK, HasAddress
  <2> QED
    BY <2>1, <2>2, <2>3, <2>4, <2>5, <2>6, <2>7, <2>8 DEF AddressNext
<1>3. AddressesAreKnown => AddressTypeOK
  BY DEF AddressesAreKnown
<1> QED
  BY <1>1, <1>2, <1>3, PTL DEF AddressSpec
==============================================================================
