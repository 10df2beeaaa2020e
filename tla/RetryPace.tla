------------------------------ MODULE RetryPace ------------------------------
(***************************************************************************)
(* The pace at which a session that cannot connect tries again: the         *)
(* RetryDelayCounter of the connection options, which the application may   *)
(* set anew at any time and three parts of the client increase, and the     *)
(* timeouts that Session launches from it.                                  *)
(*                                                                          *)
(* Time is in units.  timeLeft is that of the timeout of the phase; it may  *)
(* run late, never early, and the 50 milliseconds each timeout has on top   *)
(* are part of its being late.  Those of a created session, which follow    *)
(* its events, run when they like.  MaxDelay is the minute of the code.     *)
(***************************************************************************)
EXTENDS Integers, FiniteSets, FiniteSetsExt, RecursiveData

CONSTANTS
  RetryDelays,   (* values of ConnectionOptions.RetryDelay tried     *)
  MaxDelay,      (* the least upper limit of the delay               *)
  MaxAttempts,   (* bound: increases since the delay was set         *)
  MaxAge         (* bound: time since a request that is told apart   *)

ASSUME PaceAssumption ==
  /\ RetryDelays \subseteq Int /\ IsFiniteSet(RetryDelays) /\ \E d \in RetryDelays : d > 0
  /\ MaxDelay \in Nat \ {0} /\ MaxAttempts \in Nat /\ MaxAge \in Nat

VARIABLES
  retry,           (* the RetryDelayCounter                                  *)
  pacePhase,       (* Session.phase                                          *)
  age,             (* time since Session.sentTime                            *)
  timeLeft,        (* of the timeout of the phase                            *)
  failing,         (* no answer came since the last request                  *)
  leastDelay       (* the least delay called for since the last request      *)

paceVars == <<retry, pacePhase, age, timeLeft, failing, leastDelay>>

MaxOf(a, b) == IF a > b THEN a ELSE b
MinOf(a, b) == IF a < b THEN a ELSE b
Positive == {d \in RetryDelays : d > 0}
Highest  == Max(Positive \cup {MaxDelay})

(* A time that is told apart from no later one is past every delay. *)
ASSUME AgeAssumption == MaxAge >= Highest

PaceTypeOK ==
  /\ retry \in [min : Positive, max : 1..Highest, current : 1..Highest, attempt : 0..MaxAttempts]
  /\ pacePhase \in {"SLEEP", "CREATING", "CREATED"}
  /\ age \in 0..MaxAge /\ timeLeft \in 0..Highest
  /\ failing \in BOOLEAN /\ leastDelay \in 0..Highest
-----------------------------------------------------------------------------
(* RetryDelayCounter.  *)
DOUBLED_FROM == 9
RetryInit(delay) == [min |-> delay, max |-> MaxOf(MaxDelay, delay), current |-> delay, attempt |-> 0]

(* Mutant: the delay is doubled one attempt late. *)
IncreaseLate(r) ==
  [r EXCEPT !.current = IF r.attempt > DOUBLED_FROM /\ @ < r.max THEN MinOf(2 * @, r.max) ELSE @,
            !.attempt = @ + 1]
Increase(r) ==
  [r EXCEPT !.current = IF r.attempt >= DOUBLED_FROM /\ @ < r.max THEN MinOf(2 * @, r.max) ELSE @,
            !.attempt = @ + 1]

(* The delay that the attempts since it was set call for. *)
CalledFor(r) == MinOf(r.max, r.min * TwoToThe[MaxOf(0, r.attempt - DOUBLED_FROM)])

ChangeRetry(r) ==
  /\ retry' = r
  /\ leastDelay' = MinOf(leastDelay, CalledFor(r))

(* setRetryDelay: an argument that is not positive is refused. *)
SetRetryDelay(delay) ==
  /\ delay > 0
  /\ ChangeRetry(RetryInit(delay))
  /\ UNCHANGED <<pacePhase, age, timeLeft, failing>>

(* increaseConnectTimeout: the socket of WebSocketRequestManager is not open  *)
(* in time. *)
AbortSocket ==
  /\ retry.attempt < MaxAttempts
  /\ ChangeRetry(Increase(retry))
  /\ UNCHANGED <<pacePhase, age, timeLeft, failing>>
-----------------------------------------------------------------------------
(* Session.  *)

(* createSent, after the request: the timeout is getCurrentConnectTimeout. *)
CreateSent ==
  /\ pacePhase' = "CREATING" /\ age' = 0 /\ failing' = TRUE
  /\ timeLeft' = retry.current
  /\ leastDelay' = CalledFor(retry)
  /\ UNCHANGED retry

(* The timeout of the phase SLEEP creates a new session. *)
RetryTimeout ==
  /\ pacePhase = "SLEEP" /\ timeLeft = 0
  /\ CreateSent

(* onTimeout while CREATING: there was no answer, and the next attempt is     *)
(* made at once. *)
CreateTimeout ==
  /\ pacePhase = "CREATING" /\ timeLeft = 0 /\ retry.attempt < MaxAttempts
  /\ pacePhase' = "SLEEP"
  /\ ChangeRetry(Increase(retry))
  /\ UNCHANGED <<age, timeLeft, failing>>

CalculateRetryDelay == IF age > retry.current THEN 0 ELSE retry.current - age

(* doOnErrorEvent: the connection fails before or after the first answer. *)
CreateError ==
  /\ pacePhase \in {"CREATING", "CREATED"} /\ retry.attempt < MaxAttempts
  /\ pacePhase' = "SLEEP"
  /\ timeLeft' = CalculateRetryDelay
  /\ ChangeRetry(Increase(retry))
  /\ UNCHANGED <<age, failing>>

(* onOKReceived leaves the delay as it is. *)
AnswerReceived ==
  /\ pacePhase = "CREATING"
  /\ pacePhase' = "CREATED" /\ failing' = FALSE /\ timeLeft' = 0
  /\ UNCHANGED <<retry, age, leastDelay>>

(* The timeouts of a created session start a new one. *)
CreatedTimeout == pacePhase = "CREATED" /\ CreateSent

PaceTick ==
  /\ age' = MinOf(MaxAge, age + 1)
  /\ timeLeft' = MaxOf(0, timeLeft - 1)
  /\ UNCHANGED <<retry, pacePhase, failing, leastDelay>>
-----------------------------------------------------------------------------
PaceInit ==
  /\ \E delay \in Positive : retry = RetryInit(delay)
  /\ pacePhase = "SLEEP" /\ age = MaxAge /\ timeLeft = 0 /\ failing = FALSE /\ leastDelay = 0

PaceNext ==
  \/ \E delay \in RetryDelays : SetRetryDelay(delay)
  \/ AbortSocket \/ RetryTimeout \/ CreateTimeout \/ CreateError \/ AnswerReceived \/ CreatedTimeout \/ PaceTick
PaceSpec == PaceInit /\ [][PaceNext]_paceVars
-----------------------------------------------------------------------------
(* Properties.                                                             *)

(* After an attempt without an answer the next is made no sooner than the     *)
(* delay that the attempts up to then called for, doubled from the tenth on   *)
(* up to its limit, or the least of those the application set meanwhile.      *)
AttemptsArePaced == [][failing /\ RetryTimeout => age >= leastDelay]_paceVars
===============================================================================
