---------------------------- MODULE ListenableFuture ----------------------------
(***************************************************************************)
(* util/ListenableFuture: what the callers of sendBindRequest and of         *)
(* openWebSocketConnection wait on.  It is fulfilled, rejected or aborted,    *)
(* and runs the listeners of the outcome, those that come later at once.      *)
(*                                                                          *)
(* Each call holds the mutex to its end, so it is one step; its listeners     *)
(* run within it.  A listener that asks the future for anything waits for     *)
(* that mutex for ever, and all later calls with it: the future hangs.       *)
(***************************************************************************)
EXTENDS Naturals, Sequences, SequencesExt

CONSTANT MaxListeners   (* bound: listeners added *)
ASSUME FutureAssumption == MaxListeners \in Nat

VARIABLES
  future,      (* its state                                                *)
  listeners,     (* of both kinds, in the order they were added *)
  hangs,
  outcome      (* the first outcome it had                                 *)
listenableFutureVars == <<future, listeners, hangs, outcome>>

FutureStates == {"NOT_RESOLVED", "FULFILLED", "REJECTED", "ABORTED"}
Resolutions     == {"FULFILLED", "REJECTED"}
AListener    == [for : Resolutions, asks : BOOLEAN, late : BOOLEAN, ran : 0..2]
ListenableFutureTypeOK ==
  /\ future \in FutureStates /\ outcome \in FutureStates /\ hangs \in BOOLEAN
  /\ listeners \in Seq(AListener) /\ Len(listeners) <= MaxListeners
-----------------------------------------------------------------------------
NewListener(for, asks) == [for |-> for, asks |-> asks, late |-> future = "ABORTED", ran |-> 0]
Ran(l) == [l EXCEPT !.ran = @ + 1]

(* The listeners of an outcome run in turn, as far as one that asks. *)
Stops(ls, for) == {i \in DOMAIN ls : ls[i].for = for /\ ls[i].asks}
RunAll(for) ==
  /\ listeners' = [i \in DOMAIN listeners |->
                   IF listeners[i].for = for /\ (\A j \in 1..(i - 1) : j \notin Stops(listeners, for))
                   THEN Ran(listeners[i]) ELSE listeners[i]]
  /\ hangs' = (Stops(listeners, for) # {})

(* onFulfilled and onRejected. *)
Listen(l) ==
  /\ ~hangs /\ Len(listeners) < MaxListeners
  /\ listeners' = Append(listeners, IF future = l.for THEN Ran(l) ELSE l)
  /\ hangs' = (future = l.for /\ l.asks)
  /\ UNCHANGED <<future, outcome>>
OnFulfilled(asks) == Listen(NewListener("FULFILLED", asks))
OnRejected(asks)  == Listen(NewListener("REJECTED", asks))

FirstOutcome(state) == outcome' = IF outcome = "NOT_RESOLVED" THEN state ELSE outcome

(* Mutant: a future that was rejected can still be fulfilled. *)
FulfillUnlessFulfilled ==
  /\ ~hangs /\ future # "FULFILLED"
  /\ future' = "FULFILLED" /\ FirstOutcome("FULFILLED")
  /\ RunAll("FULFILLED")
(* fulfill and reject: only a future that is not resolved. *)
Fulfill ==
  /\ ~hangs /\ future = "NOT_RESOLVED"
  /\ future' = "FULFILLED" /\ FirstOutcome("FULFILLED")
  /\ RunAll("FULFILLED")
Reject ==
  /\ ~hangs /\ future = "NOT_RESOLVED"
  /\ future' = "REJECTED" /\ FirstOutcome("REJECTED")
  /\ RunAll("REJECTED")

(* abort looks at no state: a future that was fulfilled is aborted too. *)
AbortFuture ==
  /\ ~hangs
  /\ future' = "ABORTED" /\ FirstOutcome("ABORTED")
  /\ UNCHANGED <<listeners, hangs>>
-----------------------------------------------------------------------------
(* A new future, or one of fulfilled() and rejected(). *)
ListenableFutureInit ==
  /\ future \in {"NOT_RESOLVED"} \cup Resolutions /\ outcome = future
  /\ listeners = <<>> /\ hangs = FALSE

ListenableFutureNext ==
  \/ \E asks \in BOOLEAN : OnFulfilled(asks) \/ OnRejected(asks)
  \/ Fulfill \/ Reject \/ AbortFuture
ListenableFutureSpec == ListenableFutureInit /\ [][ListenableFutureNext]_listenableFutureVars
-----------------------------------------------------------------------------
(* Properties.                                                             *)

(* Each listener is told of the first outcome and of no other, once, in      *)
(* whatever order listeners are added and the future is resolved and          *)
(* aborted; of those for that outcome, only one that comes after an abort,    *)
(* which forgets the outcome, or behind one that never returns, is not told.  *)
ToldOnce ==
  \A i \in DOMAIN listeners :
    LET l == listeners[i]
    IN  /\ l.ran <= 1
        /\ l.ran = 1 => l.for = outcome
        /\ l.for = outcome /\ ~l.late /\ ~hangs => l.ran = 1
=================================================================================
