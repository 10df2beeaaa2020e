---------------------------- MODULE ControlChannel ----------------------------
(***************************************************************************)
(* What a manager of control requests promises to the session above it,     *)
(* whatever its transport does: a request it accepts is passed to the       *)
(* transport once, in the order of acceptance, or else to the manager that   *)
(* takes over.  The one exception is the last request passed on, which the   *)
(* next manager may be given again.  A request may also be refused, and then *)
(* it is none of the channel's business.                                    *)
(***************************************************************************)
EXTENDS Sequences, SequencesExt

CONSTANT Requests

VARIABLES
  pending,     (* accepted, in order, and not passed on *)
  delivered,   (* passed to the transport               *)
  handed       (* passed to the next manager            *)
channelVars == <<pending, delivered, handed>>

Fresh(r) == r \notin ToSet(pending \o delivered \o handed)

Init == pending = <<>> /\ delivered = <<>> /\ handed = <<>>

Accept(r) ==
  /\ Fresh(r)
  /\ pending' = Append(pending, r)
  /\ UNCHANGED <<delivered, handed>>

(* Only a request that finds none before it goes straight on. *)
PassOn(r) ==
  /\ Fresh(r) /\ pending = <<>>
  /\ delivered' = Append(delivered, r)
  /\ UNCHANGED <<pending, handed>>

Flush ==
  /\ delivered' = delivered \o pending
  /\ pending' = <<>>
  /\ UNCHANGED handed

HandOver ==
  /\ handed = <<>>
  /\ \/ handed' = pending
     \/ delivered # <<>> /\ handed' = <<Last(delivered)>> \o pending
  /\ pending' = <<>>
  /\ UNCHANGED delivered

Next == Flush \/ HandOver \/ \E r \in Requests : Accept(r) \/ PassOn(r)

Spec == Init /\ [][Next]_channelVars
=============================================================================
