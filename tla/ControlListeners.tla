--------------------------- MODULE ControlListeners ---------------------------
(***************************************************************************)
(* The listeners of the control requests of a session over HTTP:            *)
(* BatchedListener of HttpRequestManager, one for each batch, hands each    *)
(* answer to the request's own listener (BaseControlRequestListener of      *)
(* TextProtocol), which tells the request's tutor and the session.          *)
(*                                                                          *)
(* Some subscriptions and forced rebindings are sent; HttpRequestManager    *)
(* has the queues in full, here all requests wait in one.  When the stream  *)
(* connection is replaced the requests on the wire go to the next manager   *)
(* with their listeners and tutors, as these are.  A request that is sent   *)
(* again has new ones and is not followed further.                          *)
(*                                                                          *)
(* The server answers the requests of a batch in order, or stops before.    *)
(***************************************************************************)
EXTENDS Naturals, Sequences, SequencesExt, RecursiveData

CONSTANTS
  MaxMembers,   (* bound: requests                                          *)
  MaxSwitches,  (* bound: stream connections after the first                *)
  MaxPhase      (* bound: changes of the session's phase                    *)

ASSUME ListenersAssumption == MaxMembers \in Nat \ {0} /\ MaxSwitches \in Nat /\ MaxPhase \in Nat

VARIABLES
  request,      (* each request: "subscription", "force_rebind" or "none"   *)
  asked,        (* the session's phase when it was made                     *)
  queue,        (* requests that wait in the manager                        *)
  batch,        (* those on the wire                                        *)
  wire,         (* their connection: "none", "connecting" or "open"         *)
  manager,      (* its status                                               *)
  messages,     (* the answers that arrived, BatchedListener.messages       *)
  opened,       (* of each listener                                         *)
  heard,        (* what the session was told                                *)
  timer,        (* is the tutor's timeout running                           *)
  discarded,    (* RequestTutor.discarded                                   *)
  again,        (* why it was sent again: "no", "timeout", "unopened"       *)
  aborted,      (* requests that were not sent on purpose                   *)
  sessionOpen,         (* is the session open                                      *)
  sessionPhase,        (* its phaseCount                                           *)
  switches

ofTutors   == <<timer, discarded, again, aborted>>
ofMembers  == <<opened, heard>>
listenVars == <<request, asked, queue, batch, wire, manager, messages, ofMembers, ofTutors, sessionOpen, sessionPhase, switches>>

Members == 1..MaxMembers
Answers == {"ok", "error", "syncError", "fatal", "illegal"}

ListenTypeOK ==
  /\ request \in [Members -> {"subscription", "force_rebind", "none"}] /\ asked \in [Members -> 0..MaxPhase]
  /\ queue \in Seq(Members) /\ batch \in Seq(Members)
  /\ (wire = "none" <=> batch = <<>>) /\ wire \in {"none", "connecting", "open"}
  /\ manager \in {"IDLE", "WAITING", "ENDING", "END"}
  /\ messages \in Seq(Answers) /\ Len(messages) <= Len(batch)
  /\ {opened, timer, discarded} \subseteq [Members -> BOOLEAN]
  /\ heard \in [Members -> Answers \cup {"nothing"}] /\ again \in [Members -> {"no", "timeout", "unopened"}]
  /\ aborted \subseteq Members
  /\ sessionOpen \in BOOLEAN /\ sessionPhase \in 0..MaxPhase /\ switches \in 0..MaxSwitches

Dismissed == manager \in {"ENDING", "END"}
-----------------------------------------------------------------------------
(* The tutors.  That of a forced rebinding is content once the session       *)
(* changed its phase, that of a subscription once it was answered.           *)
VerifyRequest(i) == IF request[i] = "force_rebind" THEN sessionPhase # asked[i] ELSE heard[i] # "nothing"
ShouldBeSent(i) == request[i] = "force_rebind" => sessionPhase = asked[i]

(* Which answer closes the session: onError of the listener hears only the   *)
(* others (forwardControlResponseError). *)
ClosesSession(answer) == answer \in {"syncError", "fatal", "illegal"}

(* onOK and onError: the listener of a subscription passes them to the       *)
(* session, that of a forced rebinding, for which the rebinding is the        *)
(* answer, drops an OK and discards its tutor at an error. *)
SubscriptionHears(i, answer) == request[i] = "subscription" /\ answer \in {"ok", "error"}
ForceRebindDiscards(i, answer) == request[i] = "force_rebind" /\ answer = "error"
-----------------------------------------------------------------------------
(* sendBatch: what still should be sent goes on the wire. *)
SendBatch ==
  /\ manager = "IDLE" /\ queue # <<>>
  /\ batch' = Kept(queue, {i \in Members : ShouldBeSent(i)}) /\ queue' = <<>>
  /\ aborted' = aborted \cup {i \in ToSet(queue) : ~ShouldBeSent(i)}
  /\ wire' = (IF batch' = <<>> THEN "none" ELSE "connecting")
  /\ manager' = (IF batch' = <<>> THEN "IDLE" ELSE "WAITING")
  /\ messages' = <<>>
  /\ UNCHANGED <<request, asked, ofMembers, timer, discarded, again, sessionOpen, sessionPhase, switches>>

(* onOpen of every listener: the tutor's timeout starts. *)
BatchOpens ==
  /\ wire = "connecting"
  /\ wire' = "open"
  /\ IF manager = "END" THEN UNCHANGED <<opened, timer>>
     ELSE /\ opened' = [i \in Members |-> opened[i] \/ Contains(batch, i)]
          /\ timer' = [i \in Members |-> timer[i] \/ Contains(batch, i)]
  /\ UNCHANGED <<request, asked, queue, batch, manager, messages, heard, discarded, again, aborted, sessionOpen, sessionPhase, switches>>

BatchMessage(answer) ==
  /\ wire = "open" /\ Len(messages) < Len(batch)
  /\ messages' = Append(messages, answer)
  /\ UNCHANGED <<request, asked, queue, batch, wire, manager, ofMembers, ofTutors, sessionOpen, sessionPhase, switches>>

(* onComplete of the manager, before the listeners are told. *)
AfterEnd == IF Dismissed THEN "END" ELSE "IDLE"
Over == wire' = "none" /\ batch' = <<>> /\ messages' = <<>>

(* The answer of the i-th request of the batch, if any. *)
AnswerOf(i) == LET at == IndexFirstSubSeq(<<i>>, batch) IN IF at <= Len(messages) THEN messages[at] ELSE "nothing"

(* The listeners are told in order, up to the first that throws, for its     *)
(* exception leaves the loop: one whose retransmission the dismissed manager  *)
(* refuses (that of a subscription is caught where it is sent), and, as a     *)
(* connection is closed, one whose answer ControlResponseParser cannot read.  *)
Throws(i, closed) ==
  \/ Dismissed /\ ~opened[i] /\ request[i] = "force_rebind"
  \/ closed /\ opened[i] /\ AnswerOf(i) = "illegal"
Told(closed) == {batch[n] : n \in {k \in DOMAIN batch : \A m \in 1..(k - 1) : ~Throws(batch[m], closed)}}

(* Of those told, the ones that never opened are sent again at once, which a *)
(* dismissed manager refuses. *)
Recovers(i, closed) == i \in Told(closed) /\ ~opened[i] /\ ~Dismissed

(* onClosed: what opened is told its answer, if there is one; of an exception *)
(* the session thread makes a fatal error. *)
BatchClosed ==
  LET Hears(i) == i \in Told(TRUE) /\ opened[i] /\ AnswerOf(i) # "nothing"
      closes == \E i \in Members : Hears(i) /\ ClosesSession(AnswerOf(i))
  IN  /\ wire # "none" /\ manager # "END"
      /\ heard' = [i \in Members |-> IF Hears(i) /\ SubscriptionHears(i, AnswerOf(i)) THEN AnswerOf(i) ELSE heard[i]]
      /\ discarded' = [i \in Members |-> discarded[i] \/ (Hears(i) /\ ForceRebindDiscards(i, AnswerOf(i)))]
      /\ again' = [i \in Members |-> IF Recovers(i, TRUE) THEN "unopened" ELSE again[i]]
      /\ sessionOpen' = (sessionOpen /\ ~closes)
      /\ manager' = (IF closes THEN "END" ELSE AfterEnd)
      /\ Over
      /\ UNCHANGED <<request, asked, queue, opened, timer, aborted, sessionPhase, switches>>

(* onBroken: the answers that came before are handed to the listeners, which *)
(* do not look at them any more. *)
BatchBroken ==
  /\ wire # "none" /\ manager # "END"
  /\ again' = [i \in Members |-> IF Recovers(i, FALSE) THEN "unopened" ELSE again[i]]
  /\ manager' = AfterEnd
  /\ Over
  /\ UNCHANGED <<request, asked, queue, opened, heard, timer, discarded, aborted, sessionOpen, sessionPhase, switches>>

(* The end of a connection the manager no longer follows. *)
EndUnheard ==
  /\ wire # "none" /\ manager = "END"
  /\ Over
  /\ UNCHANGED <<request, asked, queue, manager, ofMembers, ofTutors, sessionOpen, sessionPhase, switches>>
-----------------------------------------------------------------------------
(* RequestTutor.OnTimeout.                                                 *)
ListenerTimeout(i) ==
  /\ timer[i]
  /\ timer' = [timer EXCEPT ![i] = FALSE]
  /\ again' = [again EXCEPT ![i] = IF discarded[i] \/ VerifyRequest(i) \/ ~sessionOpen THEN @ ELSE "timeout"]
  /\ UNCHANGED <<request, asked, queue, batch, wire, manager, messages, ofMembers, discarded, aborted, sessionOpen, sessionPhase, switches>>

(* The session goes on: it looped, paused or was bound again. *)
ChangePhase ==
  /\ sessionOpen /\ sessionPhase < MaxPhase
  /\ sessionPhase' = sessionPhase + 1
  /\ UNCHANGED <<request, asked, queue, batch, wire, manager, messages, ofMembers, ofTutors, sessionOpen, switches>>

(* TextProtocol.stop when the session closes, to retry or for good. *)
StopProtocol(waitPending) ==
  /\ sessionOpen
  /\ sessionOpen' = FALSE
  /\ manager' = (IF waitPending /\ wire # "none" THEN "ENDING" ELSE "END")
  /\ UNCHANGED <<request, asked, queue, batch, wire, messages, ofMembers, ofTutors, sessionPhase, switches>>

(* Handing over forgets the requests that wait. *)
HandOverOngoing ==
  /\ sessionOpen /\ switches < MaxSwitches
  /\ switches' = switches + 1
  /\ queue' = batch
  /\ Over /\ manager' = "IDLE"
  /\ UNCHANGED <<request, asked, ofMembers, ofTutors, sessionOpen, sessionPhase>>

(* copyPendingRequests of the next stream connection: what is on the wire,   *)
(* then what waits.  The previous protocol is stopped; its connection is     *)
(* heard of no more. *)
HandOver ==
  /\ sessionOpen /\ switches < MaxSwitches
  /\ switches' = switches + 1
  /\ queue' = batch \o queue
  /\ Over /\ manager' = "IDLE"
  /\ UNCHANGED <<request, asked, ofMembers, ofTutors, sessionOpen, sessionPhase>>
-----------------------------------------------------------------------------
ListenInit ==
  /\ request \in [Members -> {"subscription", "force_rebind", "none"}]
  /\ asked = [i \in Members |-> 0]
  /\ queue = Kept([i \in Members |-> i], {i \in Members : request[i] # "none"})
  /\ batch = <<>> /\ wire = "none" /\ manager = "IDLE" /\ messages = <<>>
  /\ opened = [i \in Members |-> FALSE] /\ timer = opened /\ discarded = opened
  /\ heard = [i \in Members |-> "nothing"] /\ again = [i \in Members |-> "no"] /\ aborted = {}
  /\ sessionOpen = TRUE /\ sessionPhase = 0 /\ switches = 0

ListenerTimeouts == \E i \in Members : ListenerTimeout(i)
ListenNext ==
  \/ SendBatch \/ BatchOpens \/ (\E answer \in Answers : BatchMessage(answer))
  \/ BatchClosed \/ BatchBroken \/ EndUnheard
  \/ ListenerTimeouts
  \/ ChangePhase \/ (\E waitPending \in BOOLEAN : StopProtocol(waitPending)) \/ HandOver

(* Batches are sent, a connection ends, and timeouts run. *)
ListenFairness ==
  /\ WF_listenVars(SendBatch) /\ WF_listenVars(BatchClosed \/ BatchBroken \/ EndUnheard)
  /\ WF_listenVars(ListenerTimeouts)
ListenSpec == ListenInit /\ [][ListenNext]_listenVars /\ ListenFairness
-----------------------------------------------------------------------------
(* Properties.                                                             *)

(* While the session is open no request is forgotten, whatever breaks, is    *)
(* refused or is handed over with a listener that has heard of one           *)
(* connection already: in the end each was answered to the session or        *)
(* refused, was sent again, or need not be sent.                             *)
Settled(i) ==
  \/ request[i] = "none" \/ heard[i] # "nothing" \/ discarded[i]
  \/ again[i] # "no" \/ i \in aborted \/ VerifyRequest(i)
EachSettles == <>[](sessionOpen => \A i \in Members : Settled(i))
=============================================================================
