------------------------ MODULE SubscriptionManager ------------------------
(***************************************************************************)
(* client/SubscriptionManager.hpp with the life cycle of the Subscription  *)
(* objects it drives (client/Subscription.hpp) and the tutors that watch   *)
(* over its requests (requests/RequestTutor.hpp).                          *)
(*                                                                         *)
(* Everything below the client calls runs on the session thread, one task  *)
(* at a time, so a handler is one atomic action.  What interleaves is the  *)
(* order of the tasks: client calls, session starts and closes, and, for   *)
(* each control request, its hand-over to the network, onOpen, the reply,  *)
(* a broken connection and the retransmission timeout.                     *)
(*                                                                         *)
(* Http chooses the transport.  Over WebSocket control requests share the  *)
(* stream connection, and nothing of them outlives the session.  Over HTTP *)
(* they travel on a connection of their own, which a close that waits for  *)
(* pending requests leaves running: its replies can come late.             *)
(***************************************************************************)
EXTENDS Integers, FiniteSets, Sequences

CONSTANTS
  Subs,        (* the Subscription objects of the client                   *)
  NoSub,       (* stands for no Subscription                               *)
  Http,        (* TRUE: control requests over HTTP, FALSE: over WebSocket  *)
  MaxId,       (* bound: subscription ids the client may use up            *)
  MaxSession,  (* bound: sessions the client may create                    *)
  MaxTasks,    (* bound: client calls waiting for the session thread       *)
  MaxNotes,    (* bound: notifications waiting in the stream connection    *)
  MaxBroken    (* bound: control connections that break                    *)

ASSUME SubsAssumption == NoSub \notin Subs
ASSUME HttpAssumption == Http \in BOOLEAN
ASSUME BoundsAssumption ==
  /\ MaxId \in Nat
  /\ MaxSession \in Nat
  /\ MaxTasks \in Nat
  /\ MaxNotes \in Nat
  /\ MaxBroken \in Nat

Ids == 1..MaxId

VARIABLES
  active,             (* Subscription.isActive, flipped by the client calls  *)
  tasks,              (* add and remove calls on their way to the session thread *)
  subscriptionId,     (* Subscription.subscriptionId, 0 before the first add *)
  tablePhaseType,     (* Subscription.tablePhaseType                         *)
  tablePhase,         (* Subscription.tablePhase                             *)
  lastId,             (* the counter of IdGenerator::NextSubscriptionId      *)
  subscriptions,      (* SubscriptionManager.subscriptions: id to object     *)
  pendingDelete,      (* SubscriptionManager.pendingDelete                   *)
  pendingUnsubscribe, (* SubscriptionManager.pendingUnsubscribe              *)
  sessionAlive,       (* SubscriptionManager.sessionAlive                    *)
  session,            (* how many sessions were created                      *)
  requestManager,     (* of the current session: none, ready or dismissed    *)
  rejected,           (* a request was added to a dismissed request manager  *)
  queued,             (* requests the request manager has not sent yet       *)
  calls,              (* requests whose connection or reply is awaited       *)
  timers,             (* requests whose tutor has its timeout running        *)
  wire,               (* requests on their way to the server                 *)
  server,             (* ids the server has subscribed in this session       *)
  notes,              (* the stream connection: notifications not yet read   *)
  broken              (* how many control connections broke                  *)

subVars     == <<active, subscriptionId, tablePhaseType, tablePhase>>
tableVars   == <<lastId, subscriptions>>
pendingVars == <<pendingDelete, pendingUnsubscribe>>
sessionVars == <<sessionAlive, session, requestManager, rejected>>
networkVars == <<queued, calls, timers, wire, server, notes, broken>>
vars == <<subVars, tasks, tableVars, pendingVars, sessionVars, networkVars>>

Phases == {"OFF", "WAITING", "PAUSED", "SUBSCRIBING", "PUSHING"}

(* A request with its tutor.  phase is SubscribeTutor.subscriptionPhase; try *)
(* tells a retransmission from the attempt before it.                        *)
Request == [kind : {"add", "delete"}, id : Ids, phase : Nat,
            session : 1..MaxSession, try : {0, 1}]
Replies == {"none", "ok", "error"}
Call    == [request : Request, opened : BOOLEAN, reply : Replies]
Notes   == [event : {"SUBOK", "UNSUB", "U", "reply to add", "reply to delete"}, id : Ids]
Tasks   == [op : {"add", "remove"}, sub : Subs]

TypeOK ==
  /\ active \in [Subs -> BOOLEAN]
  /\ tasks \in Seq(Tasks)
  /\ subscriptionId \in [Subs -> 0..MaxId]
  /\ tablePhaseType \in [Subs -> Phases]
  /\ tablePhase \in [Subs -> Nat]
  /\ lastId \in 0..MaxId
  /\ subscriptions \in [Ids -> Subs \cup {NoSub}]
  /\ pendingDelete \subseteq Ids
  /\ pendingUnsubscribe \subseteq Ids
  /\ sessionAlive \in BOOLEAN
  /\ session \in 0..MaxSession
  /\ requestManager \in {"none", "ready", "dismissed"}
  /\ rejected \in BOOLEAN
  /\ queued \subseteq Request
  /\ calls \subseteq Call
  /\ timers \subseteq Request
  /\ wire \subseteq Request
  /\ server \subseteq Ids
  /\ notes \in Seq(Notes)
  /\ broken \in 0..MaxBroken
-----------------------------------------------------------------------------
(* Helpers.                                                                *)

Known(id) == subscriptions[id] # NoSub
InTable(s) == \E id \in Ids : subscriptions[id] = s
CheckPhase(id, phase) == Known(id) /\ tablePhase[subscriptions[id]] = phase

(* Mutant: the phase counter moves, the phase does not. *)
SetPhaseOnlyCounts(S, what) ==
  /\ UNCHANGED tablePhaseType
  /\ tablePhase' = [s \in Subs |-> IF s \in S THEN tablePhase[s] + 1 ELSE tablePhase[s]]

(* Mutant: onPause and onSubscriptionError forget to set the phase. *)
SetPhaseNeverPauses(S, what) ==
  LET T == IF what = "PAUSED" THEN {} ELSE S
  IN  /\ tablePhaseType' = [s \in Subs |-> IF s \in T THEN what ELSE tablePhaseType[s]]
      /\ tablePhase' = [s \in Subs |-> IF s \in T THEN tablePhase[s] + 1 ELSE tablePhase[s]]

(* setPhase on every object of S: each change of phase bumps the counter.  *)
SetPhase(S, what) ==
  /\ tablePhaseType' = [s \in Subs |-> IF s \in S THEN what ELSE tablePhaseType[s]]
  /\ tablePhase' = [s \in Subs |-> IF s \in S THEN tablePhase[s] + 1 ELSE tablePhase[s]]

(* Mutant: the request is made for the session to come. *)
AddRequestTooEarly(id, phase, try) ==
  [kind |-> "add", id |-> id, phase |-> phase, session |-> session + 1, try |-> try]

AddRequest(id, phase, try) ==
  [kind |-> "add", id |-> id, phase |-> phase, session |-> session, try |-> try]
DeleteRequest(id, try) ==
  [kind |-> "delete", id |-> id, phase |-> 0, session |-> session, try |-> try]

(* A batch holds one request per subscription id, so over HTTP a request   *)
(* takes the place of a queued one of the same id.                         *)
Enqueued(r) == (IF Http THEN {q \in queued : q.id # r.id} ELSE queued) \cup {r}

(* The tutor of a queued unsubscription that r replaces is told to abort.  *)
Supersedes(r) == Http /\ \E q \in queued : q.kind = "delete" /\ q.id = r.id

(* SubscribeTutor and UnsubscribeTutor.                                    *)
ShouldBeSent(r) ==
  IF r.kind = "add" THEN CheckPhase(r.id, r.phase) ELSE r.id \in pendingDelete

(* Mutant: a request that was sent counts as a success. *)
VerifySent(r) ==
  IF r.kind = "add"
  THEN CheckPhase(r.id, r.phase) =>
         tablePhaseType[subscriptions[r.id]] \in {"SUBSCRIBING", "PUSHING"}
  ELSE r.id \notin pendingDelete

VerifySuccess(r) ==
  IF r.kind = "add"
  THEN CheckPhase(r.id, r.phase) => tablePhaseType[subscriptions[r.id]] = "PUSHING"
  ELSE r.id \notin pendingDelete
-----------------------------------------------------------------------------
(* Unsubscribing.                                                          *)

(* Mutant: the deferred unsubscription is not forgotten when it is sent. *)
UnsubscribeKeepsDeferred(id) ==
  LET r == DeleteRequest(id, 0)
  IN  /\ pendingDelete' = IF Supersedes(r) THEN pendingDelete \ {id}
                                           ELSE pendingDelete \cup {id}
      /\ UNCHANGED pendingUnsubscribe
      /\ queued' = Enqueued(r)

(* The delete request is queued; when it replaces a queued one, the abort  *)
(* of that one's tutor takes the id out of pendingDelete again.            *)
Unsubscribe(id) ==
  LET r == DeleteRequest(id, 0)
  IN  /\ pendingDelete' = IF Supersedes(r) THEN pendingDelete \ {id}
                                           ELSE pendingDelete \cup {id}
      /\ pendingUnsubscribe' = pendingUnsubscribe \ {id}
      /\ queued' = Enqueued(r)

(* Mutant: a deferred unsubscription passes for one on its way. *)
UnsubscribeUnlessDeferred(id) ==
  IF id \in pendingDelete \cup pendingUnsubscribe
  THEN UNCHANGED <<pendingVars, queued>> ELSE Unsubscribe(id)

(* extractSubscriptionOrUnsubscribe for an id that is not in the table.    *)
UnsubscribeUnlessPending(id) ==
  IF id \in pendingDelete THEN UNCHANGED <<pendingVars, queued>>
                          ELSE Unsubscribe(id)

(* What onUnsubscriptionAck and onUnsubscription share.                    *)
ForgetDelete(id) ==
  IF id \in pendingUnsubscribe
  THEN Unsubscribe(id)
  ELSE /\ pendingDelete' = pendingDelete \ {id}
       /\ UNCHANGED <<pendingUnsubscribe, queued>>
-----------------------------------------------------------------------------
(* The client calls.                                                       *)

NumAdds == Cardinality({i \in DOMAIN tasks : tasks[i].op = "add"})

(* LightstreamerClient::subscribe.  The guards on tasks and ids are bounds. *)
ClientSubscribe(s) ==
  /\ ~active[s]
  /\ Len(tasks) < MaxTasks
  /\ lastId + NumAdds < MaxId
  /\ active' = [active EXCEPT ![s] = TRUE]
  /\ tasks' = Append(tasks, [op |-> "add", sub |-> s])
  /\ UNCHANGED <<subscriptionId, tablePhaseType, tablePhase,
                 tableVars, pendingVars, sessionVars, networkVars>>

(* LightstreamerClient::unsubscribe. *)
ClientUnsubscribe(s) ==
  /\ active[s]
  /\ Len(tasks) < MaxTasks
  /\ active' = [active EXCEPT ![s] = FALSE]
  /\ tasks' = Append(tasks, [op |-> "remove", sub |-> s])
  /\ UNCHANGED <<subscriptionId, tablePhaseType, tablePhase,
                 tableVars, pendingVars, sessionVars, networkVars>>

(* doAdd: a new id; the subscription is sent if a session is alive, and    *)
(* waits, paused, for the next one if not.                                 *)
DoAdd ==
  /\ tasks # <<>> /\ Head(tasks).op = "add"
  /\ lastId < MaxId
  /\ tasks' = Tail(tasks)
  /\ LET s == Head(tasks).sub
         id == lastId + 1
     IN  /\ lastId' = id
         /\ subscriptions' = [subscriptions EXCEPT ![id] = s]
         /\ subscriptionId' = [subscriptionId EXCEPT ![s] = id]
         /\ IF sessionAlive
            THEN /\ SetPhase({s}, "WAITING")
                 /\ queued' = Enqueued(AddRequest(id, tablePhase[s] + 1, 0))
            ELSE /\ tablePhaseType' = [tablePhaseType EXCEPT ![s] = "PAUSED"]
                 /\ tablePhase' = [tablePhase EXCEPT ![s] = @ + 2]
                 /\ UNCHANGED queued
  /\ UNCHANGED <<active, pendingVars, sessionVars,
                 calls, timers, wire, server, notes, broken>>

(* doRemove: a subscription in SUBSCRIBING is unsubscribed when its answer *)
(* comes, one in PUSHING at once.                                          *)
DoRemove ==
  /\ tasks # <<>> /\ Head(tasks).op = "remove"
  /\ tasks' = Tail(tasks)
  /\ LET s == Head(tasks).sub
         id == subscriptionId[s]
     IN  /\ IF sessionAlive /\ tablePhaseType[s] = "SUBSCRIBING"
            THEN /\ pendingUnsubscribe' = pendingUnsubscribe \cup {id}
                 /\ UNCHANGED <<pendingDelete, queued>>
            ELSE IF sessionAlive /\ tablePhaseType[s] = "PUSHING"
            THEN Unsubscribe(id)
            ELSE UNCHANGED <<pendingVars, queued>>
         /\ subscriptions' = [subscriptions EXCEPT ![id] = NoSub]
         /\ SetPhase({s}, "OFF")
  /\ UNCHANGED <<active, subscriptionId, lastId, sessionVars,
                 calls, timers, wire, server, notes, broken>>
-----------------------------------------------------------------------------
(* Sessions.                                                               *)

(* The retry or the connect call makes a new session instance, with a      *)
(* request manager of its own.                                             *)
SessionCreate ==
  /\ requestManager # "ready"
  /\ session < MaxSession
  /\ session' = session + 1
  /\ requestManager' = "ready"
  /\ UNCHANGED <<subVars, tasks, tableVars, pendingVars, sessionAlive, rejected,
                 networkVars>>

(* onSessionStart: every subscription wakes up and is sent. *)
SessionStart ==
  /\ requestManager = "ready" /\ ~sessionAlive
  /\ sessionAlive' = TRUE
  /\ SetPhase({s \in Subs : InTable(s)}, "WAITING")
  /\ queued' = queued \cup
       {AddRequest(id, tablePhase[subscriptions[id]] + 1, 0) : id \in {i \in Ids : Known(i)}}
  /\ UNCHANGED <<active, subscriptionId, tasks, tableVars, pendingVars,
                 session, requestManager, rejected,
                 calls, timers, wire, server, notes, broken>>

(* onSessionClose and the end of the protocol: every subscription pauses,  *)
(* the pending sets are cleared, queued requests are never sent, the       *)
(* stream is not read any more.  Of the connections those in kept go on.   *)
CloseSession(kept) ==
  /\ sessionAlive' = FALSE
  /\ requestManager' = "dismissed"
  /\ SetPhase({s \in Subs : InTable(s)}, "PAUSED")
  /\ pendingDelete' = {}
  /\ pendingUnsubscribe' = {}
  /\ queued' = {}
  /\ calls' = kept
  /\ wire' = {}
  /\ server' = {}
  /\ notes' = <<>>
  /\ UNCHANGED <<active, subscriptionId, tasks, tableVars, session, timers, broken>>

OtherSessionsCalls == {c \in calls : c.request.session # session}

(* With goToSleep, when a retry will follow, the HTTP request manager      *)
(* waits for its pending requests; a WebSocket is closed in any case.      *)
SessionClose(goToSleep) ==
  /\ requestManager = "ready"
  /\ CloseSession(IF Http /\ goToSleep THEN calls ELSE OtherSessionsCalls)
  /\ UNCHANGED rejected

(* A request handed to a dismissed request manager: addRequest throws, and *)
(* the session thread turns the exception into onFatalError, which closes  *)
(* the session for good.  c is the call whose listener was running.        *)
OnFatalError(c) ==
  /\ rejected' = TRUE
  /\ CloseSession(OtherSessionsCalls \ {c})
-----------------------------------------------------------------------------
(* Requests on the network.                                                *)

(* dequeueControlRequests and sendBatch over HTTP: one connection at a     *)
(* time; a request that is not worth sending any more is aborted instead.  *)
(* Over WebSocket a request goes out as it is.                             *)
SendBatch ==
  /\ requestManager = "ready"
  /\ queued # {}
  /\ Http => \A c \in calls : c.request.session # session
  /\ LET sent    == IF Http THEN {r \in queued : ShouldBeSent(r)} ELSE queued
         aborted == {r.id : r \in {q \in queued \ sent : q.kind = "delete"}}
     IN  /\ calls' = calls \cup
                       {[request |-> r, opened |-> FALSE, reply |-> "none"] : r \in sent}
         /\ wire' = wire \cup sent
         /\ pendingDelete' = pendingDelete \ aborted
         /\ pendingUnsubscribe' = pendingUnsubscribe \ aborted
  /\ queued' = {}
  /\ UNCHANGED <<subVars, tasks, tableVars, sessionVars, timers, server, notes, broken>>

(* onOpen, the request is on the net: the tutor starts its timeout, and a  *)
(* subscription waiting in the tutor's phase is now SUBSCRIBING.           *)
OnOpen(c) ==
  LET r == c.request
      s == subscriptions[r.id]
      watched == r.kind = "add" => CheckPhase(r.id, r.phase)
      advances == r.kind = "add" /\ watched /\ tablePhaseType[s] # "SUBSCRIBING"
  IN  /\ ~c.opened
      /\ calls' = (calls \ {c}) \cup {[c EXCEPT !.opened = TRUE]}
      /\ timers' = IF ~watched THEN timers
                   ELSE timers \cup {IF advances THEN [r EXCEPT !.phase = @ + 1] ELSE r}
      /\ IF advances THEN SetPhase({s}, "SUBSCRIBING")
                     ELSE UNCHANGED <<tablePhaseType, tablePhase>>
      /\ UNCHANGED <<active, subscriptionId, tasks, tableVars, pendingVars,
                     sessionVars, queued, wire, server, notes, broken>>

(* doRecovery: the tutor sends the request again, in the current session.  *)
DoRecovery(r) ==
  LET again == [r EXCEPT !.session = session, !.try = 1 - @]
      aborted == IF Supersedes(again) THEN {r.id} ELSE {}
  IN  /\ queued' = Enqueued(again)
      /\ pendingDelete' = pendingDelete \ aborted
      /\ pendingUnsubscribe' = pendingUnsubscribe \ aborted

(* Mutant: the tutor that sent its request again goes on watching. *)
TimeoutKeepsTutor(r) ==
  LET over == VerifySuccess(r) \/ r.session # session \/ requestManager # "ready"
  IN  /\ ~Http => over
      /\ timers' = IF over THEN timers \ {r} ELSE timers
      /\ IF over THEN UNCHANGED <<pendingVars, queued>> ELSE DoRecovery(r)
      /\ UNCHANGED <<subVars, tasks, tableVars, sessionVars,
                     calls, wire, server, notes, broken>>

(* onTimeout.  A tutor whose request succeeded or whose session is gone is *)
(* dropped; over HTTP it sends the request again; over WebSocket it arms   *)
(* its timeout once more, which changes nothing here.  Over WebSocket it    *)
(* also sends again where the stream connection was replaced; a session of  *)
(* this module keeps the one it was bound with (ChangeRequests has those     *)
(* that do not).                                                            *)
Timeout(r) ==
  LET over == VerifySuccess(r) \/ r.session # session \/ requestManager # "ready"
  IN  /\ ~Http => over
      /\ timers' = timers \ {r}
      /\ IF over THEN UNCHANGED <<pendingVars, queued>> ELSE DoRecovery(r)
      /\ UNCHANGED <<subVars, tasks, tableVars, sessionVars,
                     calls, wire, server, notes, broken>>

(* A control connection that breaks, or that the server closes without an  *)
(* answer.  The requests may still arrive.  One that was never opened is   *)
(* sent again if its tutor still cares.                                    *)
CallBroken(c) ==
  LET r == c.request
      retry == ~c.opened /\ (r.kind = "add" => CheckPhase(r.id, r.phase))
  IN  /\ Http /\ broken < MaxBroken
      /\ broken' = broken + 1
      /\ calls' = calls \ {c}
      /\ \/ UNCHANGED wire
         \/ wire' = wire \ {r}
      /\ retry => requestManager = "ready"
      /\ IF retry THEN DoRecovery(r) ELSE UNCHANGED <<pendingVars, queued>>
      /\ UNCHANGED <<subVars, tasks, tableVars, sessionVars, timers, server, notes>>
-----------------------------------------------------------------------------
(* Answers of the server.                                                  *)

Note(event, id) == [event |-> event, id |-> id]
ReplyNote(r) == Note(IF r.kind = "add" THEN "reply to add" ELSE "reply to delete", r.id)

(* The answer of a control request: on its own connection over HTTP, on    *)
(* the stream, in its order, over WebSocket.                               *)
Answered(c, kind, reply) ==
  /\ c.request.kind = kind
  /\ c.opened
  /\ c.reply = reply
  /\ calls' = calls \ {c}
  /\ IF Http THEN UNCHANGED notes
     ELSE /\ notes # <<>> /\ Head(notes) = ReplyNote(c.request)
          /\ notes' = Tail(notes)

(* An event for a subscription that was removed makes the client           *)
(* unsubscribe, which a dismissed request manager rejects.                 *)
Unsubscribes(id) == ~Known(id) /\ id \notin pendingDelete
Rejects(id) == Unsubscribes(id) /\ requestManager = "dismissed"

(* An event that puts subscription id, if there is one, in phase what.     *)
SubscriptionEvent(id, what) ==
  IF Known(id)
  THEN SetPhase({subscriptions[id]}, what) /\ UNCHANGED <<pendingVars, queued>>
  ELSE UnsubscribeUnlessPending(id) /\ UNCHANGED <<tablePhaseType, tablePhase>>

OnSubscriptionAck(c) ==
  /\ Answered(c, "add", "ok")
  /\ ~Rejects(c.request.id)
  /\ SubscriptionEvent(c.request.id, "PUSHING")
  /\ UNCHANGED <<active, subscriptionId, tasks, tableVars, sessionVars,
                 timers, wire, server, broken>>

OnSubscriptionError(c) ==
  /\ Answered(c, "add", "error")
  /\ ~Rejects(c.request.id)
  /\ SubscriptionEvent(c.request.id, "PAUSED")
  /\ UNCHANGED <<active, subscriptionId, tasks, tableVars, sessionVars,
                 timers, wire, server, broken>>

OnUnsubscriptionAck(c) ==
  /\ Answered(c, "delete", "ok")
  /\ ForgetDelete(c.request.id)
  /\ UNCHANGED <<subVars, tasks, tableVars, sessionVars, timers, wire, server, broken>>

(* The tutor of a refused unsubscription is discarded. *)
OnUnsubscriptionError(c) ==
  /\ Answered(c, "delete", "error")
  /\ timers' = timers \ {c.request}
  /\ UNCHANGED <<subVars, tasks, tableVars, pendingVars, sessionVars,
                 queued, wire, server, broken>>

(* An answer, or a broken connection, that comes after the close and makes *)
(* the client send a request.                                              *)
OnLateEvent(c) ==
  /\ requestManager = "dismissed"
  /\ \/ c.request.kind = "add" /\ c.opened /\ c.reply # "none" /\ Rejects(c.request.id)
     \/ c.request.kind = "delete" /\ ~c.opened
  /\ OnFatalError(c)

(* SUBOK, UNSUB and U from the stream. *)
ReadNote ==
  /\ notes # <<>>
  /\ notes' = Tail(notes)
  /\ LET id == Head(notes).id
     IN  CASE Head(notes).event = "SUBOK" -> SubscriptionEvent(id, "PUSHING")
           [] Head(notes).event = "UNSUB" ->
                ForgetDelete(id) /\ UNCHANGED <<tablePhaseType, tablePhase>>
           [] Head(notes).event = "U" ->
                /\ IF Known(id) THEN UNCHANGED <<pendingVars, queued>>
                                ELSE UnsubscribeUnlessPending(id)
                /\ UNCHANGED <<tablePhaseType, tablePhase>>
           [] OTHER -> FALSE
  /\ UNCHANGED <<active, subscriptionId, tasks, tableVars, sessionVars,
                 calls, timers, wire, server, broken>>
-----------------------------------------------------------------------------
(* The server, as far as the client can tell.                              *)

(* The answer of the server to request r, and the notification it sends.   *)
ServerSends(r, reply, told) ==
  /\ calls' = {IF c.request = r /\ c.reply = "none" THEN [c EXCEPT !.reply = reply] ELSE c
                 : c \in calls}
  /\ notes' = notes \o (IF Http THEN <<>> ELSE <<ReplyNote(r)>>) \o told

(* A subscription is accepted or refused; one that exists is accepted      *)
(* without a further notification.                                         *)
ServerReceives(r) ==
  /\ Len(notes) + 2 <= MaxNotes
  /\ wire' = wire \ {r}
  /\ \/ /\ r.kind = "add" /\ r.id \notin server
        /\ \/ /\ server' = server \cup {r.id}
              /\ ServerSends(r, "ok", <<Note("SUBOK", r.id)>>)
           \/ UNCHANGED server /\ ServerSends(r, "error", <<>>)
     \/ /\ r.kind = "add" /\ r.id \in server
        /\ UNCHANGED server /\ ServerSends(r, "ok", <<>>)
     \/ /\ r.kind = "delete" /\ r.id \in server
        /\ server' = server \ {r.id}
        /\ ServerSends(r, "ok", <<Note("UNSUB", r.id)>>)
     \/ /\ r.kind = "delete" /\ r.id \notin server
        /\ UNCHANGED server /\ ServerSends(r, "error", <<>>)
  /\ UNCHANGED <<subVars, tasks, tableVars, pendingVars, sessionVars,
                 queued, timers, broken>>

(* An update.  The guard on notes is a bound. *)
ServerUpdate(id) ==
  /\ id \in server
  /\ Len(notes) + 2 < MaxNotes
  /\ notes' = Append(notes, Note("U", id))
  /\ UNCHANGED <<subVars, tasks, tableVars, pendingVars, sessionVars,
                 queued, calls, timers, wire, server, broken>>
-----------------------------------------------------------------------------
Init ==
  /\ active = [s \in Subs |-> FALSE]
  /\ tasks = <<>>
  /\ subscriptionId = [s \in Subs |-> 0]
  /\ tablePhaseType = [s \in Subs |-> "OFF"]
  /\ tablePhase = [s \in Subs |-> 0]
  /\ lastId = 0
  /\ subscriptions = [id \in Ids |-> NoSub]
  /\ pendingDelete = {}
  /\ pendingUnsubscribe = {}
  /\ sessionAlive = FALSE
  /\ session = 0
  /\ requestManager = "none"
  /\ rejected = FALSE
  /\ queued = {}
  /\ calls = {}
  /\ timers = {}
  /\ wire = {}
  /\ server = {}
  /\ notes = <<>>
  /\ broken = 0

(* What a control request's listener does with its answer. *)
OnAnswer(c) ==
  \/ OnSubscriptionAck(c)
  \/ OnSubscriptionError(c)
  \/ OnUnsubscriptionAck(c)
  \/ OnUnsubscriptionError(c)
  \/ OnLateEvent(c)

Next ==
  \/ \E s \in Subs : ClientSubscribe(s) \/ ClientUnsubscribe(s)
  \/ DoAdd
  \/ DoRemove
  \/ SessionCreate
  \/ SessionStart
  \/ \E goToSleep \in BOOLEAN : SessionClose(goToSleep)
  \/ SendBatch
  \/ \E c \in calls : OnOpen(c) \/ CallBroken(c) \/ OnAnswer(c)
  \/ \E r \in timers : Timeout(r)
  \/ ReadNote
  \/ \E r \in wire : ServerReceives(r)
  \/ \E id \in server : ServerUpdate(id)

Spec == Init /\ [][Next]_vars

(* The session thread runs its tasks, requests get out and are answered,   *)
(* timeouts expire.  Nobody has to subscribe, start or close a session,    *)
(* break a connection or send an update.                                   *)
Fairness ==
  /\ WF_vars(DoAdd)
  /\ WF_vars(DoRemove)
  /\ WF_vars(SendBatch)
  /\ WF_vars(ReadNote)
  /\ \A id \in Ids :
       /\ WF_vars(\E c \in calls : c.request.id = id /\ OnOpen(c))
       /\ WF_vars(\E c \in calls : c.request.id = id /\ OnAnswer(c))
       /\ WF_vars(\E r \in timers : r.id = id /\ Timeout(r))
       /\ WF_vars(\E r \in wire : r.id = id /\ ServerReceives(r))

FairSpec == Spec /\ Fairness
-----------------------------------------------------------------------------
(* Properties.                                                             *)

(* A Subscription is in the table under its own id and nowhere else, and   *)
(* it is OFF exactly while it is not in the table.                         *)
TableConsistent ==
  /\ \A id \in Ids : Known(id) => subscriptionId[subscriptions[id]] = id
  /\ \A s \in Subs : (tablePhaseType[s] = "OFF") <=> ~InTable(s)

(* The sets tell three disjoint stories about an id: it is subscribed to,  *)
(* its unsubscription waits for the subscription to be answered, or its    *)
(* unsubscription is on the way.                                           *)
PendingDisjoint ==
  /\ pendingDelete \cap pendingUnsubscribe = {}
  /\ \A id \in pendingDelete \cup pendingUnsubscribe : ~Known(id)

(* So whatever order subscriptions, answers and sessions come in, each id   *)
(* is in one place and each Subscription under one id.                      *)
TablesConsistent == TableConsistent /\ PendingDisjoint

(* pendingUnsubscribe holds unsubscriptions "which have not yet been sent":*)
(* no delete request of such an id is anywhere on its way.                 *)
DeferredNotSent ==
  \A id \in pendingUnsubscribe :
    \A r \in queued \cup timers \cup wire \cup {c.request : c \in calls} :
      ~(r.kind = "delete" /\ r.id = id)

(* At most one tutor is responsible for the subscription as it is now:     *)
(* two would send the same subscription twice.                             *)
LiveAdds(id) ==
  {r \in queued \cup timers \cup {c.request : c \in {d \in calls : ~d.opened}} :
     r.kind = "add" /\ r.id = id /\ CheckPhase(id, r.phase)}
SingleTutor == \A id \in Ids : Cardinality(LiveAdds(id)) <= 1

(* A WAITING or SUBSCRIBING subscription of a live session has a tutor or  *)
(* a request that is still taken care of: it is never forgotten.           *)
NotForgotten ==
  sessionAlive =>
    \A id \in Ids :
      Known(id) /\ tablePhaseType[subscriptions[id]] \in {"WAITING", "SUBSCRIBING"}
        => LiveAdds(id) # {}

(* isSubscribed() means subscribed: the session is alive and the server    *)
(* has the subscription.                                                   *)
PushingIsSubscribed ==
  \A id \in Ids :
    Known(id) /\ tablePhaseType[subscriptions[id]] = "PUSHING"
      => sessionAlive /\ id \in server

(* No request is ever handed to a dismissed request manager. *)
NeverRejected == ~rejected

(* What the server sends for an id the client does not know, the client    *)
(* unsubscribes: no subscription is left over on the server.               *)
OrphansRemoved ==
  \A id \in Ids : (id \in server /\ ~Known(id)) ~> (id \notin server)

(* A subscription given to a live session gets an answer or the session    *)
(* ends.                                                                   *)
SubscriptionSettles ==
  \A s \in Subs :
    tablePhaseType[s] \in {"WAITING", "SUBSCRIBING"}
      ~> (tablePhaseType[s] \notin {"WAITING", "SUBSCRIBING"} \/ ~sessionAlive)

(* "Active subscriptions are automatically persisted across different      *)
(* sessions": one the client holds as subscribed in a live session is, or  *)
(* comes to be, subscribed on the server, unless the session ends or the   *)
(* subscription leaves that phase.                                         *)
Persisted ==
  \A s \in Subs :
    (tablePhaseType[s] = "PUSHING" /\ sessionAlive)
      ~> (tablePhaseType[s] # "PUSHING" \/ ~sessionAlive \/ subscriptionId[s] \in server)
=============================================================================
