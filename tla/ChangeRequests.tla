---------------------------- MODULE ChangeRequests ----------------------------
(***************************************************************************)
(* The two requests that change something the server already has: the       *)
(* maximum frequency of a subscription (SubscriptionManager) and the        *)
(* maximum bandwidth of the session (Session), with the RequestTutor that   *)
(* sends them again.  A request carries the value of the moment it was      *)
(* made, a later one the later value, and a retransmission goes by the      *)
(* number of the change it repeats: server has to end with the last value.  *)
(*                                                                          *)
(* A behaviour follows changes of one kind, over stream connections that    *)
(* replace one another.  The managers of requests are reduced to what       *)
(* matters here (HttpRequestManager and WebSocketRequestManager have them   *)
(* in full): outbox is what waits to be sent and calls is what was sent, at  *)
(* most one call at a time over HTTP.  The server applies what reaches it   *)
(* in the order it was sent.                                                *)
(***************************************************************************)
EXTENDS Naturals, Sequences, RecursiveData

CONSTANTS
  MaxValues,    (* bound: changes made by the user                          *)
  MaxStreams,   (* bound: stream connections                                *)
  MaxFaults     (* bound: HTTP calls that break                             *)

ASSUME ChangeAssumption == MaxValues \in Nat /\ MaxStreams \in Nat \ {0} /\ MaxFaults \in Nat

VARIABLES
  kind,           (* what is changed: "frequency" or "bandwidth"            *)
  wanted,         (* the n-th value the user asked for                      *)
  due,            (* changes not handled yet                                *)
  lastId,         (* nextReconfId; for the bandwidth, LS_reqId              *)
  pendingChange,  (* pendingSubscriptionChanges of the subscription         *)
  known,          (* is the subscription still in the table                 *)
  monitor,        (* bwRetransmissionMonitor of the session                 *)
  unmanaged,      (* has the server told that it leaves the bandwidth alone  *)
  phase,          (* of the session                                         *)
  carried,        (* the bandwidth in the request that creates or recovers  *)
  stream,         (* the number of the stream connection                    *)
  http,           (* and is its transport HTTP                              *)
  dead,           (* is its socket neither open nor opening                 *)
  outbox, calls,
  timers,         (* tutors whose timeout is running                        *)
  server,         (* the value the server has                               *)
  faults,
  lost            (* the known ways in which a change was lost              *)

tables     == <<pendingChange, known, monitor, unmanaged>>
connection == <<phase, carried, stream, http, dead>>
traffic    == <<outbox, calls, timers, lost>>
changeVars == <<kind, wanted, due, lastId, tables, connection, traffic, server, faults>>

Ids == 0..MaxValues
Reconfigurations == [id : Ids, value : Ids, stream : 1..MaxStreams, timed : BOOLEAN]
WaysToLose == {"creating", "dead socket", "own retransmission", "handed over"}
ChangeTypeOK ==
  /\ kind \in {"frequency", "bandwidth"} /\ phase \in {"OPEN", "SLEEP", "CREATING", "OFF"}
  /\ wanted \in Ids /\ due \in Ids /\ lastId \in Ids /\ pendingChange \in Ids /\ server \in Ids /\ carried \in Ids
  /\ monitor \in [received : Ids, pending : Ids]
  /\ {known, http, dead, unmanaged} \subseteq BOOLEAN
  /\ stream \in 1..MaxStreams /\ faults \in 0..MaxFaults
  /\ outbox \in Seq(Reconfigurations)
  /\ calls \in Seq([id : Ids, value : Ids, stream : 1..MaxStreams, timed : BOOLEAN, opened : BOOLEAN, applied : BOOLEAN])
  /\ timers \subseteq [id : Ids, stream : 1..MaxStreams]
  /\ lost \subseteq WaysToLose
-----------------------------------------------------------------------------
(* ChangeSubscriptionTutor and ConstrainTutor.                              *)
FreshMonitor == [received |-> 0, pending |-> 0]

ChangeShouldBeSent(r) == kind = "frequency" => known /\ pendingChange = r.id

(* Mutant: a change as old as the pending one counts as done. *)
ChangeVerifiedLoosely(id) == pendingChange = 0 \/ id <= pendingChange
(* verifySuccess of each: a change of frequency has succeeded once it is not *)
(* pending or a newer one is; of the bandwidth none ever has, for sendConstrain *)
(* is what compares. *)
ChangeVerified(id) == pendingChange = 0 \/ id < pendingChange
ConstrainVerified == FALSE
VerifySuccess(id) == IF kind = "frequency" THEN ChangeVerified(id) ELSE ConstrainVerified

(* notifyAbort: a change that will not be sent is no longer pending. *)
AfterAbort(pending, id) == IF kind = "frequency" /\ pending = id THEN 0 ELSE pending

(* BandwidthRetransmissionMonitor: canSend and onReceivedResponse. *)
CanSend(id) == id >= monitor.pending /\ id > monitor.received
ReceivedResponse(id) == monitor' = [monitor EXCEPT !.received = IF id > @ THEN id ELSE @]

(* A new request, and its tutor with it: the tutor remembers the stream     *)
(* connection it was made on. *)
ARequest(id) == [id |-> id, value |-> wanted, stream |-> stream, timed |-> FALSE]

(* addRequest of either manager, on what it changes: over HTTP a request    *)
(* takes the place of the one of its kind that waits, and a dead socket     *)
(* drops it. *)
Boxes == [queue : Seq(Reconfigurations), pending : Ids, lost : SUBSET WaysToLose]
Box(queue, pending) == [queue |-> queue, pending |-> pending, lost |-> lost]
WithRequest(box, r, overHttp, overDead) ==
  LET pending == AfterAbort(box.pending, box.queue[1].id)
  IN  IF overHttp /\ box.queue # <<>>
      THEN [queue |-> <<r>>, pending |-> pending,
            lost |-> box.lost \cup IF pending # box.pending THEN {"own retransmission"} ELSE {}]
      ELSE IF overDead
           THEN [box EXCEPT !.lost = @ \cup {"dead socket"}]
           ELSE [box EXCEPT !.queue = Append(@, r)]

Becomes(box) == outbox' = box.queue /\ pendingChange' = box.pending /\ lost' = box.lost
Stays(queue) == outbox' = queue /\ UNCHANGED <<pendingChange, lost>>
-----------------------------------------------------------------------------
(* SubscriptionManager.changeFrequency, of a new change or of an old one:   *)
(* the value is always the current one. *)
ChangeFrequency(queue, id) ==
  /\ Becomes(IF phase = "OFF" THEN Box(queue, id) ELSE WithRequest(Box(queue, id), ARequest(id), http, dead))
  /\ UNCHANGED monitor

(* Session.sendConstrain, through SessionManager.changeBandwidth or the     *)
(* tutor of an earlier request. *)
SendConstrain(queue, id) ==
  \/ (phase \in {"OFF", "SLEEP"} \/ unmanaged) /\ Stays(queue) /\ UNCHANGED monitor
  \/ /\ phase = "CREATING" /\ ~unmanaged
     /\ outbox' = queue /\ lost' = lost \cup IF wanted # carried THEN {"creating"} ELSE {}
     /\ UNCHANGED <<pendingChange, monitor>>
  \/ phase = "OPEN" /\ ~unmanaged /\ ~CanSend(id) /\ Stays(queue) /\ UNCHANGED monitor
  \/ /\ phase = "OPEN" /\ ~unmanaged /\ CanSend(id)
     /\ monitor' = [monitor EXCEPT !.pending = id]
     /\ Becomes(WithRequest(Box(queue, pendingChange), ARequest(id), http, dead))

(* doRecovery of each tutor. *)
RepeatConstrain(queue, id) == SendConstrain(queue, id)
RepeatChange(queue, id) ==
  \/ known /\ ChangeFrequency(queue, id)
  \/ ~known /\ Stays(queue) /\ UNCHANGED monitor
Repeat(queue, id) == IF kind = "bandwidth" THEN RepeatConstrain(queue, id) ELSE RepeatChange(queue, id)

(* The user. *)
SetValue ==
  /\ wanted < MaxValues
  /\ wanted' = wanted + 1 /\ due' = due + 1
  /\ UNCHANGED <<kind, lastId, tables, connection, traffic, server, faults>>
Forget ==
  /\ kind = "frequency" /\ known
  /\ known' = FALSE
  /\ UNCHANGED <<kind, wanted, due, lastId, pendingChange, monitor, unmanaged, connection, traffic, server, faults>>

(* CONS: the server leaves the bandwidth alone, which the options remember   *)
(* from then on; what it says of any other bandwidth is only reported. *)
ServerSentBandwidth ==
  /\ kind = "bandwidth" /\ phase = "OPEN" /\ ~unmanaged
  /\ unmanaged' = TRUE
  /\ UNCHANGED <<kind, wanted, due, lastId, pendingChange, known, monitor, connection, traffic, server, faults>>

(* The session thread handles a change: changeBandwidth of SessionManager,   *)
(* or changeFrequency of SubscriptionManager. *)
HandleChange ==
  /\ due > 0
  /\ due' = due - 1 /\ lastId' = lastId + 1
  /\ \/ kind = "bandwidth" /\ SendConstrain(outbox, lastId + 1)
     \/ kind = "frequency" /\ ChangeFrequency(outbox, lastId + 1)
  /\ UNCHANGED <<kind, wanted, known, unmanaged, connection, calls, timers, server, faults>>
-----------------------------------------------------------------------------
(* What the managers do with the requests.  Over HTTP a call is told onOpen *)
(* later; a frame of a WebSocket is written at once. *)
Sending(r) ==
  [id |-> r.id, value |-> r.value, stream |-> r.stream, timed |-> r.timed, opened |-> ~http, applied |-> FALSE]
Watching(r) == IF r.timed THEN timers ELSE timers \cup {[id |-> r.id, stream |-> r.stream]}

SendHttp ==
  /\ http /\ outbox # <<>> /\ calls = <<>>
  /\ outbox' = Tail(outbox)
  /\ \/ /\ ChangeShouldBeSent(Head(outbox))
        /\ calls' = <<Sending(Head(outbox))>>
        /\ UNCHANGED pendingChange
     \/ /\ ~ChangeShouldBeSent(Head(outbox))
        /\ pendingChange' = AfterAbort(pendingChange, Head(outbox).id)
        /\ UNCHANGED calls
  /\ UNCHANGED <<kind, wanted, due, lastId, known, monitor, unmanaged, connection, timers, lost, server, faults>>
SendWs ==
  /\ ~http /\ ~dead /\ outbox # <<>>
  /\ outbox' = Tail(outbox)
  /\ calls' = Append(calls, Sending(Head(outbox)))
  /\ timers' = Watching(Head(outbox))
  /\ UNCHANGED <<kind, wanted, due, lastId, tables, connection, lost, server, faults>>
CallOpens ==
  /\ http /\ calls # <<>> /\ ~calls[1].opened
  /\ calls' = [calls EXCEPT ![1].opened = TRUE]
  /\ timers' = Watching(calls[1])
  /\ UNCHANGED <<kind, wanted, due, lastId, tables, connection, outbox, lost, server, faults>>

(* The server. *)
Apply ==
  /\ \E i \in DOMAIN calls :
       /\ ~calls[i].applied /\ (\A j \in 1..(i - 1) : calls[j].applied)
       /\ calls' = [calls EXCEPT ![i].applied = TRUE]
       /\ server' = calls[i].value
  /\ UNCHANGED <<kind, wanted, due, lastId, tables, connection, outbox, timers, lost, faults>>

(* onConstrainResponse. *)
OnConstrainResponse(id) == ReceivedResponse(id) /\ UNCHANGED pendingChange

(* onOK: SubscriptionsListener.onSubscription, or onConstrainResponse. *)
AnswerArrives ==
  /\ calls # <<>> /\ calls[1].applied /\ calls[1].opened
  /\ calls' = Tail(calls)
  /\ \/ /\ kind = "frequency"
        /\ pendingChange' = IF pendingChange = calls[1].id THEN 0 ELSE pendingChange
        /\ UNCHANGED monitor
     \/ kind = "bandwidth" /\ OnConstrainResponse(calls[1].id)
  /\ UNCHANGED <<kind, wanted, due, lastId, known, unmanaged, connection, outbox, timers, lost, server, faults>>

(* A call that breaks before it opened is repeated at once; otherwise its   *)
(* timeout is running. *)
CallBreaks ==
  /\ http /\ calls # <<>> /\ faults < MaxFaults
  /\ faults' = faults + 1
  /\ calls' = <<>>
  /\ \/ calls[1].opened /\ Stays(outbox) /\ UNCHANGED monitor
     \/ ~calls[1].opened /\ Repeat(outbox, calls[1].id)
  /\ UNCHANGED <<kind, wanted, due, lastId, known, unmanaged, connection, timers, server>>

(* RequestTutor.onTimeout.  Over the same WebSocket the tutor only waits    *)
(* longer. *)
TutorTimeout(t) ==
  /\ t \in timers
  /\ ~(phase # "OFF" /\ ~VerifySuccess(t.id) /\ ~http /\ t.stream = stream)
  /\ timers' = timers \ {t}
  /\ LET untimed == [i \in DOMAIN outbox |->
                       IF outbox[i].id = t.id /\ outbox[i].stream = t.stream
                       THEN [outbox[i] EXCEPT !.timed = FALSE] ELSE outbox[i]]
     IN  IF VerifySuccess(t.id) \/ phase = "OFF"
         THEN Stays(untimed) /\ UNCHANGED monitor
         ELSE Repeat(untimed, t.id)
  /\ UNCHANGED <<kind, wanted, due, lastId, known, unmanaged, connection, calls, server, faults>>
-----------------------------------------------------------------------------
(* The stream connections.                                                 *)

(* copyPendingRequests: first what is being sent, then what waits.  Of the  *)
(* frames of a WebSocket only one that was not written is handed over, and  *)
(* here a frame is written at once. *)
BeingSent == IF http THEN [i \in DOMAIN calls |-> [id |-> calls[i].id, value |-> calls[i].value, stream |-> calls[i].stream,
                                                  timed |-> calls[i].opened \/ calls[i].timed]]
             ELSE <<>>
Added(requests, overHttp) ==
  Folded([b \in Boxes \X Reconfigurations |-> WithRequest(b[1], b[2], overHttp, FALSE)], Box(<<>>, pendingChange), requests)
HandedBackwards(overHttp) == Added(outbox \o BeingSent, overHttp)
Handed(overHttp) == Added(BeingSent \o outbox, overHttp)

(* Is a bandwidth handed over that is older than the one the session        *)
(* recovers with. *)
Outrun(queue) == kind = "bandwidth" /\ \E i \in DOMAIN queue : queue[i].value < wanted

(* A new Session takes over, and the previous one is shut down: its calls   *)
(* are heard of no more.  After a pause it has the session to recover.      *)
NextStream ==
  /\ phase \in {"OPEN", "SLEEP"} /\ stream < MaxStreams
  /\ stream' = stream + 1
  /\ http' \in BOOLEAN /\ dead' = FALSE
  /\ calls' = <<>>
  /\ monitor' = FreshMonitor
  /\ \/ phase = "OPEN" /\ UNCHANGED <<phase, carried>> /\ Becomes(Handed(http'))
     \/ /\ phase = "SLEEP" /\ http' /\ phase' = "CREATING" /\ carried' = wanted
        /\ Becomes([Handed(TRUE) EXCEPT !.lost = @ \cup IF Outrun(Handed(TRUE).queue) THEN {"handed over"} ELSE {}])
  /\ UNCHANGED <<kind, wanted, due, lastId, known, unmanaged, timers, server, faults>>

(* The socket breaks, or its opening is aborted. *)
SocketDies ==
  /\ ~http /\ ~dead /\ stream < MaxStreams
  /\ dead' = TRUE
  /\ calls' = <<>>
  /\ UNCHANGED <<kind, wanted, due, lastId, tables, phase, carried, stream, http, outbox, timers, lost, server, faults>>

(* The stream is interrupted: the session sleeps until it recovers. *)
FallAsleep ==
  /\ phase = "OPEN" /\ stream < MaxStreams /\ (http \/ dead)
  /\ phase' = "SLEEP"
  /\ UNCHANGED <<kind, wanted, due, lastId, tables, carried, stream, http, dead, traffic, server, faults>>

(* The server created or recovered the session, with the bandwidth it was   *)
(* asked for. *)
SessionCreated ==
  /\ phase = "CREATING"
  /\ phase' = "OPEN"
  /\ server' = IF kind = "bandwidth" THEN carried ELSE server
  /\ UNCHANGED <<kind, wanted, due, lastId, tables, carried, stream, http, dead, traffic, faults>>

(* closeSession with onSessionClose. *)
CloseSession ==
  /\ phase = "OPEN"
  /\ phase' = "OFF" /\ pendingChange' = 0
  /\ outbox' = <<>> /\ calls' = <<>>
  /\ UNCHANGED <<kind, wanted, due, lastId, known, monitor, unmanaged, carried, stream, http, dead, timers, lost, server, faults>>
-----------------------------------------------------------------------------
ChangeInit ==
  /\ kind \in {"frequency", "bandwidth"}
  /\ phase = (IF kind = "frequency" THEN "OPEN" ELSE "CREATING")
  /\ http \in BOOLEAN
  /\ wanted = 0 /\ due = 0 /\ lastId = 0 /\ server = 0 /\ carried = 0
  /\ pendingChange = 0 /\ known = TRUE /\ monitor = FreshMonitor /\ unmanaged = FALSE
  /\ stream = 1 /\ dead = FALSE /\ outbox = <<>> /\ calls = <<>> /\ timers = {} /\ faults = 0 /\ lost = {}

Timeouts == \E t \in timers : TutorTimeout(t)
ChangeNext ==
  \/ SetValue \/ Forget \/ ServerSentBandwidth \/ HandleChange
  \/ SendHttp \/ SendWs \/ CallOpens \/ Apply \/ AnswerArrives \/ CallBreaks
  \/ Timeouts
  \/ NextStream \/ SocketDies \/ FallAsleep \/ SessionCreated \/ CloseSession

(* The tasks of the session thread run, timeouts included; a call opens and *)
(* is answered or breaks; a session that lost its stream gets another.      *)
ChangeFairness ==
  /\ WF_changeVars(HandleChange) /\ WF_changeVars(SendHttp \/ SendWs)
  /\ WF_changeVars(CallOpens \/ AnswerArrives) /\ WF_changeVars(Apply)
  /\ WF_changeVars(Timeouts)
  /\ WF_changeVars((dead \/ phase = "SLEEP") /\ NextStream) /\ WF_changeVars(SessionCreated)

ChangeSpec == ChangeInit /\ [][ChangeNext]_changeVars /\ ChangeFairness
-----------------------------------------------------------------------------
(* Properties.                                                             *)

(* The server never goes back to an older value: an old change that is sent *)
(* again, or handed over with the stream, carries the value of today or     *)
(* comes before the newer one.  Only a bandwidth that was waiting when the   *)
(* session fell asleep comes after the newer one it recovered with.         *)
NoOldValue == [][server' >= server \/ "handed over" \in lost]_changeVars

(* The last value reaches the server, whatever breaks and whenever a stream *)
(* is replaced, except in the ways the code loses a change: made while the  *)
(* session is being created, added to a dead socket, aborted by its own     *)
(* retransmission, or undone by an older one handed over.  A bandwidth the    *)
(* server leaves alone is not its concern.                                   *)
ChangeSettles == <>[](server = wanted \/ lost # {} \/ ~known \/ unmanaged \/ phase = "OFF")
=============================================================================
