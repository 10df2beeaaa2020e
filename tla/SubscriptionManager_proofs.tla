---------------------- MODULE SubscriptionManager_proofs --------------------
(***************************************************************************)
(* The table and the pending sets of SubscriptionManager agree with each   *)
(* other and with the requests on their way, for any number of             *)
(* Subscriptions, ids, sessions and broken connections; a subscription that *)
(* waits for its answer has exactly one tutor; and over WebSocket one that  *)
(* the client holds as subscribed is.                                       *)
(***************************************************************************)
EXTENDS SubscriptionManager, SequenceTheorems, FiniteSetTheorems, TLAPS

(* Nothing exists before the first session. *)
NothingBefore ==
  session = 0 =>
    /\ ~sessionAlive /\ requestManager = "none"
    /\ queued = {} /\ calls = {} /\ timers = {} /\ wire = {}
    /\ server = {} /\ notes = <<>>

(* The add and remove calls of a Subscription alternate, starting from     *)
(* what the table says and ending with what isActive says.                 *)
IsTask(s, i) == i \in 1..Len(tasks) /\ tasks[i].sub = s
FirstTask(s, i) == IsTask(s, i) /\ \A j \in 1..(i-1) : tasks[j].sub # s
LastTask(s, i) == IsTask(s, i) /\ \A j \in (i+1)..Len(tasks) : tasks[j].sub # s
NextTask(s, i, j) ==
  IsTask(s, i) /\ IsTask(s, j) /\ i < j /\ \A k \in (i+1)..(j-1) : tasks[k].sub # s

Tabled == {s \in Subs : InTable(s)}

FirstAgrees(s) == \A i \in Nat : FirstTask(s, i) => (tasks[i].op = "add" <=> s \notin Tabled)
LastAgrees(s)  == \A i \in Nat : LastTask(s, i) => (tasks[i].op = "add" <=> active[s])
OpsAlternate(s) ==
  \A i, j \in Nat : NextTask(s, i, j) => (tasks[i].op = "add" <=> tasks[j].op # "add")
NoneAgrees(s)  == (\A i \in Nat : ~IsTask(s, i)) => (active[s] <=> s \in Tabled)

TasksAlternate ==
  \A s \in Subs : FirstAgrees(s) /\ LastAgrees(s) /\ OpsAlternate(s) /\ NoneAgrees(s)

(* Nobody has heard of an id that was not given out. *)
OnTheWay == queued \cup timers \cup wire \cup {c.request : c \in calls}
FreshIds ==
  /\ \A id \in Ids :
       Known(id) \/ id \in pendingDelete \cup pendingUnsubscribe \cup server => id <= lastId
  /\ \A r \in OnTheWay : r.id <= lastId
  /\ \A i \in 1..Len(notes) : notes[i].id <= lastId

(* A delete request is for an id that left the table and is not deferred. *)
DeletesAreDue ==
  \A r \in OnTheWay :
    r.kind = "delete" => ~Known(r.id) /\ r.id \notin pendingUnsubscribe

IInv ==
  /\ TypeOK
  /\ NothingBefore
  /\ TableConsistent
  /\ TasksAlternate
  /\ FreshIds
  /\ PendingDisjoint
  /\ DeletesAreDue
-----------------------------------------------------------------------------
(* The types of what the helpers leave behind.                             *)

(* setPhase leaves the phases and their counters well typed. *)
LEMMA SetPhaseType ==
  ASSUME TypeOK, NEW S, NEW what \in Phases, SetPhase(S, what)
  PROVE  /\ tablePhaseType' \in [Subs -> Phases]
         /\ tablePhase' \in [Subs -> Nat]
  BY DEF TypeOK, SetPhase

(* A known id stands for a Subscription. *)
LEMMA KnownType ==
  ASSUME TypeOK, NEW id \in Ids, Known(id)
  PROVE  subscriptions[id] \in Subs
  BY DEF TypeOK, Known

(* The requests subscribe and unsubscribe make are well typed. *)
LEMMA RequestType ==
  ASSUME TypeOK, session # 0, NEW id \in Ids, NEW phase \in Nat, NEW try \in {0, 1}
  PROVE  AddRequest(id, phase, try) \in Request /\ DeleteRequest(id, try) \in Request
<1>1. session \in 1..MaxSession
  BY BoundsAssumption DEF TypeOK
<1> QED
  BY <1>1 DEF AddRequest, DeleteRequest, Request

(* A request added to the batch, in place of another or not, leaves requests. *)
LEMMA EnqueuedType ==
  ASSUME TypeOK, NEW r \in Request
  PROVE  Enqueued(r) \subseteq Request
  BY DEF TypeOK, Enqueued

(* unsubscribe leaves the pending sets and the network well typed. *)
LEMMA UnsubscribeType ==
  ASSUME TypeOK, session # 0, NEW id \in Ids, Unsubscribe(id)
  PROVE  /\ pendingDelete' \subseteq Ids
         /\ pendingUnsubscribe' \subseteq Ids
         /\ queued' \subseteq Request
<1>1. DeleteRequest(id, 0) \in Request
  BY RequestType
<1>2. Enqueued(DeleteRequest(id, 0)) \subseteq Request
  BY <1>1, EnqueuedType
<1> QED
  BY <1>2 DEF TypeOK, Unsubscribe

(* So does the choice between sending and deferring an unsubscription. *)
LEMMA PendingType ==
  ASSUME TypeOK, session # 0, NEW id \in Ids,
         UnsubscribeUnlessPending(id) \/ ForgetDelete(id)
  PROVE  /\ pendingDelete' \subseteq Ids
         /\ pendingUnsubscribe' \subseteq Ids
         /\ queued' \subseteq Request
<1>1. CASE Unsubscribe(id)
  BY <1>1, UnsubscribeType
<1>2. CASE ~Unsubscribe(id)
  BY <1>2 DEF TypeOK, UnsubscribeUnlessPending, ForgetDelete, pendingVars
<1> QED
  BY <1>1, <1>2

(* SUBOK, REQOK and a refusal leave the Subscriptions well typed. *)
LEMMA SubscriptionEventType ==
  ASSUME TypeOK, session # 0, NEW id \in Ids, NEW what \in Phases,
         SubscriptionEvent(id, what)
  PROVE  /\ tablePhaseType' \in [Subs -> Phases]
         /\ tablePhase' \in [Subs -> Nat]
         /\ pendingDelete' \subseteq Ids
         /\ pendingUnsubscribe' \subseteq Ids
         /\ queued' \subseteq Request
<1>1. CASE Known(id)
  BY <1>1, SetPhaseType DEF SubscriptionEvent, TypeOK, pendingVars
<1>2. CASE ~Known(id)
  BY <1>2, PendingType DEF SubscriptionEvent, TypeOK
<1> QED
  BY <1>1, <1>2

(* A retransmission leaves the phases and the network well typed. *)
LEMMA DoRecoveryType ==
  ASSUME TypeOK, session # 0, NEW r \in Request, DoRecovery(r)
  PROVE  /\ pendingDelete' \subseteq Ids
         /\ pendingUnsubscribe' \subseteq Ids
         /\ queued' \subseteq Request
<1> DEFINE again == [r EXCEPT !.session = session, !.try = 1 - @]
<1>1. session \in 1..MaxSession
  BY BoundsAssumption DEF TypeOK
<1>2. again \in Request
  <2>1. 1 - r.try \in {0, 1}
    BY DEF Request
  <2>2. [r EXCEPT !.session = session] \in Request
    BY <1>1 DEF Request
  <2>3. [[r EXCEPT !.session = session] EXCEPT !.try = 1 - r.try] \in Request
    BY <2>1, <2>2 DEF Request
  <2>4. again = [[r EXCEPT !.session = session] EXCEPT !.try = 1 - r.try]
    BY <2>2 DEF Request
  <2> QED
    BY <2>3, <2>4
<1>3. Enqueued(again) \subseteq Request
  BY <1>2, EnqueuedType
<1> QED
  BY <1>3 DEF TypeOK, DoRecovery

(* Closing a session pauses the table and clears the pending sets. *)
LEMMA CloseSessionType ==
  ASSUME TypeOK, NEW kept \in SUBSET calls, CloseSession(kept), rejected' \in BOOLEAN
  PROVE  TypeOK'
<1>1. tablePhaseType' \in [Subs -> Phases] /\ tablePhase' \in [Subs -> Nat]
  BY SetPhaseType DEF CloseSession, Phases
<1>2. calls' \subseteq Call /\ notes' \in Seq(Notes)
  BY DEF CloseSession, TypeOK
<1>3. sessionAlive' \in BOOLEAN
  BY DEF CloseSession
<1> QED
  BY <1>1, <1>2, <1>3 DEF TypeOK, CloseSession, tableVars

(* Traffic of any kind means that a session was created. *)
LEMMA CallsNeedSession ==
  ASSUME IInv, calls # {} \/ timers # {} \/ wire # {} \/ notes # <<>> \/ server # {}
                \/ sessionAlive
  PROVE  session # 0
  BY DEF IInv, NothingBefore

(* An answer leaves the calls and the stream connection well typed. *)
LEMMA AnsweredType ==
  ASSUME TypeOK, NEW c \in calls, NEW kind, NEW reply, Answered(c, kind, reply)
  PROVE  calls' \subseteq Call /\ notes' \in Seq(Notes)
<1>1. calls' \subseteq Call
  BY DEF Answered, TypeOK
<1>2. notes \in Seq(Notes)
  BY DEF TypeOK
<1>3. notes' = notes \/ (notes # <<>> /\ notes' = Tail(notes))
  BY DEF Answered
<1> QED
  BY <1>1, <1>2, <1>3, HeadTailProperties

(* Every step keeps the types. *)
LEMMA TypeStep ==
  ASSUME IInv, [Next]_vars
  PROVE  TypeOK'
<1>t. TypeOK
  BY DEF IInv
<1>1. ASSUME NEW s \in Subs, ClientSubscribe(s) PROVE TypeOK'
  BY <1>1, <1>t DEF TypeOK, subVars, tableVars, pendingVars, sessionVars, networkVars, ClientSubscribe, Tasks
<1>2. ASSUME NEW s \in Subs, ClientUnsubscribe(s) PROVE TypeOK'
  BY <1>2, <1>t DEF TypeOK, subVars, tableVars, pendingVars, sessionVars, networkVars, ClientUnsubscribe, Tasks
<1>3. CASE DoAdd
  <2> DEFINE s == Head(tasks).sub
             id == lastId + 1
  <2>1. s \in Subs /\ tasks' \in Seq(Tasks) /\ id \in Ids
    <3>1. Head(tasks) \in Tasks /\ Tail(tasks) \in Seq(Tasks)
      BY <1>3, <1>t, HeadTailProperties DEF DoAdd, TypeOK
    <3>2. s \in Subs
      BY <3>1 DEF Tasks
    <3> QED
      BY <1>3, <1>t, <3>1, <3>2, BoundsAssumption DEF DoAdd, TypeOK, Ids
  <2>2. lastId' \in 0..MaxId /\ subscriptions' \in [Ids -> Subs \cup {NoSub}]
        /\ subscriptionId' \in [Subs -> 0..MaxId]
    BY <1>3, <1>t, <2>1, BoundsAssumption DEF DoAdd, TypeOK, Ids
  <2>3. CASE sessionAlive
    <3>1. AddRequest(id, tablePhase[s] + 1, 0) \in Request
      <4>1. session # 0
        BY <2>3, CallsNeedSession
      <4>2. tablePhase[s] + 1 \in Nat
        BY <1>t, <2>1 DEF TypeOK
      <4> HIDE DEF s, id
      <4> QED
        BY <1>t, <2>1, <4>1, <4>2, RequestType
    <3>2. queued' \subseteq Request
      BY <1>3, <1>t, <2>3, <3>1, EnqueuedType DEF DoAdd
    <3>3. tablePhaseType' \in [Subs -> Phases] /\ tablePhase' \in [Subs -> Nat]
      BY <1>3, <1>t, <2>3, SetPhaseType DEF DoAdd, Phases
    <3> QED
      BY <1>3, <1>t, <2>1, <2>2, <3>2, <3>3 DEF DoAdd, TypeOK, subVars, tableVars, pendingVars, sessionVars, networkVars
  <2>4. CASE ~sessionAlive
    <3>1. tablePhaseType' \in [Subs -> Phases]
      <4>1. tablePhaseType' = [tablePhaseType EXCEPT ![s] = "PAUSED"]
        BY <1>3, <2>4 DEF DoAdd
      <4>2. tablePhaseType \in [Subs -> Phases]
        BY <1>t DEF TypeOK
      <4> HIDE DEF s
      <4> QED
        BY <4>1, <4>2 DEF Phases
    <3>2. tablePhase' \in [Subs -> Nat]
      <4>1. tablePhase' = [tablePhase EXCEPT ![s] = tablePhase[s] + 2]
        BY <1>3, <2>4 DEF DoAdd
      <4>2. tablePhase \in [Subs -> Nat] /\ tablePhase[s] + 2 \in Nat
        BY <1>t, <2>1 DEF TypeOK
      <4> HIDE DEF s
      <4> QED
        BY <4>1, <4>2
    <3> QED
      BY <1>3, <1>t, <2>1, <2>2, <2>4, <3>1, <3>2 DEF DoAdd, TypeOK, subVars, tableVars, pendingVars, sessionVars, networkVars
  <2> QED
    BY <2>3, <2>4
<1>4. CASE DoRemove
  <2> DEFINE s == Head(tasks).sub
             id == subscriptionId[s]
  <2>1. s \in Subs /\ tasks' \in Seq(Tasks) /\ id \in 0..MaxId
    <3>1. Head(tasks) \in Tasks /\ Tail(tasks) \in Seq(Tasks)
      BY <1>4, <1>t, HeadTailProperties DEF DoRemove, TypeOK
    <3>2. s \in Subs
      BY <3>1 DEF Tasks
    <3> QED
      BY <1>4, <1>t, <3>1, <3>2, BoundsAssumption DEF DoRemove, TypeOK, Ids
  <2>2. tablePhaseType[s] # "OFF" => id \in Ids
    BY <1>t, <2>1, SubsAssumption DEF IInv, TableConsistent, InTable, Known
  <2>3. tablePhaseType' \in [Subs -> Phases] /\ tablePhase' \in [Subs -> Nat]
    BY <1>4, <1>t, SetPhaseType DEF DoRemove, Phases
  <2>4. subscriptions' \in [Ids -> Subs \cup {NoSub}]
    BY <1>4, <1>t DEF DoRemove, TypeOK
  <2>5. pendingDelete' \subseteq Ids /\ pendingUnsubscribe' \subseteq Ids /\ queued' \subseteq Request
    <3>1. CASE sessionAlive /\ tablePhaseType[s] = "SUBSCRIBING"
      BY <1>4, <1>t, <2>2, <3>1 DEF DoRemove, TypeOK
    <3>2. CASE sessionAlive /\ tablePhaseType[s] = "PUSHING"
      BY <1>4, <1>t, <2>2, <3>2, UnsubscribeType, CallsNeedSession DEF DoRemove
    <3>3. CASE ~(sessionAlive /\ tablePhaseType[s] \in {"SUBSCRIBING", "PUSHING"})
      BY <1>4, <1>t, <3>3 DEF DoRemove, TypeOK, pendingVars
    <3> QED
      BY <3>1, <3>2, <3>3
  <2> QED
    BY <1>4, <1>t, <2>1, <2>3, <2>4, <2>5 DEF DoRemove, TypeOK, sessionVars
<1>5. CASE SessionCreate
  BY <1>5, <1>t, BoundsAssumption DEF TypeOK, subVars, tableVars, pendingVars, sessionVars, networkVars, SessionCreate
<1>6. CASE SessionStart
  <2>1. session # 0
    BY <1>6 DEF SessionStart, IInv, NothingBefore
  <2>2. tablePhaseType' \in [Subs -> Phases] /\ tablePhase' \in [Subs -> Nat]
    BY <1>6, <1>t, SetPhaseType DEF SessionStart, Phases
  <2>3. \A id \in {i \in Ids : Known(i)} :
          AddRequest(id, tablePhase[subscriptions[id]] + 1, 0) \in Request
    BY <1>t, <2>1, RequestType, KnownType DEF TypeOK
  <2>4. queued' \subseteq Request
    BY <1>6, <1>t, <2>3 DEF SessionStart, TypeOK
  <2>5. sessionAlive' \in BOOLEAN
    BY <1>6 DEF SessionStart
  <2> QED
    BY <1>6, <1>t, <2>1, <2>2, <2>3, <2>4, <2>5 DEF TypeOK, SessionStart, subVars, tableVars, pendingVars, sessionVars, networkVars
<1>7. ASSUME NEW goToSleep \in BOOLEAN, SessionClose(goToSleep) PROVE TypeOK'
  BY <1>7, <1>t, CloseSessionType DEF SessionClose, OtherSessionsCalls, TypeOK
<1>8. CASE SendBatch
  <2>1. \A r \in queued :
          [request |-> r, opened |-> FALSE, reply |-> "none"] \in Call
    BY <1>t DEF TypeOK, Call, Replies
  <2>2. calls' \subseteq Call
    BY <1>8, <1>t, <2>1 DEF SendBatch, TypeOK
  <2>3. wire' \subseteq Request /\ queued' \subseteq Request
    BY <1>8, <1>t DEF SendBatch, TypeOK
  <2>4. pendingDelete' \subseteq Ids /\ pendingUnsubscribe' \subseteq Ids
    BY <1>8, <1>t DEF SendBatch, TypeOK
  <2> QED
    BY <1>8, <1>t, <2>1, <2>2, <2>3, <2>4 DEF TypeOK, SendBatch, subVars, tableVars, pendingVars, sessionVars, networkVars
<1>9. ASSUME NEW c \in calls, OnOpen(c) PROVE TypeOK'
  <2>1. c \in Call /\ c.request \in Request
    BY <1>t DEF TypeOK, Call
  <2>2. [c EXCEPT !.opened = TRUE] \in Call
    BY <2>1 DEF Call
  <2>3. calls' \subseteq Call
    BY <1>9, <1>t, <2>2 DEF OnOpen, TypeOK
  <2>4. [c.request EXCEPT !.phase = @ + 1] \in Request
    BY <2>1 DEF Request
  <2>5. timers' \subseteq Request
    BY <1>9, <1>t, <2>1, <2>4 DEF OnOpen, TypeOK
  <2>6. tablePhaseType' \in [Subs -> Phases] /\ tablePhase' \in [Subs -> Nat]
    BY <1>9, <1>t, SetPhaseType DEF OnOpen, TypeOK, Phases
  <2> QED
    BY <1>9, <1>t, <2>1, <2>2, <2>3, <2>4, <2>5, <2>6 DEF TypeOK, OnOpen, subVars, tableVars, pendingVars, sessionVars, networkVars
<1>10. ASSUME NEW c \in calls, CallBroken(c) PROVE TypeOK'
  <2>1. c.request \in Request /\ c.request.id \in Ids
    BY <1>t DEF TypeOK, Call, Request
  <2>2. session # 0
    BY CallsNeedSession
  <2>3. pendingDelete' \subseteq Ids /\ pendingUnsubscribe' \subseteq Ids /\ queued' \subseteq Request
    BY <1>10, <1>t, <2>1, <2>2, DoRecoveryType DEF CallBroken, TypeOK, pendingVars
  <2>4. calls' \subseteq Call /\ wire' \subseteq Request /\ broken' \in 0..MaxBroken
    BY <1>10, <1>t, BoundsAssumption DEF CallBroken, TypeOK
  <2> QED
    BY <1>10, <1>t, <2>1, <2>2, <2>3, <2>4 DEF TypeOK, CallBroken, subVars, tableVars, pendingVars, sessionVars, networkVars
<1>11. ASSUME NEW c \in calls, OnSubscriptionAck(c) PROVE TypeOK'
  <2>1. c.request \in Request /\ c.request.id \in Ids
    BY <1>t DEF TypeOK, Call, Request
  <2>2. session # 0
    BY CallsNeedSession
  <2>3. calls' \subseteq Call /\ notes' \in Seq(Notes)
    BY <1>11, <1>t, AnsweredType DEF OnSubscriptionAck
  <2>4. tablePhaseType' \in [Subs -> Phases] /\ tablePhase' \in [Subs -> Nat]
        /\ pendingDelete' \subseteq Ids /\ pendingUnsubscribe' \subseteq Ids /\ queued' \subseteq Request
    BY <1>11, <1>t, <2>1, <2>2, SubscriptionEventType DEF OnSubscriptionAck, Phases
  <2> QED
    BY <1>11, <1>t, <2>1, <2>2, <2>3, <2>4 DEF TypeOK, OnSubscriptionAck, subVars, tableVars, pendingVars, sessionVars, networkVars
<1>12. ASSUME NEW c \in calls, OnSubscriptionError(c) PROVE TypeOK'
  <2>1. c.request \in Request /\ c.request.id \in Ids
    BY <1>t DEF TypeOK, Call, Request
  <2>2. session # 0
    BY CallsNeedSession
  <2>3. calls' \subseteq Call /\ notes' \in Seq(Notes)
    BY <1>12, <1>t, AnsweredType DEF OnSubscriptionError
  <2>4. tablePhaseType' \in [Subs -> Phases] /\ tablePhase' \in [Subs -> Nat]
        /\ pendingDelete' \subseteq Ids /\ pendingUnsubscribe' \subseteq Ids /\ queued' \subseteq Request
    BY <1>12, <1>t, <2>1, <2>2, SubscriptionEventType DEF OnSubscriptionError, Phases
  <2> QED
    BY <1>12, <1>t, <2>1, <2>2, <2>3, <2>4 DEF TypeOK, OnSubscriptionError, subVars, tableVars, pendingVars, sessionVars, networkVars
<1>13. ASSUME NEW c \in calls, OnUnsubscriptionAck(c) PROVE TypeOK'
  <2>1. c.request \in Request /\ c.request.id \in Ids
    BY <1>t DEF TypeOK, Call, Request
  <2>2. session # 0
    BY CallsNeedSession
  <2>3. calls' \subseteq Call /\ notes' \in Seq(Notes)
    BY <1>13, <1>t, AnsweredType DEF OnUnsubscriptionAck
  <2>4. pendingDelete' \subseteq Ids /\ pendingUnsubscribe' \subseteq Ids /\ queued' \subseteq Request
    BY <1>13, <1>t, <2>1, <2>2, PendingType DEF OnUnsubscriptionAck
  <2> QED
    BY <1>13, <1>t, <2>1, <2>2, <2>3, <2>4 DEF TypeOK, OnUnsubscriptionAck, subVars, tableVars, pendingVars, sessionVars, networkVars
<1>14. ASSUME NEW c \in calls, OnUnsubscriptionError(c) PROVE TypeOK'
  <2>1. c.request \in Request /\ c.request.id \in Ids
    BY <1>t DEF TypeOK, Call, Request
  <2>2. session # 0
    BY CallsNeedSession
  <2>3. calls' \subseteq Call /\ notes' \in Seq(Notes)
    BY <1>14, <1>t, AnsweredType DEF OnUnsubscriptionError
  <2>4. timers' \subseteq Request
    BY <1>14, <1>t DEF OnUnsubscriptionError, TypeOK
  <2> QED
    BY <1>14, <1>t, <2>1, <2>2, <2>3, <2>4 DEF TypeOK, OnUnsubscriptionError, subVars, tableVars, pendingVars, sessionVars, networkVars
<1>15. ASSUME NEW c \in calls, OnLateEvent(c) PROVE TypeOK'
  BY <1>15, <1>t, CloseSessionType DEF OnLateEvent, OnFatalError, OtherSessionsCalls
<1>16. ASSUME NEW r \in timers, Timeout(r) PROVE TypeOK'
  <2>1. r \in Request /\ session # 0
    BY <1>t, CallsNeedSession DEF TypeOK
  <2>2. pendingDelete' \subseteq Ids /\ pendingUnsubscribe' \subseteq Ids /\ queued' \subseteq Request
    BY <1>16, <1>t, <2>1, DoRecoveryType DEF Timeout, TypeOK, pendingVars
  <2> QED
    BY <1>16, <1>t, <2>1, <2>2 DEF TypeOK, Timeout, subVars, tableVars, pendingVars, sessionVars, networkVars
<1>17. CASE ReadNote
  <2>1. Head(notes) \in Notes /\ notes' \in Seq(Notes)
    BY <1>17, <1>t, HeadTailProperties DEF ReadNote, TypeOK
  <2>2. Head(notes).id \in Ids /\ session # 0
    BY <1>17, <2>1, CallsNeedSession DEF ReadNote, Notes
  <2>3. tablePhaseType' \in [Subs -> Phases] /\ tablePhase' \in [Subs -> Nat]
        /\ pendingDelete' \subseteq Ids /\ pendingUnsubscribe' \subseteq Ids /\ queued' \subseteq Request
    BY <1>17, <1>t, <2>2, SubscriptionEventType, PendingType DEF ReadNote, TypeOK, Phases, pendingVars
  <2> QED
    BY <1>17, <1>t, <2>1, <2>2, <2>3 DEF TypeOK, ReadNote, subVars, tableVars, pendingVars, sessionVars, networkVars
<1>18. ASSUME NEW r \in wire, ServerReceives(r) PROVE TypeOK'
  <2>1. r \in Request /\ r.id \in Ids
    BY <1>t DEF TypeOK, Request
  <2>2. \A reply \in Replies : \A d \in calls : [d EXCEPT !.reply = reply] \in Call
    BY <1>t DEF TypeOK, Call
  <2>3. <<>> \in Seq(Notes) /\ <<ReplyNote(r)>> \in Seq(Notes)
    BY <2>1 DEF ReplyNote, Note, Notes
  <2>4. \A reply \in Replies, told \in Seq(Notes) : ServerSends(r, reply, told) =>
          calls' \subseteq Call /\ notes' \in Seq(Notes)
    BY <1>t, <2>2, <2>3, ConcatProperties DEF TypeOK, ServerSends
  <2>5. <<Note("SUBOK", r.id)>> \in Seq(Notes) /\ <<Note("UNSUB", r.id)>> \in Seq(Notes)
        /\ <<>> \in Seq(Notes)
    BY <2>1 DEF Note, Notes
  <2>6. calls' \subseteq Call /\ notes' \in Seq(Notes)
    BY <1>18, <2>4, <2>5 DEF ServerReceives, Replies
  <2>7. server' \subseteq Ids /\ wire' \subseteq Request
    BY <1>18, <1>t, <2>1 DEF ServerReceives, TypeOK
  <2> QED
    BY <1>18, <1>t, <2>1, <2>2, <2>3, <2>4, <2>5, <2>6, <2>7 DEF TypeOK, ServerReceives, subVars, tableVars, pendingVars, sessionVars, networkVars
<1>19. ASSUME NEW id \in server, ServerUpdate(id) PROVE TypeOK'
  <2>1. Note("U", id) \in Notes
    BY <1>t DEF TypeOK, Note, Notes
  <2>2. notes' \in Seq(Notes)
    BY <1>19, <1>t, <2>1, AppendProperties DEF ServerUpdate, TypeOK
  <2> QED
    BY <1>19, <1>t, <2>1, <2>2 DEF TypeOK, ServerUpdate, subVars, tableVars, pendingVars, sessionVars, networkVars
<1>20. CASE UNCHANGED vars
  BY <1>20, <1>t DEF TypeOK, subVars, tableVars, pendingVars, sessionVars, networkVars, vars
<1> QED
  BY <1>1, <1>2, <1>3, <1>4, <1>5, <1>6, <1>7, <1>8, <1>9, <1>10, <1>11, <1>12, <1>13, <1>14, <1>15, <1>16, <1>17, <1>18, <1>19, <1>20 DEF Next, OnAnswer

(* Head and tail of the stream connection, element by element. *)
LEMMA TailIds ==
  ASSUME NEW q \in Seq(Notes), q # <<>>
  PROVE  /\ Head(q) = q[1] /\ 1 \in 1..Len(q)
         /\ \A i \in 1..Len(Tail(q)) : i + 1 \in 1..Len(q) /\ Tail(q)[i] = q[i + 1]
  BY HeadTailProperties

(* An answer adds nothing to the stream connection. *)
LEMMA AnsweredHeard ==
  ASSUME TypeOK, NEW c \in calls, NEW kind, NEW reply, Answered(c, kind, reply)
  PROVE  \A i \in 1..Len(notes') : \E j \in 1..Len(notes) : notes[j].id = notes'[i].id
<1>1. notes \in Seq(Notes)
  BY DEF TypeOK
<1>2. notes' = notes \/ (notes # <<>> /\ notes' = Tail(notes))
  BY DEF Answered
<1>3. CASE notes # <<>> /\ notes' = Tail(notes)
  <2>1. \A i \in 1..Len(notes') : i + 1 \in 1..Len(notes) /\ notes'[i] = notes[i + 1]
    BY <1>1, <1>3, TailIds
  <2> QED
    BY <2>1
<1> QED
  BY <1>2, <1>3

(* The stream connection with one notification and with none. *)
LEMMA OneNote ==
  /\ \A n \in Notes : <<n>> \in Seq(Notes) /\ Len(<<n>>) = 1 /\ <<n>>[1] = n
  /\ <<>> \in Seq(Notes) /\ Len(<<>>) = 0
  OBVIOUS

(* What is sent for id adds no notification for any other id. *)
LEMMA NotesAppended ==
  ASSUME NEW q \in Seq(Notes), NEW id \in Ids,
         NEW a \in Seq(Notes), NEW b \in Seq(Notes),
         \A i \in 1..Len(a) : a[i].id = id, \A i \in 1..Len(b) : b[i].id = id
  PROVE  \A i \in 1..Len(q \o a \o b) :
           (q \o a \o b)[i].id = id \/ \E j \in 1..Len(q) : q[j].id = (q \o a \o b)[i].id
<1>1. /\ q \o a \in Seq(Notes) /\ Len(q \o a) = Len(q) + Len(a)
      /\ \A i \in 1..Len(q) + Len(a) :
           (q \o a)[i] = IF i <= Len(q) THEN q[i] ELSE a[i - Len(q)]
  BY ConcatProperties
<1>2. /\ Len(q \o a \o b) = Len(q \o a) + Len(b)
      /\ \A i \in 1..Len(q \o a) + Len(b) :
           (q \o a \o b)[i] = IF i <= Len(q \o a) THEN (q \o a)[i] ELSE b[i - Len(q \o a)]
  BY <1>1, ConcatProperties
<1> QED
  BY <1>1, <1>2

-----------------------------------------------------------------------------
(* What a step other than DoAdd and DoRemove may do: it leaves the table   *)
(* alone, and the ids it puts anywhere are ids of what was there, or are   *)
(* due for unsubscription.                                                 *)
Due(id) == id <= lastId /\ ~Known(id) /\ id \notin pendingUnsubscribe'
Accounted(r) ==
  \/ \E q \in OnTheWay : q.id = r.id /\ q.kind = r.kind
  \/ r.kind = "add" /\ Known(r.id) /\ r.id \in Ids
  \/ Due(r.id)
Heard(id) == id \in server \/ \E q \in OnTheWay : q.id = id

SameTable ==
  /\ UNCHANGED <<tableVars, subscriptionId>>
  /\ \A s \in Subs : (tablePhaseType'[s] = "OFF") <=> (tablePhaseType[s] = "OFF")
SamePending ==
  /\ pendingUnsubscribe' \subseteq pendingUnsubscribe
  /\ \A id \in pendingDelete' : id \in pendingDelete \/ Due(id)
SameRequests ==
  /\ \A r \in queued' : Accounted(r)
  /\ \A r \in timers' : Accounted(r)
  /\ \A r \in wire' : Accounted(r)
  /\ \A c \in calls' : Accounted(c.request)
SameNews ==
  /\ \A id \in server' : Heard(id)
  /\ \A i \in 1..Len(notes') :
       Heard(notes'[i].id) \/ \E j \in 1..Len(notes) : notes[j].id = notes'[i].id
Quiet == SameTable /\ SamePending /\ SameRequests /\ SameNews

(* A change of phase that leaves OFF alone does not show in the table. *)
LEMMA SetPhaseQuiet ==
  ASSUME TypeOK, TableConsistent, NEW S, NEW what \in Phases \ {"OFF"}, SetPhase(S, what),
         \A s \in S : s \in Subs => InTable(s)
  PROVE  \A s \in Subs : (tablePhaseType'[s] = "OFF") <=> (tablePhaseType[s] = "OFF")
  BY DEF SetPhase, TableConsistent

(* A request that is somewhere on its way is accounted for. *)
LEMMA KeptRequests ==
  ASSUME NEW r,
         r \in queued \/ r \in timers \/ r \in wire \/ (\E c \in calls : c.request = r)
  PROVE  Accounted(r)
  BY DEF Accounted, OnTheWay

(* unsubscribe of an id that left the table asks for a request that is due. *)
LEMMA UnsubscribeQuiet ==
  ASSUME TypeOK, NEW id \in Ids, id <= lastId, ~Known(id), Unsubscribe(id)
  PROVE  SamePending /\ \A r \in queued' : Accounted(r)
<1>1. Due(id)
  BY DEF Unsubscribe, Due
<1>2. SamePending
  BY <1>1 DEF Unsubscribe, SamePending
<1>3. ASSUME NEW r \in queued' PROVE Accounted(r)
  <2>1. CASE r \in queued
    BY <2>1, KeptRequests
  <2>2. CASE r = DeleteRequest(id, 0)
    BY <2>2, <1>1 DEF DeleteRequest, Accounted
  <2> QED
    BY <2>1, <2>2 DEF Unsubscribe, Enqueued
<1> QED
  BY <1>2, <1>3

(* So does an unsubscription made for an unknown id, and an ack forgets one. *)
LEMMA PendingQuiet ==
  ASSUME TypeOK, PendingDisjoint, NEW id \in Ids, id <= lastId,
         (~Known(id) /\ UnsubscribeUnlessPending(id)) \/ ForgetDelete(id)
  PROVE  SamePending /\ \A r \in queued' : Accounted(r)
<1>1. CASE Unsubscribe(id) /\ ~Known(id)
  BY <1>1, UnsubscribeQuiet
<1>2. CASE ~(Unsubscribe(id) /\ ~Known(id))
  <2>1. /\ pendingDelete' \subseteq pendingDelete
        /\ UNCHANGED <<pendingUnsubscribe, queued>>
    BY <1>2 DEF UnsubscribeUnlessPending, ForgetDelete, PendingDisjoint, pendingVars
  <2> QED
    BY <2>1, KeptRequests DEF SamePending
<1> QED
  BY <1>1, <1>2

(* An event of a subscription changes phases of Subscriptions in the table only. *)
LEMMA SubscriptionEventQuiet ==
  ASSUME TypeOK, TableConsistent, PendingDisjoint, NEW id \in Ids, id <= lastId,
         NEW what \in Phases \ {"OFF"}, SubscriptionEvent(id, what)
  PROVE  /\ SamePending /\ \A r \in queued' : Accounted(r)
         /\ \A s \in Subs : (tablePhaseType'[s] = "OFF") <=> (tablePhaseType[s] = "OFF")
<1>1. CASE Known(id)
  <2>1. SetPhase({subscriptions[id]}, what) /\ UNCHANGED <<pendingVars, queued>>
    BY <1>1 DEF SubscriptionEvent
  <2>2. \A s \in {subscriptions[id]} : InTable(s)
    BY DEF InTable
  <2> QED
    BY <2>1, <2>2, SetPhaseQuiet, KeptRequests DEF SamePending, pendingVars
<1>2. CASE ~Known(id)
  BY <1>2, PendingQuiet DEF SubscriptionEvent
<1> QED
  BY <1>1, <1>2

(* A retransmission makes a request of the same kind for the same id. *)
LEMMA DoRecoveryQuiet ==
  ASSUME TypeOK, NEW r \in Request, DoRecovery(r), Accounted(r)
  PROVE  SamePending /\ \A q \in queued' : Accounted(q)
<1> DEFINE again == [r EXCEPT !.session = session, !.try = 1 - @]
<1>1. SamePending
  BY DEF DoRecovery, SamePending
<1>2. again.id = r.id /\ again.kind = r.kind
  BY DEF Request
<1>3. Accounted(again)
  BY <1>2 DEF Accounted
<1>4. \A q \in queued' : q \in queued \/ q = again
  BY DEF DoRecovery, Enqueued
<1> QED
  BY <1>1, <1>3, <1>4, KeptRequests

(* The end of a session empties the pending sets and spares the table. *)
LEMMA CloseSessionQuiet ==
  ASSUME TypeOK, TableConsistent, NEW kept \in SUBSET calls, CloseSession(kept)
  PROVE  Quiet
<1>1. SameTable
  BY SetPhaseQuiet DEF CloseSession, SameTable, subVars, tableVars, Phases
<1>2. SamePending
  BY DEF CloseSession, SamePending
<1>3. SameRequests
  BY KeptRequests DEF CloseSession, SameRequests
<1>4. SameNews
  BY DEF CloseSession, SameNews
<1> QED
  BY <1>1, <1>2, <1>3, <1>4 DEF Quiet

(* Requests and notifications are about ids that were given out. *)
LEMMA OldIds ==
  ASSUME IInv
  PROVE  /\ \A c \in calls : c.request \in Request /\ c.request.id \in Ids
                             /\ c.request.id <= lastId
         /\ \A r \in timers \cup wire \cup queued : r \in Request /\ r.id \in Ids
                             /\ r.id <= lastId
         /\ \A i \in 1..Len(notes) : notes[i].id \in Ids /\ notes[i].id <= lastId
<1>1. \A c \in calls : c.request \in Request /\ c.request.id \in Ids
  BY DEF IInv, TypeOK, Call, Request
<1>2. \A r \in timers \cup wire \cup queued : r \in Request /\ r.id \in Ids
  BY DEF IInv, TypeOK, Request
<1>3. \A i \in 1..Len(notes) : notes[i] \in Notes
  BY ElementOfSeq DEF IInv, TypeOK
<1>4. \A i \in 1..Len(notes) : notes[i].id \in Ids
  BY <1>3 DEF Notes
<1> QED
  BY <1>1, <1>2, <1>4 DEF IInv, FreshIds, OnTheWay

(* Every step but DoAdd and DoRemove spares the table and keeps the pending sets apart. *)
LEMMA QuietStep ==
  ASSUME IInv, [Next]_vars, ~DoAdd, ~DoRemove
  PROVE  Quiet
<1>t. TypeOK /\ TableConsistent /\ PendingDisjoint
  BY DEF IInv
<1>1. ASSUME NEW s \in Subs, ClientSubscribe(s) PROVE Quiet
  <2>1. SameTable
    BY <1>1 DEF ClientSubscribe, SameTable, subVars, tableVars, pendingVars, sessionVars, networkVars
  <2>2. SamePending
    BY <1>1 DEF ClientSubscribe, SamePending, subVars, tableVars, pendingVars, sessionVars, networkVars
  <2>3. SameRequests
    BY <1>1, KeptRequests DEF ClientSubscribe, SameRequests, subVars, tableVars, pendingVars, sessionVars, networkVars
  <2>4. SameNews
    BY <1>1 DEF ClientSubscribe, SameNews, Heard, subVars, tableVars, pendingVars, sessionVars, networkVars
  <2> QED
    BY <2>1, <2>2, <2>3, <2>4 DEF Quiet
<1>2. ASSUME NEW s \in Subs, ClientUnsubscribe(s) PROVE Quiet
  <2>1. SameTable
    BY <1>2 DEF ClientUnsubscribe, SameTable, subVars, tableVars, pendingVars, sessionVars, networkVars
  <2>2. SamePending
    BY <1>2 DEF ClientUnsubscribe, SamePending, subVars, tableVars, pendingVars, sessionVars, networkVars
  <2>3. SameRequests
    BY <1>2, KeptRequests DEF ClientUnsubscribe, SameRequests, subVars, tableVars, pendingVars, sessionVars, networkVars
  <2>4. SameNews
    BY <1>2 DEF ClientUnsubscribe, SameNews, Heard, subVars, tableVars, pendingVars, sessionVars, networkVars
  <2> QED
    BY <2>1, <2>2, <2>3, <2>4 DEF Quiet
<1>3. CASE SessionCreate
  <2>1. SameTable
    BY <1>3 DEF SessionCreate, SameTable, subVars, tableVars, pendingVars, sessionVars, networkVars
  <2>2. SamePending
    BY <1>3 DEF SessionCreate, SamePending, subVars, tableVars, pendingVars, sessionVars, networkVars
  <2>3. SameRequests
    BY <1>3, KeptRequests DEF SessionCreate, SameRequests, subVars, tableVars, pendingVars, sessionVars, networkVars
  <2>4. SameNews
    BY <1>3 DEF SessionCreate, SameNews, Heard, subVars, tableVars, pendingVars, sessionVars, networkVars
  <2> QED
    BY <2>1, <2>2, <2>3, <2>4 DEF Quiet
<1>4. CASE SessionStart
  <2>1. \A id \in {i \in Ids : Known(i)} :
          Accounted(AddRequest(id, tablePhase[subscriptions[id]] + 1, 0))
    BY DEF Accounted, AddRequest
  <2>2. SameTable
    BY <1>4, <1>t, SetPhaseQuiet DEF SessionStart, Phases, SameTable, subVars, tableVars, pendingVars, sessionVars, networkVars
  <2>3. SamePending
    BY <1>4 DEF SessionStart, SamePending, subVars, tableVars, pendingVars, sessionVars, networkVars
  <2>4. SameRequests
    BY <1>4, <2>1, KeptRequests DEF SessionStart, SameRequests
  <2>5. SameNews
    BY <1>4 DEF SessionStart, SameNews, Heard, subVars, tableVars, pendingVars, sessionVars, networkVars
  <2> QED
    BY <2>2, <2>3, <2>4, <2>5 DEF Quiet
<1>5. ASSUME NEW goToSleep \in BOOLEAN, SessionClose(goToSleep) PROVE Quiet
  BY <1>5, <1>t, CloseSessionQuiet DEF SessionClose, OtherSessionsCalls
<1>6. CASE SendBatch
  <2>1. \A c \in calls' : c \in calls \/ c.request \in queued
    BY <1>6 DEF SendBatch
  <2>2. SameTable
    BY <1>6 DEF SendBatch, SameTable, subVars, tableVars, pendingVars, sessionVars, networkVars
  <2>3. SamePending
    BY <1>6 DEF SendBatch, SamePending, subVars, tableVars, pendingVars, sessionVars, networkVars
  <2>4. SameRequests
    BY <1>6, <2>1, KeptRequests DEF SendBatch, SameRequests
  <2>5. SameNews
    BY <1>6 DEF SendBatch, SameNews, Heard, subVars, tableVars, pendingVars, sessionVars, networkVars
  <2> QED
    BY <2>2, <2>3, <2>4, <2>5 DEF Quiet
<1>7. ASSUME NEW c \in calls, OnOpen(c) PROVE Quiet
  <2>1. CheckPhase(c.request.id, c.request.phase) => InTable(subscriptions[c.request.id])
    BY OldIds DEF InTable
  <2>2. \A d \in calls' : Accounted(d.request)
    BY <1>7, <1>t, KeptRequests DEF OnOpen, TypeOK, Call
  <2>3. Accounted([c.request EXCEPT !.phase = @ + 1])
    BY OldIds DEF Accounted, OnTheWay, Request
  <2>4. SameTable
    BY <1>7, <1>t, <2>1, SetPhaseQuiet DEF OnOpen, Phases, SameTable, subVars, tableVars, pendingVars, sessionVars, networkVars
  <2>5. SamePending
    BY <1>7 DEF OnOpen, SamePending, subVars, tableVars, pendingVars, sessionVars, networkVars
  <2>6. SameRequests
    BY <1>7, <2>2, <2>3, KeptRequests DEF OnOpen, SameRequests
  <2>7. SameNews
    BY <1>7 DEF OnOpen, SameNews, Heard, subVars, tableVars, pendingVars, sessionVars, networkVars
  <2> QED
    BY <2>4, <2>5, <2>6, <2>7 DEF Quiet
<1>8. ASSUME NEW c \in calls, CallBroken(c) PROVE Quiet
  <2>1. c.request.id \in Ids /\ c.request.id <= lastId /\ c.request \in Request
    BY OldIds
  <2>2. Accounted(c.request)
    BY KeptRequests
  <2>3. SameTable
    BY <1>8 DEF CallBroken, SameTable, subVars, tableVars, pendingVars, sessionVars, networkVars
  <2>4. SamePending
    BY <1>8, <2>1, <2>2, <1>t, DoRecoveryQuiet DEF CallBroken, SamePending, pendingVars
  <2>5. SameRequests
    BY <1>8, <2>1, <2>2, <1>t, DoRecoveryQuiet, KeptRequests DEF CallBroken, SameRequests, pendingVars
  <2>6. SameNews
    BY <1>8 DEF CallBroken, SameNews, Heard, subVars, tableVars, pendingVars, sessionVars, networkVars
  <2> QED
    BY <2>3, <2>4, <2>5, <2>6 DEF Quiet
<1>9. ASSUME NEW c \in calls, OnSubscriptionAck(c) PROVE Quiet
  <2>1. c.request.id \in Ids /\ c.request.id <= lastId /\ c.request \in Request
    BY OldIds
  <2>2. /\ SamePending
        /\ \A r \in queued' : Accounted(r)
        /\ \A s \in Subs : (tablePhaseType'[s] = "OFF") <=> (tablePhaseType[s] = "OFF")
    BY <1>9, <1>t, <2>1, SubscriptionEventQuiet DEF OnSubscriptionAck, Phases
  <2>3. calls' \subseteq calls
    BY <1>9 DEF OnSubscriptionAck, Answered
  <2>4. \A i \in 1..Len(notes') :
          \E j \in 1..Len(notes) : notes[j].id = notes'[i].id
    BY <1>9, <1>t, AnsweredHeard DEF OnSubscriptionAck
  <2>5. SameTable
    BY <1>9, <2>2 DEF OnSubscriptionAck, SameTable, subVars, tableVars, pendingVars, sessionVars, networkVars
  <2>6. SamePending
    BY <2>2
  <2>7. SameRequests
    BY <1>9, <2>2, <2>3, KeptRequests DEF OnSubscriptionAck, SameRequests, subVars, tableVars, pendingVars, sessionVars, networkVars
  <2>8. SameNews
    BY <1>9, <2>4 DEF OnSubscriptionAck, SameNews, Heard
  <2> QED
    BY <2>5, <2>6, <2>7, <2>8 DEF Quiet
<1>10. ASSUME NEW c \in calls, OnSubscriptionError(c) PROVE Quiet
  <2>1. c.request.id \in Ids /\ c.request.id <= lastId /\ c.request \in Request
    BY OldIds
  <2>2. /\ SamePending
        /\ \A r \in queued' : Accounted(r)
        /\ \A s \in Subs : (tablePhaseType'[s] = "OFF") <=> (tablePhaseType[s] = "OFF")
    BY <1>10, <1>t, <2>1, SubscriptionEventQuiet DEF OnSubscriptionError, Phases
  <2>3. calls' \subseteq calls
    BY <1>10 DEF OnSubscriptionError, Answered
  <2>4. \A i \in 1..Len(notes') :
          \E j \in 1..Len(notes) : notes[j].id = notes'[i].id
    BY <1>10, <1>t, AnsweredHeard DEF OnSubscriptionError
  <2>5. SameTable
    BY <1>10, <2>2 DEF OnSubscriptionError, SameTable, subVars, tableVars, pendingVars, sessionVars, networkVars
  <2>6. SamePending
    BY <2>2
  <2>7. SameRequests
    BY <1>10, <2>2, <2>3, KeptRequests DEF OnSubscriptionError, SameRequests, subVars, tableVars, pendingVars, sessionVars, networkVars
  <2>8. SameNews
    BY <1>10, <2>4 DEF OnSubscriptionError, SameNews, Heard
  <2> QED
    BY <2>5, <2>6, <2>7, <2>8 DEF Quiet
<1>11. ASSUME NEW c \in calls, OnUnsubscriptionAck(c) PROVE Quiet
  <2>1. c.request.id \in Ids /\ c.request.id <= lastId /\ c.request \in Request
    BY OldIds
  <2>2. /\ SamePending
        /\ \A r \in queued' : Accounted(r)
    BY <1>11, <1>t, <2>1, PendingQuiet DEF OnUnsubscriptionAck
  <2>3. calls' \subseteq calls
    BY <1>11 DEF OnUnsubscriptionAck, Answered
  <2>4. \A i \in 1..Len(notes') :
          \E j \in 1..Len(notes) : notes[j].id = notes'[i].id
    BY <1>11, <1>t, AnsweredHeard DEF OnUnsubscriptionAck
  <2>5. SameTable
    BY <1>11 DEF OnUnsubscriptionAck, SameTable, subVars, tableVars, pendingVars, sessionVars, networkVars
  <2>6. SamePending
    BY <2>2
  <2>7. SameRequests
    BY <1>11, <2>2, <2>3, KeptRequests DEF OnUnsubscriptionAck, SameRequests, subVars, tableVars, pendingVars, sessionVars, networkVars
  <2>8. SameNews
    BY <1>11, <2>4 DEF OnUnsubscriptionAck, SameNews, Heard
  <2> QED
    BY <2>5, <2>6, <2>7, <2>8 DEF Quiet
<1>12. ASSUME NEW c \in calls, OnUnsubscriptionError(c) PROVE Quiet
  <2>1. \A i \in 1..Len(notes') : \E j \in 1..Len(notes) : notes[j].id = notes'[i].id
    BY <1>12, <1>t, AnsweredHeard DEF OnUnsubscriptionError
  <2>2. SameTable
    BY <1>12 DEF OnUnsubscriptionError, Answered, SameTable, subVars, tableVars, pendingVars, sessionVars, networkVars
  <2>3. SamePending
    BY <1>12 DEF OnUnsubscriptionError, Answered, SamePending, subVars, tableVars, pendingVars, sessionVars, networkVars
  <2>4. SameRequests
    BY <1>12, KeptRequests DEF OnUnsubscriptionError, Answered, SameRequests, subVars, tableVars, pendingVars, sessionVars, networkVars
  <2>5. SameNews
    BY <1>12, <2>1 DEF OnUnsubscriptionError, Answered, SameNews, Heard
  <2> QED
    BY <2>2, <2>3, <2>4, <2>5 DEF Quiet
<1>13. ASSUME NEW c \in calls, OnLateEvent(c) PROVE Quiet
  BY <1>13, <1>t, CloseSessionQuiet DEF OnLateEvent, OnFatalError, OtherSessionsCalls
<1>14. ASSUME NEW r \in timers, Timeout(r) PROVE Quiet
  <2>1. r \in Request
    BY OldIds
  <2>2. Accounted(r)
    BY KeptRequests
  <2>3. SameTable
    BY <1>14 DEF Timeout, SameTable, subVars, tableVars, pendingVars, sessionVars, networkVars
  <2>4. SamePending
    BY <1>14, <2>1, <2>2, <1>t, DoRecoveryQuiet DEF Timeout, SamePending, pendingVars
  <2>5. SameRequests
    BY <1>14, <2>1, <2>2, <1>t, DoRecoveryQuiet, KeptRequests DEF Timeout, SameRequests, pendingVars
  <2>6. SameNews
    BY <1>14 DEF Timeout, SameNews, Heard, subVars, tableVars, pendingVars, sessionVars, networkVars
  <2> QED
    BY <2>3, <2>4, <2>5, <2>6 DEF Quiet
<1>15. CASE ReadNote
  <2>1. Head(notes).id \in Ids /\ Head(notes).id <= lastId
    BY <1>15, <1>t, TailIds, OldIds DEF ReadNote, TypeOK
  <2>2. /\ SamePending
        /\ \A r \in queued' : Accounted(r)
        /\ \A s \in Subs : (tablePhaseType'[s] = "OFF") <=> (tablePhaseType[s] = "OFF")
    BY <1>15, <1>t, <2>1, SubscriptionEventQuiet, PendingQuiet, KeptRequests
    DEF ReadNote, Phases, SamePending, pendingVars
  <2>3. \A i \in 1..Len(notes') : \E j \in 1..Len(notes) : notes[j].id = notes'[i].id
    BY <1>15, <1>t, TailIds DEF ReadNote, TypeOK
  <2>4. SameTable
    BY <1>15, <2>2 DEF ReadNote, SameTable, subVars, tableVars, pendingVars, sessionVars, networkVars
  <2>5. SamePending
    BY <2>2
  <2>6. SameRequests
    BY <1>15, <2>2, KeptRequests DEF ReadNote, SameRequests
  <2>7. SameNews
    BY <1>15, <2>3 DEF ReadNote, SameNews, Heard
  <2> QED
    BY <2>4, <2>5, <2>6, <2>7 DEF Quiet
<1>16. ASSUME NEW r \in wire, ServerReceives(r) PROVE Quiet
  <2>1. r \in Request /\ r.id \in Ids /\ Heard(r.id)
    BY OldIds DEF Heard, OnTheWay
  <2>2. \A d \in calls' : \E e \in calls : e.request = d.request
    <3>1. \A e \in calls, reply \in Replies : [e EXCEPT !.reply = reply].request = e.request
      BY <1>t DEF TypeOK, Call
    <3>2. PICK reply \in Replies :
            calls' = {IF e.request = r /\ e.reply = "none" THEN [e EXCEPT !.reply = reply]
                                                          ELSE e : e \in calls}
      BY <1>16 DEF ServerReceives, ServerSends, Replies
    <3> DEFINE answered(e) == IF e.request = r /\ e.reply = "none"
                             THEN [e EXCEPT !.reply = reply] ELSE e
    <3>3. \A e \in calls : answered(e).request = e.request
      BY <3>1
    <3>4. calls' = {answered(e) : e \in calls}
      BY <3>2
    <3> HIDE DEF answered
    <3> QED
      BY <3>3, <3>4
  <2>3. \A i \in 1..Len(notes') :
          notes'[i].id = r.id \/ \E j \in 1..Len(notes) : notes[j].id = notes'[i].id
    <3> DEFINE a == IF Http THEN <<>> ELSE <<ReplyNote(r)>>
    <3>1. a \in Seq(Notes) /\ \A i \in 1..Len(a) : a[i].id = r.id
      <4>1. ReplyNote(r) \in Notes /\ ReplyNote(r).id = r.id
        BY <2>1 DEF ReplyNote, Note, Notes
      <4> QED
        BY <4>1, OneNote
    <3>2. PICK told \in {<<>>, <<Note("SUBOK", r.id)>>, <<Note("UNSUB", r.id)>>} :
            notes' = notes \o a \o told
      BY <1>16 DEF ServerReceives, ServerSends
    <3>3. told \in Seq(Notes) /\ \A i \in 1..Len(told) : told[i].id = r.id
      <4>1. \A event \in {"SUBOK", "UNSUB"} : Note(event, r.id) \in Notes
                                            /\ Note(event, r.id).id = r.id
        BY <2>1 DEF Note, Notes
      <4>2. CASE told = <<>>
        BY <4>2, OneNote
      <4>3. ASSUME NEW event \in {"SUBOK", "UNSUB"}, told = <<Note(event, r.id)>>
            PROVE  told \in Seq(Notes) /\ \A i \in 1..Len(told) : told[i].id = r.id
        BY <4>1, <4>3, OneNote
      <4> QED
        BY <3>2, <4>2, <4>3
    <3>4. notes \in Seq(Notes) /\ r.id \in Ids
      BY <1>t, <2>1 DEF TypeOK
    <3> HIDE DEF a
    <3> QED
      BY <3>1, <3>2, <3>3, <3>4, NotesAppended, SMTT(30)
  <2>4. SameTable
    BY <1>16 DEF ServerReceives, SameTable, subVars, tableVars, pendingVars, sessionVars, networkVars
  <2>5. SamePending
    BY <1>16 DEF ServerReceives, SamePending, subVars, tableVars, pendingVars, sessionVars, networkVars
  <2>6. SameRequests
    BY <1>16, <2>2, KeptRequests DEF ServerReceives, SameRequests
  <2>7. SameNews
    BY <1>16, <2>1, <2>3 DEF ServerReceives, SameNews, Heard
  <2> QED
    BY <2>4, <2>5, <2>6, <2>7 DEF Quiet
<1>17. ASSUME NEW id \in server, ServerUpdate(id) PROVE Quiet
  <2>1. Note("U", id) \in Notes /\ Note("U", id).id = id
    BY <1>t DEF TypeOK, Note, Notes
  <2>2. \A i \in 1..Len(notes') :
          notes'[i].id = id \/ \E j \in 1..Len(notes) : notes[j].id = notes'[i].id
    BY <1>17, <1>t, <2>1, AppendProperties DEF ServerUpdate, TypeOK
  <2>3. SameTable
    BY <1>17 DEF ServerUpdate, SameTable, subVars, tableVars, pendingVars, sessionVars, networkVars
  <2>4. SamePending
    BY <1>17 DEF ServerUpdate, SamePending, subVars, tableVars, pendingVars, sessionVars, networkVars
  <2>5. SameRequests
    BY <1>17, KeptRequests DEF ServerUpdate, SameRequests, subVars, tableVars, pendingVars, sessionVars, networkVars
  <2>6. SameNews
    BY <1>17, <2>2 DEF ServerUpdate, SameNews, Heard
  <2> QED
    BY <2>3, <2>4, <2>5, <2>6 DEF Quiet
<1>18. CASE UNCHANGED vars
  <2>1. SameTable
    BY <1>18 DEF vars, SameTable, subVars, tableVars, pendingVars, sessionVars, networkVars
  <2>2. SamePending
    BY <1>18 DEF vars, SamePending, subVars, tableVars, pendingVars, sessionVars, networkVars
  <2>3. SameRequests
    BY <1>18, KeptRequests DEF vars, SameRequests, subVars, tableVars, pendingVars, sessionVars, networkVars
  <2>4. SameNews
    BY <1>18 DEF vars, SameNews, Heard, subVars, tableVars, pendingVars, sessionVars, networkVars
  <2> QED
    BY <2>1, <2>2, <2>3, <2>4 DEF Quiet
<1> QED
  BY <1>1, <1>2, <1>3, <1>4, <1>5, <1>6, <1>7, <1>8, <1>9, <1>10, <1>11, <1>12, <1>13, <1>14, <1>15, <1>16, <1>17, <1>18 DEF Next, OnAnswer

-----------------------------------------------------------------------------
(* The alternation of add and remove.                                      *)

(* The call at the head is an add just when its Subscription is not in the table. *)
LEMMA FirstIsHead ==
  ASSUME tasks \in Seq(Tasks), tasks # <<>>, TasksAlternate, Head(tasks).sub \in Subs
  PROVE  Head(tasks).op = "add" <=> Head(tasks).sub \notin Tabled
<1>1. Head(tasks) = tasks[1] /\ 1 \in 1..Len(tasks)
  OBVIOUS
<1>2. FirstTask(Head(tasks).sub, 1)
  BY <1>1 DEF FirstTask, IsTask
<1> QED
  BY <1>1, <1>2 DEF TasksAlternate, FirstAgrees

(* The alternation depends on the queued calls, the table and isActive only. *)
LEMMA SameTasks ==
  ASSUME TasksAlternate, UNCHANGED <<tasks, active>>,
         Tabled' = Tabled
  PROVE  TasksAlternate'
<1>1. ASSUME NEW x \in Subs
      PROVE  FirstAgrees(x)' /\ LastAgrees(x)' /\ OpsAlternate(x)' /\ NoneAgrees(x)'
  <2>1. FirstAgrees(x) /\ LastAgrees(x) /\ OpsAlternate(x) /\ NoneAgrees(x)
    BY DEF TasksAlternate
  <2>2. FirstAgrees(x)'
    BY <2>1 DEF FirstAgrees, FirstTask, IsTask
  <2>3. LastAgrees(x)'
    BY <2>1 DEF LastAgrees, LastTask, IsTask
  <2>4. OpsAlternate(x)'
    BY <2>1 DEF OpsAlternate, NextTask, IsTask
  <2>5. NoneAgrees(x)'
    BY <2>1 DEF NoneAgrees, IsTask
  <2> QED
    BY <2>2, <2>3, <2>4, <2>5
<1> QED
  BY <1>1 DEF TasksAlternate

(* A client call is queued where isActive says it may be, so the calls go on alternating. *)
LEMMA AppendAlternates ==
  ASSUME TasksAlternate, tasks \in Seq(Tasks), active \in [Subs -> BOOLEAN],
         NEW s \in Subs, NEW op \in {"add", "remove"},
         active[s] <=> op = "remove",
         tasks' = Append(tasks, [op |-> op, sub |-> s]),
         active' = [active EXCEPT ![s] = (op = "add")],
         subscriptions' = subscriptions
  PROVE  TasksAlternate'
<1> DEFINE n == Len(tasks)
<1>1. /\ n \in Nat /\ Len(tasks') = n + 1
      /\ \A i \in 1..n : tasks'[i] = tasks[i]
      /\ tasks'[n + 1].op = op /\ tasks'[n + 1].sub = s
  <2>1. [op |-> op, sub |-> s] \in Tasks
    BY DEF Tasks
  <2> QED
    BY <2>1, AppendProperties, LenProperties
<1>2. Tabled' = Tabled
  BY DEF Tabled, InTable
<1>3. ASSUME NEW x \in Subs, NEW i \in Nat
      PROVE  /\ IsTask(x, i)' <=> IsTask(x, i) \/ (x = s /\ i = n + 1)
             /\ IsTask(x, i) => i # n + 1 /\ i <= n /\ tasks'[i] = tasks[i]
  BY <1>1 DEF IsTask
<1>4. \A k \in Int : 1 <= k /\ k <= n => tasks'[k] = tasks[k]
  BY <1>1
<1>n. n \in Nat /\ n + 1 \in Nat
  BY <1>1
<1> HIDE DEF n
<1>5. ASSUME NEW x \in Subs, NEW i \in Nat, IsTask(x, i), FirstTask(x, i)'
      PROVE  FirstTask(x, i)
  BY <1>1, <1>3, <1>5 DEF FirstTask
<1>6. ASSUME NEW x \in Subs, NEW i \in Nat, NEW j \in Nat, IsTask(x, j), NextTask(x, i, j)'
      PROVE  NextTask(x, i, j)
  <2>1. IsTask(x, i)' /\ i < j /\ j <= n
    BY <1>3, <1>6 DEF NextTask
  <2>2. IsTask(x, i)
    BY <1>3, <1>n, <2>1
  <2>3. \A k \in (i+1)..(j-1) : tasks'[k].sub # x
    BY <1>6 DEF NextTask
  <2>4. \A k \in (i+1)..(j-1) : tasks[k].sub # x
    <3>1. ASSUME NEW k \in (i+1)..(j-1) PROVE tasks'[k] = tasks[k]
      <4>1. k \in Int /\ 1 <= k /\ k <= n
        BY <1>n, <2>1
      <4> QED
        BY <1>4, <4>1
    <3> QED
      BY <2>3, <3>1
  <2> QED
    BY <1>6, <2>1, <2>2, <2>4 DEF NextTask
<1>7. ASSUME NEW x \in Subs, x # s
      PROVE  FirstAgrees(x)' /\ LastAgrees(x)' /\ OpsAlternate(x)' /\ NoneAgrees(x)'
  <2>1. FirstAgrees(x) /\ LastAgrees(x) /\ OpsAlternate(x) /\ NoneAgrees(x)
    BY DEF TasksAlternate
  <2>2. \A i \in Nat : IsTask(x, i)' <=> IsTask(x, i)
    BY <1>3, <1>7
  <2>3. active'[x] = active[x]
    BY <1>7
  <2>4. FirstAgrees(x)'
    <3>1. ASSUME NEW i \in Nat, FirstTask(x, i)'
          PROVE  tasks'[i].op = "add" <=> x \notin Tabled'
      <4>1. IsTask(x, i)
        BY <2>2, <3>1 DEF FirstTask
      <4>2. FirstTask(x, i) /\ tasks'[i] = tasks[i]
        BY <1>3, <1>5, <3>1, <4>1
      <4> QED
        BY <1>2, <2>1, <4>2 DEF FirstAgrees
    <3> QED
      BY <3>1 DEF FirstAgrees
  <2>5. LastAgrees(x)'
    <3>1. ASSUME NEW i \in Nat, LastTask(x, i)'
          PROVE  tasks'[i].op = "add" <=> active'[x]
      <4>1. IsTask(x, i) /\ tasks'[i] = tasks[i]
        BY <1>3, <2>2, <3>1 DEF LastTask
      <4>2. LastTask(x, i)
        BY <1>1, <1>n, <3>1, <4>1 DEF LastTask, n
      <4> QED
        BY <2>1, <2>3, <4>1, <4>2 DEF LastAgrees
    <3> QED
      BY <3>1 DEF LastAgrees
  <2>6. OpsAlternate(x)'
    <3>1. ASSUME NEW i \in Nat, NEW j \in Nat, NextTask(x, i, j)'
          PROVE  tasks'[i].op = "add" <=> tasks'[j].op # "add"
      <4>1. IsTask(x, i) /\ IsTask(x, j)
        BY <2>2, <3>1 DEF NextTask
      <4>2. NextTask(x, i, j) /\ tasks'[i] = tasks[i] /\ tasks'[j] = tasks[j]
        BY <1>3, <1>6, <3>1, <4>1
      <4> QED
        BY <2>1, <4>2 DEF OpsAlternate
    <3> QED
      BY <3>1 DEF OpsAlternate
  <2>7. NoneAgrees(x)'
    BY <1>2, <2>1, <2>2, <2>3 DEF NoneAgrees
  <2> QED
    BY <2>4, <2>5, <2>6, <2>7
<1>8. FirstAgrees(s)' /\ LastAgrees(s)' /\ OpsAlternate(s)' /\ NoneAgrees(s)'
  <2>1. FirstAgrees(s) /\ LastAgrees(s) /\ OpsAlternate(s) /\ NoneAgrees(s)
    BY DEF TasksAlternate
  <2>2. \A i \in Nat : IsTask(s, i)' <=> IsTask(s, i) \/ i = n + 1
    BY <1>3
  <2>3. active'[s] <=> op = "add"
    OBVIOUS
  <2>4. FirstAgrees(s)'
    <3>1. ASSUME NEW i \in Nat, FirstTask(s, i)'
          PROVE  tasks'[i].op = "add" <=> s \notin Tabled'
      <4>1. CASE IsTask(s, i)
        <5>1. FirstTask(s, i) /\ tasks'[i] = tasks[i]
          BY <1>3, <1>5, <3>1, <4>1
        <5> QED
          BY <1>2, <2>1, <5>1 DEF FirstAgrees
      <4>2. CASE i = n + 1
        <5>1. \A j \in Nat : ~IsTask(s, j)
          BY <1>1, <1>n, <3>1, <4>2 DEF FirstTask, IsTask, n
        <5>2. active[s] <=> s \in Tabled
          BY <2>1, <5>1 DEF NoneAgrees
        <5> QED
          BY <1>1, <1>2, <4>2, <5>2
      <4> QED
        BY <2>2, <3>1, <4>1, <4>2 DEF FirstTask
    <3> QED
      BY <3>1 DEF FirstAgrees
  <2>5. LastAgrees(s)'
    <3>1. ASSUME NEW i \in Nat, LastTask(s, i)'
          PROVE  tasks'[i].op = "add" <=> active'[s]
      <4>1. i = n + 1
        BY <1>1, <1>n, <3>1 DEF LastTask, IsTask, n
      <4> QED
        BY <1>1, <2>3, <4>1
    <3> QED
      BY <3>1 DEF LastAgrees
  <2>6. OpsAlternate(s)'
    <3>1. ASSUME NEW i \in Nat, NEW j \in Nat, NextTask(s, i, j)'
          PROVE  tasks'[i].op = "add" <=> tasks'[j].op # "add"
      <4>1. CASE IsTask(s, j)
        <5>1. NextTask(s, i, j)
          BY <1>6, <3>1, <4>1
        <5>2. tasks'[i] = tasks[i] /\ tasks'[j] = tasks[j]
          BY <1>3, <5>1 DEF NextTask
        <5> QED
          BY <2>1, <5>1, <5>2 DEF OpsAlternate
      <4>2. CASE j = n + 1
        <5>1. IsTask(s, i)' /\ i < n + 1
          BY <3>1, <4>2 DEF NextTask
        <5>2. IsTask(s, i)
          BY <1>n, <2>2, <5>1
        <5>m. tasks'[i] = tasks[i]
          BY <1>3, <5>2
        <5>3. \A k \in (i+1)..n : tasks'[k].sub # s
          <6>1. \A k \in (i+1)..((n+1)-1) : tasks'[k].sub # s
            BY <3>1, <4>2 DEF NextTask
          <6> QED
            <7>1. (n + 1) - 1 = n
              BY <1>n
            <7> QED
              BY <6>1, <7>1
        <5>4. LastTask(s, i)
          BY <1>1, <5>2, <5>3 DEF LastTask, IsTask, n
        <5>5. tasks[i].op = "add" <=> active[s]
          BY <2>1, <5>4 DEF LastAgrees
        <5> QED
          BY <1>1, <4>2, <5>m, <5>5
      <4> QED
        BY <2>2, <3>1, <4>1, <4>2 DEF NextTask
    <3> QED
      BY <3>1 DEF OpsAlternate
  <2>7. NoneAgrees(s)'
    BY <1>n, <2>2 DEF NoneAgrees
  <2> QED
    BY <2>4, <2>5, <2>6, <2>7
<1> QED
  BY <1>7, <1>8 DEF TasksAlternate

(* Running the first call moves the table to where the next call of its Subscription starts. *)
LEMMA TailAlternates ==
  ASSUME TasksAlternate, tasks \in Seq(Tasks), tasks # <<>>, tasks' = Tail(tasks),
         active' = active, active \in [Subs -> BOOLEAN],
         \A x \in Subs : x = Head(tasks).sub => (x \in Tabled' <=> Head(tasks).op = "add"),
         \A x \in Subs : x # Head(tasks).sub => (x \in Tabled' <=> x \in Tabled)
  PROVE  TasksAlternate'
<1> DEFINE n == Len(tasks)
           s == Head(tasks).sub
<1>1. /\ n \in Nat /\ n > 0 /\ Len(tasks') = n - 1
      /\ \A i \in 1..(n - 1) : tasks'[i] = tasks[i + 1]
      /\ Head(tasks) = tasks[1]
  BY HeadTailProperties, LenProperties
<1>2. IsTask(s, 1)
  BY <1>1 DEF IsTask
<1>3. ASSUME NEW x, NEW i \in Nat
      PROVE  /\ IsTask(x, i)' => i \in 1..(n - 1) /\ IsTask(x, i + 1) /\ tasks'[i] = tasks[i + 1]
             /\ i \in 1..(n - 1) /\ IsTask(x, i + 1) => IsTask(x, i)'
             /\ i + 1 \in Nat
  BY <1>1 DEF IsTask
<1>4. ASSUME NEW k \in Int, 2 <= k, k <= n
      PROVE  tasks[k] = tasks'[k - 1]
  <2>1. k - 1 \in 1..(n - 1) /\ (k - 1) + 1 = k
    BY <1>1, <1>4
  <2> QED
    BY <1>1, <2>1
<1>n. n \in Nat /\ n > 0
  BY <1>1
<1>s. tasks[1].sub = s /\ Head(tasks) = tasks[1]
  BY <1>1
<1>t. /\ s \in Tabled' <=> tasks[1].op = "add"
      /\ \A x \in Subs : x # s => (x \in Tabled' <=> x \in Tabled)
  <2>1. Head(tasks) \in Tasks
    BY HeadTailProperties
  <2>2. s \in Subs
    BY <2>1 DEF Tasks
  <2>3. s \in Tabled' <=> Head(tasks).op = "add"
    BY <2>2
  <2> QED
    BY <1>s, <2>3
<1> HIDE DEF n, s
<1>5. SUFFICES ASSUME NEW x \in Subs
      PROVE  FirstAgrees(x)' /\ LastAgrees(x)' /\ OpsAlternate(x)' /\ NoneAgrees(x)'
  BY DEF TasksAlternate
<1>6. FirstAgrees(x) /\ LastAgrees(x) /\ OpsAlternate(x) /\ NoneAgrees(x)
  BY DEF TasksAlternate
<1>7. FirstAgrees(x)'
  <2>1. ASSUME NEW i \in Nat, FirstTask(x, i)'
        PROVE  tasks'[i].op = "add" <=> x \notin Tabled'
    <3>1. IsTask(x, i + 1) /\ tasks'[i] = tasks[i + 1] /\ i \in 1..(n-1) /\ i + 1 \in Nat
      BY <1>3, <2>1 DEF FirstTask
    <3>2. \A k \in 1..(i-1) : tasks'[k].sub # x
      BY <2>1 DEF FirstTask
    <3>3. ASSUME NEW k \in 2..i PROVE tasks[k].sub # x
      <4>1. k - 1 \in 1..(i-1) /\ k \in Int /\ 2 <= k /\ k <= n
        BY <1>n, <3>1
      <4> QED
        BY <1>4, <3>2, <4>1
    <3>4. CASE x = s
      <4>1. NextTask(x, 1, i + 1)
        BY <1>2, <1>n, <3>1, <3>3, <3>4 DEF NextTask
      <4>2. tasks[1].op = "add" <=> tasks[i + 1].op # "add"
        BY <1>6, <3>1, <4>1 DEF OpsAlternate
      <4>3. x \in Tabled' <=> tasks[1].op = "add"
        BY <1>t, <3>4
      <4> QED
        BY <3>1, <4>2, <4>3
    <3>5. CASE x # s
      <4>1. \A k \in 1..i : tasks[k].sub # x
        BY <1>s, <3>3, <3>5
      <4>2. FirstTask(x, i + 1)
        BY <3>1, <4>1 DEF FirstTask
      <4> QED
        BY <1>6, <1>t, <3>1, <3>5, <4>2 DEF FirstAgrees
    <3> QED
      BY <3>4, <3>5
  <2> QED
    BY <2>1 DEF FirstAgrees
<1>8. LastAgrees(x)'
  <2>1. ASSUME NEW i \in Nat, LastTask(x, i)'
        PROVE  tasks'[i].op = "add" <=> active'[x]
    <3>1. IsTask(x, i + 1) /\ tasks'[i] = tasks[i + 1] /\ i \in 1..(n-1) /\ i + 1 \in Nat
      BY <1>3, <2>1 DEF LastTask
    <3>2. \A k \in (i+1)..(n-1) : tasks'[k].sub # x
      BY <1>1, <2>1 DEF LastTask, n
    <3>3. ASSUME NEW k \in (i+2)..n PROVE tasks[k].sub # x
      <4>1. k - 1 \in (i+1)..(n-1) /\ k \in Int /\ 2 <= k /\ k <= n
        BY <1>n
      <4> QED
        BY <1>4, <3>2, <4>1
    <3>4. LastTask(x, i + 1)
      BY <1>n, <3>1, <3>3 DEF LastTask, n
    <3> QED
      BY <1>6, <3>1, <3>4 DEF LastAgrees
  <2> QED
    BY <2>1 DEF LastAgrees
<1>9. OpsAlternate(x)'
  <2>1. ASSUME NEW i \in Nat, NEW j \in Nat, NextTask(x, i, j)'
        PROVE  tasks'[i].op = "add" <=> tasks'[j].op # "add"
    <3>1. IsTask(x, i)' /\ IsTask(x, j)' /\ i < j /\ \A k \in (i+1)..(j-1) : tasks'[k].sub # x
      BY <2>1 DEF NextTask
    <3>2. IsTask(x, i + 1) /\ tasks'[i] = tasks[i + 1] /\ i + 1 \in Nat
      BY <1>3, <3>1
    <3>3. IsTask(x, j + 1) /\ tasks'[j] = tasks[j + 1] /\ j \in 1..(n-1) /\ j + 1 \in Nat
      BY <1>3, <3>1
    <3>4. ASSUME NEW k \in (i+2)..j PROVE tasks[k].sub # x
      <4>1. k - 1 \in (i+1)..(j-1) /\ k \in Int /\ 2 <= k /\ k <= n
        BY <1>n, <3>3
      <4> QED
        BY <1>4, <3>1, <4>1
    <3>5. NextTask(x, i + 1, j + 1)
      BY <3>1, <3>2, <3>3, <3>4 DEF NextTask
    <3>6. tasks[i + 1].op = "add" <=> tasks[j + 1].op # "add"
      BY <1>6, <3>2, <3>3, <3>5 DEF OpsAlternate
    <3> QED
      BY <3>2, <3>3, <3>6
  <2> QED
    BY <2>1 DEF OpsAlternate
<1>10. NoneAgrees(x)'
  <2>1. ASSUME \A i \in Nat : ~IsTask(x, i)'
        PROVE  active'[x] <=> x \in Tabled'
    <3>1. ASSUME NEW i \in Nat, IsTask(x, i) PROVE i = 1
      <4>1. i \in 1..n
        BY <3>1 DEF IsTask, n
      <4>2. CASE i # 1
        <5>1. i - 1 \in Nat /\ i - 1 \in 1..(n-1) /\ (i - 1) + 1 = i
          BY <1>n, <4>1, <4>2
        <5>2. IsTask(x, i - 1)'
          BY <1>3, <3>1, <5>1
        <5> QED
          BY <2>1, <5>1, <5>2
      <4> QED
        BY <4>2
    <3>2. CASE x = s
      <4>1. ASSUME NEW k \in 2..n, tasks[k].sub = x PROVE FALSE
        <5>1. k \in Nat /\ IsTask(x, k)
          BY <1>n, <4>1 DEF IsTask, n
        <5> QED
          BY <3>1, <5>1
      <4>2. LastTask(x, 1)
        BY <1>2, <3>2, <4>1 DEF LastTask, n
      <4>3. tasks[1].op = "add" <=> active[x]
        BY <1>6, <4>2 DEF LastAgrees
      <4>4. x \in Tabled' <=> tasks[1].op = "add"
        BY <1>t, <3>2
      <4> QED
        BY <4>3, <4>4
    <3>3. CASE x # s
      <4>1. ~IsTask(x, 1)
        BY <1>s, <3>3 DEF IsTask
      <4>2. \A i \in Nat : ~IsTask(x, i)
        BY <3>1, <4>1
      <4>3. active[x] <=> x \in Tabled
        BY <1>6, <4>2 DEF NoneAgrees
      <4> QED
        BY <1>t, <3>3, <4>3
    <3> QED
      BY <3>2, <3>3
  <2> QED
    BY <2>1 DEF NoneAgrees
<1> QED
  BY <1>7, <1>8, <1>9, <1>10

-----------------------------------------------------------------------------
(* A quiet step preserves what is said of the table, the pending sets and  *)
(* the requests.                                                           *)

(* A quiet step keeps the table consistent. *)
LEMMA QuietTable ==
  ASSUME TableConsistent, SameTable
  PROVE  TableConsistent'
  BY DEF TableConsistent, SameTable, Known, InTable, tableVars

(* A quiet step keeps the pending sets apart. *)
LEMMA QuietPending ==
  ASSUME PendingDisjoint, SameTable, SamePending
  PROVE  PendingDisjoint'
<1>1. \A id \in Ids : Known(id)' <=> Known(id)
  BY DEF SameTable, tableVars, Known
<1>2. \A id \in pendingDelete' : ~Known(id)' /\ id \notin pendingUnsubscribe'
  BY DEF PendingDisjoint, SameTable, SamePending, tableVars, Known, Due
<1>3. \A id \in pendingUnsubscribe' : ~Known(id)'
  BY DEF PendingDisjoint, SameTable, SamePending, tableVars, Known
<1> QED
  BY <1>2, <1>3 DEF PendingDisjoint

(* A quiet step sends no delete request that is deferred or known. *)
LEMMA QuietDeletes ==
  ASSUME DeletesAreDue, SameTable, SamePending, SameRequests
  PROVE  DeletesAreDue'
<1>1. \A r : Known(r.id)' <=> Known(r.id)
  BY DEF SameTable, tableVars, Known
<1>2. ASSUME NEW r, Accounted(r), r.kind = "delete"
      PROVE  ~Known(r.id) /\ r.id \notin pendingUnsubscribe'
  <2>1. CASE \E q \in OnTheWay : q.id = r.id /\ q.kind = r.kind
    BY <1>2, <2>1 DEF DeletesAreDue, SamePending
  <2> QED
    BY <1>2, <2>1 DEF Accounted, Due
<1>3. \A r \in OnTheWay' : Accounted(r)
  BY DEF SameRequests, OnTheWay
<1> QED
  BY <1>1, <1>2, <1>3 DEF DeletesAreDue

(* A quiet step mentions no id that was not given out. *)
LEMMA QuietFresh ==
  ASSUME TypeOK, FreshIds, Quiet
  PROVE  FreshIds'
<1> USE DEF Quiet
<1>1. lastId' = lastId /\ \A id \in Ids : Known(id)' <=> Known(id)
  BY DEF SameTable, tableVars, Known
<1>2. \A id : Heard(id) => id <= lastId
  BY DEF FreshIds, Heard, TypeOK
<1>3. \A r : Accounted(r) => r.id <= lastId
  BY DEF FreshIds, Accounted, Due
<1>4. \A id \in Ids : Known(id)' \/ id \in (pendingDelete \cup pendingUnsubscribe \cup server)'
                        => id <= lastId
  BY <1>1, <1>2 DEF FreshIds, SamePending, Due, SameNews
<1>5. \A r \in OnTheWay' : r.id <= lastId
  BY <1>3 DEF SameRequests, OnTheWay
<1>6. \A i \in 1..Len(notes') : notes'[i].id <= lastId
  BY <1>2 DEF SameNews, FreshIds
<1> QED
  BY <1>1, <1>4, <1>5, <1>6 DEF FreshIds
-----------------------------------------------------------------------------
(* doAdd.                                                                  *)

(* An add puts a new id in the table, which nothing mentioned before. *)
LEMMA DoAddStep ==
  ASSUME IInv, DoAdd
  PROVE  /\ TableConsistent' /\ PendingDisjoint' /\ FreshIds' /\ DeletesAreDue'
         /\ \A x \in Subs : InTable(x)' <=> (InTable(x) \/ x = Head(tasks).sub)
<1> DEFINE s == Head(tasks).sub
           id == lastId + 1
<1>t. TypeOK /\ TableConsistent /\ PendingDisjoint /\ FreshIds /\ DeletesAreDue
      /\ TasksAlternate
  BY DEF IInv
<1>1. s \in Subs /\ id \in Ids /\ lastId \in Nat
  <2>1. Head(tasks) \in Tasks
    BY <1>t, HeadTailProperties DEF DoAdd, TypeOK
  <2> QED
    BY <1>t, <2>1, BoundsAssumption DEF DoAdd, TypeOK, Ids, Tasks
<1>2. ~InTable(s)
  BY <1>1, <1>t, FirstIsHead DEF DoAdd, TypeOK, Tabled
<1>3. /\ subscriptions' = [subscriptions EXCEPT ![id] = s]
      /\ subscriptionId' = [subscriptionId EXCEPT ![s] = id]
      /\ lastId' = id
      /\ UNCHANGED <<pendingDelete, pendingUnsubscribe, server, notes, calls, timers, wire>>
  BY DEF DoAdd, pendingVars
<1>4. /\ tablePhaseType'[s] # "OFF"
      /\ \A x \in Subs \ {s} : tablePhaseType'[x] = tablePhaseType[x]
  BY <1>1, <1>t DEF DoAdd, SetPhase, TypeOK
<1>5. \A r \in queued' : r \in queued \/ (r.kind = "add" /\ r.id = id)
  BY DEF DoAdd, Enqueued, AddRequest
<1>6. \A k \in Ids : subscriptions'[k] = IF k = id THEN s ELSE subscriptions[k]
  BY <1>1, <1>3, <1>t DEF TypeOK
<1>7. \A k \in Ids : Known(k)' <=> (Known(k) \/ k = id)
  BY <1>1, <1>6, SubsAssumption DEF Known
<1>8. \A k \in Ids : k = id => k \notin pendingDelete \cup pendingUnsubscribe \cup server
  BY <1>1, <1>t DEF FreshIds
<1>9. \A r \in OnTheWay' : r \in OnTheWay \/ (r.kind = "add" /\ r.id = id)
  BY <1>3, <1>5 DEF OnTheWay
<1>10. \A r \in OnTheWay : r.id \in Ids /\ r.id # id
  <2>1. \A r \in OnTheWay : r.id <= lastId
    BY <1>t DEF FreshIds
  <2>2. \A r \in OnTheWay : r.id \in Ids
    BY OldIds DEF OnTheWay
  <2> QED
    BY <1>1, <2>1, <2>2 DEF Ids
<1>in. \A x \in Subs : InTable(x)' <=> (InTable(x) \/ x = s)
  <2>1. \A k \in Ids : k = id => ~Known(k)
    BY <1>1, <1>t DEF FreshIds
  <2> QED
    BY <1>1, <1>6, <2>1, SubsAssumption DEF InTable, Known
<1>11. TableConsistent'
  <2>1. \A k \in Ids : Known(k)' => subscriptionId'[subscriptions'[k]] = k
    BY <1>1, <1>2, <1>3, <1>6, <1>t DEF TableConsistent, Known, InTable, TypeOK
  <2>3. \A x \in Subs : (tablePhaseType'[x] = "OFF") <=> ~InTable(x)'
    BY <1>1, <1>4, <1>t, <1>in DEF TableConsistent
  <2> QED
    BY <2>1, <2>3 DEF TableConsistent
<1>12. PendingDisjoint'
  BY <1>3, <1>7, <1>8, <1>t DEF PendingDisjoint, TypeOK
<1>13. FreshIds'
  <2>1. \A k \in Ids : Known(k)' \/ k \in (pendingDelete \cup pendingUnsubscribe \cup server)'
                         => k <= lastId'
    BY <1>1, <1>3, <1>7, <1>t DEF FreshIds, Ids
  <2>2. \A r \in OnTheWay' : r.id <= lastId'
    BY <1>1, <1>3, <1>9, <1>10, <1>t DEF FreshIds, Ids
  <2>3. \A i \in 1..Len(notes') : notes'[i].id <= lastId'
    BY <1>1, <1>3, <1>t, OldIds DEF FreshIds, Ids
  <2> QED
    BY <2>1, <2>2, <2>3 DEF FreshIds
<1>14. DeletesAreDue'
  BY <1>3, <1>7, <1>9, <1>10, <1>t DEF DeletesAreDue
<1> QED
  BY <1>11, <1>12, <1>13, <1>14, <1>in
-----------------------------------------------------------------------------
(* doRemove.                                                               *)

(* A remove finds its Subscription in the table, for the calls alternate. *)
LEMMA DoRemoveStep ==
  ASSUME IInv, DoRemove
  PROVE  /\ TableConsistent' /\ PendingDisjoint' /\ FreshIds' /\ DeletesAreDue'
         /\ \A x \in Subs : InTable(x)' <=> (InTable(x) /\ x # Head(tasks).sub)
<1> DEFINE s == Head(tasks).sub
           id == subscriptionId[s]
<1>t. TypeOK /\ TableConsistent /\ PendingDisjoint /\ FreshIds /\ DeletesAreDue
      /\ TasksAlternate
  BY DEF IInv
<1>1. s \in Subs
  <2>1. Head(tasks) \in Tasks
    BY <1>t, HeadTailProperties DEF DoRemove, TypeOK
  <2> QED
    BY <2>1 DEF Tasks
<1>2. InTable(s)
  BY <1>1, <1>t, FirstIsHead DEF DoRemove, TypeOK, Tabled
<1>3. id \in Ids /\ subscriptions[id] = s /\ Known(id) /\ id <= lastId
  <2>1. id \in Ids /\ subscriptions[id] = s /\ Known(id)
    BY <1>1, <1>2, <1>t, SubsAssumption DEF TableConsistent, InTable, Known
  <2> QED
    BY <2>1, <1>t DEF FreshIds
<1>4. /\ subscriptions' = [subscriptions EXCEPT ![id] = NoSub]
      /\ UNCHANGED <<subscriptionId, lastId, server, notes, calls, timers, wire>>
  BY DEF DoRemove
<1>5. \A k \in Ids : subscriptions'[k] = IF k = id THEN NoSub ELSE subscriptions[k]
  BY <1>3, <1>4, <1>t DEF TypeOK
<1>6. \A k \in Ids : Known(k)' <=> (Known(k) /\ k # id)
  BY <1>5 DEF Known
<1>7. /\ pendingUnsubscribe' \subseteq pendingUnsubscribe \cup {id}
      /\ pendingDelete' \subseteq pendingDelete \cup {id}
      /\ \A r \in queued' : r \in queued \/ (r.kind = "delete" /\ r.id = id)
      /\ id \in pendingUnsubscribe' => pendingDelete' = pendingDelete /\ queued' = queued
  BY <1>3, <1>t DEF DoRemove, Unsubscribe, DeleteRequest, Enqueued, PendingDisjoint, pendingVars
<1>8. id \notin pendingDelete \cup pendingUnsubscribe
  BY <1>3, <1>t DEF PendingDisjoint
<1>9. \A r \in OnTheWay' : r \in OnTheWay \/ (r.kind = "delete" /\ r.id = id /\ id \notin pendingUnsubscribe')
  BY <1>4, <1>7 DEF OnTheWay
<1>10. \A r \in OnTheWay : r.kind = "delete" => r.id # id
  BY <1>3, <1>t DEF DeletesAreDue
<1>11. \A r \in OnTheWay : r.id \in Ids
  BY OldIds DEF OnTheWay
<1>in. \A x \in Subs : InTable(x)' <=> (InTable(x) /\ x # s)
  <2>1. \A k \in Ids : subscriptions[k] = s => k = id
    BY <1>1, <1>t, SubsAssumption DEF TableConsistent, Known
  <2> QED
    BY <1>3, <1>5, <2>1, SubsAssumption DEF InTable
<1>12. TableConsistent'
  <2>1. \A k \in Ids : Known(k)' => subscriptionId'[subscriptions'[k]] = k
    BY <1>4, <1>5, <1>6, <1>t DEF TableConsistent
  <2>3. \A x \in Subs : tablePhaseType'[x] = IF x = s THEN "OFF" ELSE tablePhaseType[x]
    BY DEF DoRemove, SetPhase
  <2> QED
    BY <2>1, <2>3, <1>in, <1>t DEF TableConsistent
<1>13. PendingDisjoint'
  <2>1. id \in pendingUnsubscribe' => id \notin pendingDelete'
    BY <1>7, <1>8
  <2>2. \A k \in pendingDelete' \cup pendingUnsubscribe' :
          k \in Ids /\ (k \in pendingDelete \cup pendingUnsubscribe \/ k = id)
    BY <1>3, <1>7, <1>t DEF TypeOK
  <2>3. pendingDelete' \cap pendingUnsubscribe' = {}
    BY <1>7, <2>1, <1>t DEF PendingDisjoint
  <2>4. \A k \in pendingDelete' \cup pendingUnsubscribe' : ~Known(k)'
    BY <1>6, <2>2, <1>t DEF PendingDisjoint
  <2> QED
    BY <2>3, <2>4 DEF PendingDisjoint
<1>14. FreshIds'
  <2>1. \A k \in Ids : Known(k)' \/ k \in (pendingDelete \cup pendingUnsubscribe \cup server)'
                         => k <= lastId'
    BY <1>3, <1>4, <1>6, <1>7, <1>t DEF FreshIds
  <2>2. \A r \in OnTheWay' : r.id <= lastId'
    BY <1>3, <1>4, <1>9, <1>t DEF FreshIds
  <2> QED
    BY <2>1, <2>2, <1>4, <1>t DEF FreshIds
<1>15. DeletesAreDue'
  <2>1. \A r \in OnTheWay' : r.id \in Ids
    BY <1>3, <1>9, <1>11
  <2> QED
    BY <1>6, <1>7, <1>8, <1>9, <1>10, <2>1, <1>t DEF DeletesAreDue
<1> QED
  BY <1>12, <1>13, <1>14, <1>15, <1>in
-----------------------------------------------------------------------------
(* The rest of the inductive invariant.                                    *)

(* The invariant holds at first. *)
LEMMA InitIInv ==
  ASSUME Init
  PROVE  IInv
<1>1. TypeOK
  <2>1. tasks \in Seq(Tasks) /\ notes \in Seq(Notes)
    BY DEF Init
  <2>2. /\ active \in [Subs -> BOOLEAN]
        /\ tablePhaseType \in [Subs -> Phases]
        /\ tablePhase \in [Subs -> Nat]
        /\ subscriptions \in [Ids -> Subs \cup {NoSub}]
    BY DEF Init, Phases
  <2>3. subscriptionId \in [Subs -> 0..MaxId] /\ lastId \in 0..MaxId
    BY BoundsAssumption DEF Init
  <2>4. session \in 0..MaxSession /\ broken \in 0..MaxBroken
    BY BoundsAssumption DEF Init
  <2>5. /\ sessionAlive \in BOOLEAN /\ rejected \in BOOLEAN
        /\ requestManager \in {"none", "ready", "dismissed"}
    BY DEF Init
  <2>6. /\ pendingDelete = {} /\ pendingUnsubscribe = {} /\ server = {}
        /\ queued = {} /\ calls = {} /\ timers = {} /\ wire = {}
    BY DEF Init
  <2> QED
    BY <2>1, <2>2, <2>3, <2>4, <2>5, <2>6 DEF TypeOK
<1>2. NothingBefore
  BY DEF Init, NothingBefore
<1>3. TableConsistent /\ PendingDisjoint
  BY SubsAssumption DEF Init, TableConsistent, PendingDisjoint, Known, InTable
<1>4. TasksAlternate
  <2>1. \A s, i : ~IsTask(s, i)
    BY DEF Init, IsTask
  <2>2. \A s \in Subs : ~active[s] /\ s \notin Tabled
    BY SubsAssumption DEF Init, Tabled, InTable
  <2> QED
    BY <2>1, <2>2
       DEF TasksAlternate, FirstAgrees, LastAgrees, OpsAlternate, NoneAgrees,
           FirstTask, LastTask, NextTask
<1>5. OnTheWay = {}
  BY DEF Init, OnTheWay
<1>6. FreshIds
  BY <1>5 DEF Init, FreshIds, Known
<1>7. DeletesAreDue
  BY <1>5 DEF DeletesAreDue
<1> QED
  BY <1>1, <1>2, <1>3, <1>4, <1>6, <1>7 DEF IInv

(* Before the first session no step reaches the network. *)
LEMMA NothingBeforeStep ==
  ASSUME IInv, [Next]_vars
  PROVE  NothingBefore'
<1> SUFFICES ASSUME session' = 0
             PROVE  /\ ~sessionAlive' /\ requestManager' = "none"
                    /\ queued' = {} /\ calls' = {} /\ timers' = {} /\ wire' = {}
                    /\ server' = {} /\ notes' = <<>>
  BY DEF NothingBefore
<1>t. session \in Nat
  BY BoundsAssumption DEF IInv, TypeOK
<1>1. ~SessionCreate
  BY <1>t DEF SessionCreate
<1>2. session = 0
  BY <1>1 DEF Next, OnAnswer, ClientSubscribe, ClientUnsubscribe, DoAdd, DoRemove, SessionStart,
              SessionClose, CloseSession, SendBatch, OnOpen, CallBroken, OnSubscriptionAck,
              OnSubscriptionError, OnUnsubscriptionAck, OnUnsubscriptionError, OnLateEvent,
              OnFatalError, Timeout, ReadNote, ServerReceives, ServerUpdate, vars, sessionVars
<1>3. /\ ~sessionAlive /\ requestManager = "none"
      /\ queued = {} /\ calls = {} /\ timers = {} /\ wire = {}
      /\ server = {} /\ notes = <<>>
  BY <1>2 DEF IInv, NothingBefore
<1>4. \/ \E s \in Subs : ClientSubscribe(s) \/ ClientUnsubscribe(s)
      \/ DoAdd \/ DoRemove \/ UNCHANGED vars
  BY <1>1, <1>3 DEF Next, SessionStart, SessionClose, SendBatch, ReadNote
<1>5. CASE \E s \in Subs : ClientSubscribe(s) \/ ClientUnsubscribe(s)
  BY <1>3, <1>5 DEF ClientSubscribe, ClientUnsubscribe, sessionVars, networkVars
<1>6. CASE DoAdd
  BY <1>3, <1>6 DEF DoAdd, sessionVars
<1>7. CASE DoRemove
  BY <1>3, <1>7 DEF DoRemove, sessionVars, pendingVars
<1>8. CASE UNCHANGED vars
  BY <1>3, <1>8 DEF vars, sessionVars, networkVars
<1> QED
  BY <1>4, <1>5, <1>6, <1>7, <1>8

(* Every step keeps the calls of each Subscription alternating. *)
LEMMA TasksStep ==
  ASSUME IInv, [Next]_vars
  PROVE  TasksAlternate'
<1>t. /\ TasksAlternate /\ TableConsistent
      /\ tasks \in Seq(Tasks) /\ active \in [Subs -> BOOLEAN]
  BY DEF IInv, TypeOK
<1>1. ASSUME NEW s \in Subs, ClientSubscribe(s) PROVE TasksAlternate'
  <2> DEFINE op == "add"
  <2>1. /\ tasks' = Append(tasks, [op |-> op, sub |-> s])
        /\ active' = [active EXCEPT ![s] = (op = "add")]
        /\ active[s] <=> op = "remove"
        /\ subscriptions' = subscriptions
    BY <1>1 DEF ClientSubscribe, tableVars
  <2>2. op \in {"add", "remove"}
    OBVIOUS
  <2> HIDE DEF op
  <2> QED
    BY <1>t, <2>1, <2>2, AppendAlternates
<1>2. ASSUME NEW s \in Subs, ClientUnsubscribe(s) PROVE TasksAlternate'
  <2> DEFINE op == "remove"
  <2>1. /\ tasks' = Append(tasks, [op |-> op, sub |-> s])
        /\ active' = [active EXCEPT ![s] = (op = "add")]
        /\ active[s] <=> op = "remove"
        /\ subscriptions' = subscriptions
    BY <1>2 DEF ClientUnsubscribe, tableVars
  <2>2. op \in {"add", "remove"}
    OBVIOUS
  <2> HIDE DEF op
  <2> QED
    BY <1>t, <2>1, <2>2, AppendAlternates
<1>3. CASE DoAdd
  <2>1. tasks # <<>> /\ tasks' = Tail(tasks) /\ active' = active
    BY <1>3 DEF DoAdd
  <2>2. Head(tasks).sub \in Subs /\ Head(tasks).op = "add"
    <3>1. Head(tasks) \in Tasks
      BY <1>t, <2>1, HeadTailProperties
    <3> QED
      BY <1>3, <3>1 DEF DoAdd, Tasks
  <2>3. \A x \in Subs : x \in Tabled' <=> (x \in Tabled \/ x = Head(tasks).sub)
    BY <1>3, DoAddStep DEF Tabled
  <2>4. \A x \in Subs : x = Head(tasks).sub => (x \in Tabled' <=> Head(tasks).op = "add")
    BY <2>2, <2>3
  <2>5. \A x \in Subs : x # Head(tasks).sub => (x \in Tabled' <=> x \in Tabled)
    BY <2>3
  <2> QED
    BY <1>t, <2>1, <2>4, <2>5, TailAlternates
<1>4. CASE DoRemove
  <2>1. tasks # <<>> /\ tasks' = Tail(tasks) /\ active' = active
    BY <1>4 DEF DoRemove
  <2>2. Head(tasks).op # "add"
    BY <1>4 DEF DoRemove
  <2>3. \A x \in Subs : x \in Tabled' <=> (x \in Tabled /\ x # Head(tasks).sub)
    BY <1>4, DoRemoveStep DEF Tabled
  <2>4. \A x \in Subs : x = Head(tasks).sub => (x \in Tabled' <=> Head(tasks).op = "add")
    BY <2>2, <2>3
  <2>5. \A x \in Subs : x # Head(tasks).sub => (x \in Tabled' <=> x \in Tabled)
    BY <2>3
  <2> QED
    BY <1>t, <2>1, <2>4, <2>5, TailAlternates
<1>5. CASE UNCHANGED <<tasks, active, subscriptions>>
  <2>1. Tabled' = Tabled
    BY <1>5 DEF Tabled, InTable
  <2> QED
    BY <1>5, <1>t, <2>1, SameTasks
<1>6. \/ \E s \in Subs : ClientSubscribe(s) \/ ClientUnsubscribe(s)
      \/ DoAdd \/ DoRemove \/ UNCHANGED <<tasks, active, subscriptions>>
  BY DEF Next, OnAnswer, SessionCreate, SessionStart, SessionClose, CloseSession, SendBatch,
         OnOpen, CallBroken, OnSubscriptionAck, OnSubscriptionError, OnUnsubscriptionAck,
         OnUnsubscriptionError, OnLateEvent, OnFatalError, Timeout, ReadNote, ServerReceives,
         ServerUpdate, vars, subVars, tableVars
<1> QED
  BY <1>1, <1>2, <1>3, <1>4, <1>5, <1>6

(* Every step keeps the invariant. *)
LEMMA NextIInv ==
  ASSUME IInv, [Next]_vars
  PROVE  IInv'
<1>1. TypeOK' /\ NothingBefore' /\ TasksAlternate'
  BY TypeStep, NothingBeforeStep, TasksStep
<1>2. TableConsistent' /\ PendingDisjoint' /\ FreshIds' /\ DeletesAreDue'
  <2>1. CASE DoAdd
    BY <2>1, DoAddStep
  <2>2. CASE DoRemove
    BY <2>2, DoRemoveStep
  <2>3. CASE ~DoAdd /\ ~DoRemove
    <3>1. Quiet
      BY <2>3, QuietStep
    <3>2. SameTable /\ SamePending /\ SameRequests
      BY <3>1 DEF Quiet
    <3>3. TypeOK /\ TableConsistent /\ PendingDisjoint /\ FreshIds /\ DeletesAreDue
      BY DEF IInv
    <3> QED
      BY <3>1, <3>2, <3>3, QuietTable, QuietPending, QuietFresh, QuietDeletes
  <2> QED
    BY <2>1, <2>2, <2>3
<1> QED
  BY <1>1, <1>2 DEF IInv

(* The conjuncts of IInv hold in every state the program can reach.        *)
THEOREM Inductive == Spec => []IInv
<1>1. Init => IInv
  BY InitIInv
<1>2. IInv /\ [Next]_vars => IInv'
  BY NextIInv
<1> QED
  BY <1>1, <1>2, PTL DEF Spec
-----------------------------------------------------------------------------
(* The theorems.                                                           *)

(* Every variable keeps its type; in particular a request is made for a    *)
(* session that exists and an id that was given out.                       *)
THEOREM TypeCorrect == Spec => []TypeOK
<1>1. IInv => TypeOK
  BY DEF IInv
<1> QED
  BY <1>1, Inductive, PTL

(* A Subscription is in the SubscriptionManager's table under its own id   *)
(* and nowhere else, it is OFF exactly while it is not in the table, and no *)
(* id is at once waiting to be unsubscribed and being unsubscribed, or      *)
(* either of them and subscribed.                                          *)
THEOREM TablesAreConsistent == Spec => []TablesConsistent
<1>1. IInv => TablesConsistent
  BY DEF IInv, TablesConsistent
<1> QED
  BY <1>1, Inductive, PTL

(* The ids of pendingUnsubscribe are those whose unsubscription was not    *)
(* sent yet: none of their delete requests is on its way.                  *)
THEOREM DeferredAreNotSent == Spec => []DeferredNotSent
<1>1. IInv => DeferredNotSent
  BY DEF IInv, DeletesAreDue, DeferredNotSent, OnTheWay
<1> QED
  BY <1>1, Inductive, PTL
-----------------------------------------------------------------------------
(* The tutors.                                                             *)

(* The requests to add a subscription whose tutor is still to act: those   *)
(* that wait, those that were not opened, and those watched by a timeout.  *)
Unopened == {c \in calls : ~c.opened}
Tutored  == queued \cup timers \cup {c.request : c \in Unopened}

KnownAdd(r)    == r.kind = "add" /\ Known(r.id)
LiveAdd(r)     == KnownAdd(r) /\ tablePhase[subscriptions[r.id]] = r.phase
SameLive(r, q) == LiveAdd(r) /\ LiveAdd(q) /\ r.id = q.id
Needed(r)      == LiveAdd(r) /\ tablePhaseType[subscriptions[r.id]] \in {"WAITING", "SUBSCRIBING"}

(* A subscription has one live tutor, and that is in one place. *)
OneTutor ==
  /\ \A r, q \in queued : SameLive(r, q) => r = q
  /\ \A r, q \in timers : SameLive(r, q) => r = q
  /\ \A c, d \in Unopened : SameLive(c.request, d.request) => c = d
  /\ \A r \in queued : \A q \in timers : ~SameLive(r, q)
  /\ \A r \in queued \cup timers : \A c \in Unopened : ~SameLive(r, c.request)

(* No tutor is of a phase its subscription has yet to reach. *)
NoneAhead == \A r \in Tutored : KnownAdd(r) => r.phase <= tablePhase[subscriptions[r.id]]

(* A live tutor is of the live session. *)
LiveAreCurrent == \A r \in Tutored : LiveAdd(r) => sessionAlive /\ r.session = session
AliveIsReady   == sessionAlive => requestManager = "ready"

TInv == OneTutor /\ NoneAhead /\ LiveAreCurrent /\ AliveIsReady /\ NotForgotten

(* One subscription has one id. *)
LEMMA OneId ==
  ASSUME IInv, NEW i \in Ids, NEW j \in Ids, Known(i), Known(j), i # j
  PROVE  subscriptions[i] # subscriptions[j] /\ subscriptions[i] \in Subs
BY KnownType DEF IInv, TableConsistent

(* The types of what a tutor looks at. *)
LEMMA TutoredTypes ==
  ASSUME TypeOK
  PROVE  /\ \A r \in Tutored : r \in Request /\ r.id \in Ids /\ r.phase \in Nat /\ r.kind \in {"add", "delete"}
         /\ \A id \in Ids : Known(id) => subscriptions[id] \in Subs /\ tablePhase[subscriptions[id]] \in Nat
<1>1. \A r \in Tutored : r \in Request
  BY DEF TypeOK, Tutored, Unopened, Call
<1>2. \A id \in Ids : Known(id) => subscriptions[id] \in Subs
  BY KnownType
<1>3. \A r \in Request : r.id \in Ids /\ r.phase \in Nat /\ r.kind \in {"add", "delete"}
  BY DEF Request
<1> QED
  BY <1>1, <1>2, <1>3 DEF TypeOK

(* NotForgotten, said of tutors. *)
LEMMA LiveAddsAre ==
  ASSUME TypeOK, NEW id \in Ids, Known(id)
  PROVE  \A r : r \in LiveAdds(id) <=> r \in Tutored /\ LiveAdd(r) /\ r.id = id
BY DEF LiveAdds, Tutored, Unopened, LiveAdd, KnownAdd, CheckPhase
-----------------------------------------------------------------------------
(* Steps of three kinds.                                                   *)

(* Nothing of the table, the phases and the session changes. *)
Still == UNCHANGED <<subscriptions, tablePhaseType, tablePhase, sessionAlive, session, requestManager>>

(* No tutor comes but in place of another one, and none goes that is needed. *)
Replaced ==
  /\ \A r \in Tutored' : KnownAdd(r) =>
       \E q \in Tutored : KnownAdd(q) /\ q.id = r.id /\ q.phase = r.phase /\ r.session \in {q.session, session}
  /\ \A q \in Tutored : Needed(q) => \E r \in Tutored' : LiveAdd(r) /\ r.id = q.id

(* A step that leaves the phases as they are keeps the tutors. *)
LEMMA StillStep ==
  ASSUME IInv, TInv, Still, OneTutor', Replaced
  PROVE  TInv'
<1>1. /\ \A r : LiveAdd(r)' <=> LiveAdd(r)
      /\ \A r : KnownAdd(r)' <=> KnownAdd(r)
      /\ \A id : Known(id)' <=> Known(id)
  BY DEF Still, LiveAdd, KnownAdd, Known
<1>2. NoneAhead'
  <2> SUFFICES ASSUME NEW r \in Tutored', KnownAdd(r)
               PROVE  r.phase <= tablePhase[subscriptions[r.id]]
    BY <1>1 DEF NoneAhead, Still
  <2>1. PICK q \in Tutored : KnownAdd(q) /\ q.id = r.id /\ q.phase = r.phase
    BY DEF Replaced
  <2> QED
    BY <2>1 DEF TInv, NoneAhead
<1>3. LiveAreCurrent'
  <2> SUFFICES ASSUME NEW r \in Tutored', LiveAdd(r)
               PROVE  sessionAlive /\ r.session = session
    BY <1>1 DEF LiveAreCurrent, Still
  <2>1. PICK q \in Tutored : KnownAdd(q) /\ q.id = r.id /\ q.phase = r.phase /\ r.session \in {q.session, session}
    BY DEF Replaced, LiveAdd
  <2>2. LiveAdd(q)
    BY <2>1 DEF LiveAdd
  <2> QED
    BY <2>1, <2>2 DEF TInv, LiveAreCurrent
<1>4. NotForgotten'
  <2> SUFFICES ASSUME sessionAlive, NEW id \in Ids, Known(id),
                      tablePhaseType[subscriptions[id]] \in {"WAITING", "SUBSCRIBING"}
               PROVE  LiveAdds(id)' # {}
    BY <1>1 DEF NotForgotten, Still
  <2>1. PICK q : q \in LiveAdds(id)
    BY DEF TInv, NotForgotten
  <2>2. q \in Tutored /\ LiveAdd(q) /\ q.id = id
    BY <2>1, LiveAddsAre DEF IInv
  <2>3. PICK r \in Tutored' : LiveAdd(r)' /\ r.id = id
    BY <1>1, <2>2 DEF Replaced, Needed
  <2> QED
    BY <2>3 DEF LiveAdds, Tutored, Unopened, LiveAdd, KnownAdd, CheckPhase
<1>5. AliveIsReady'
  BY DEF TInv, AliveIsReady, Still
<1> QED
  BY <1>2, <1>3, <1>4, <1>5 DEF TInv

(* No tutor comes, and none goes that is needed, or changes places. *)
SameTutors ==
  /\ \A r : KnownAdd(r) /\ r \in queued' => r \in queued
  /\ \A r : KnownAdd(r) /\ r \in timers' => r \in timers
  /\ \A c \in Unopened' : KnownAdd(c.request) => \E d \in Unopened : d.request = c.request
  /\ \A c, d \in Unopened' : SameLive(c.request, d.request) => c = d
  /\ \A r \in Tutored : Needed(r) => r \in Tutored'

(* A step that keeps the tutors where they are keeps their order. *)
LEMMA SameStep ==
  ASSUME IInv, TInv, Still, SameTutors
  PROVE  TInv'
<1>1. /\ \A r, q : SameLive(r, q)' <=> SameLive(r, q)
      /\ \A r, q : SameLive(r, q) => KnownAdd(r) /\ KnownAdd(q)
  BY DEF Still, LiveAdd, KnownAdd, SameLive, Known
<1>2. OneTutor'
  BY <1>1 DEF SameTutors, TInv, OneTutor
<1>3. Replaced
  <2>1. \A r \in Tutored' : KnownAdd(r) => r \in Tutored
    BY DEF SameTutors, Tutored
  <2> QED
    BY <2>1 DEF SameTutors, Replaced, Needed
<1> QED
  BY <1>2, <1>3, StillStep

(* So does one that leaves the calls alone, or only loses opened ones or such *)
(* whose tutor is no longer concerned. *)
LEMMA FewerCalls ==
  ASSUME TInv, Unopened' \subseteq Unopened
  PROVE  /\ \A c \in Unopened' : KnownAdd(c.request) => \E d \in Unopened : d.request = c.request
         /\ \A c, d \in Unopened' : SameLive(c.request, d.request) => c = d
BY DEF TInv, OneTutor

(* A change of phase of the subscription of an id leaves its tutors behind;  *)
(* at most one new tutor, of the new phase, takes over.                      *)
Moves(id, new) ==
  /\ UNCHANGED <<subscriptions, sessionAlive, session, requestManager>>
  /\ tablePhase'[subscriptions[id]] = tablePhase[subscriptions[id]] + 1
  /\ \A s \in Subs \ {subscriptions[id]} :
       tablePhase'[s] = tablePhase[s] /\ tablePhaseType'[s] = tablePhaseType[s]
  /\ new.id = id /\ new.kind = "add" /\ new.phase = tablePhase[subscriptions[id]] + 1
  /\ \A r : KnownAdd(r) /\ r \in queued' => r \in queued
  /\ \A r : KnownAdd(r) /\ r \in timers' => r \in timers \/ r = new
  /\ Unopened' \subseteq Unopened
  /\ \A r \in Tutored : LiveAdd(r) /\ r.id # id => r \in Tutored'
  /\ IF tablePhaseType'[subscriptions[id]] \in {"WAITING", "SUBSCRIBING"}
     THEN new \in timers' /\ sessionAlive /\ new.session = session
     ELSE new \notin timers' \/ new \in timers

(* A change of phase keeps the tutors in order. *)
LEMMA MovesStep ==
  ASSUME IInv, TInv, NEW id \in Ids, Known(id), NEW new, Moves(id, new)
  PROVE  TInv'
<1>t. TypeOK
  BY DEF IInv
<1>0. \A i : Known(i)' <=> Known(i)
  BY DEF Moves, Known
<1>1. \A r \in Tutored : KnownAdd(r) /\ r.id = id => r.phase < tablePhase'[subscriptions[id]]
  BY <1>t, TutoredTypes DEF Moves, TInv, NoneAhead, KnownAdd
<1>2. \A i \in Ids : Known(i) /\ i # id => /\ tablePhase'[subscriptions[i]] = tablePhase[subscriptions[i]]
                                           /\ tablePhaseType'[subscriptions[i]] = tablePhaseType[subscriptions[i]]
  BY OneId DEF Moves
<1>3. \A r \in Tutored' : KnownAdd(r) => r \in Tutored \/ (r = new /\ r \in timers')
  BY DEF Moves, Tutored
<1>4. \A r \in Tutored : LiveAdd(r)' => LiveAdd(r) /\ r.id # id
  BY <1>t, <1>0, <1>1, <1>2, TutoredTypes DEF LiveAdd, KnownAdd, Moves
<1>5. new \in timers' => new \in Tutored \/ (sessionAlive /\ new.session = session)
  BY DEF Moves, Tutored
<1>6. OneTutor'
  <2>1. \A r : r \in queued' /\ LiveAdd(r)' => r \in queued /\ LiveAdd(r) /\ r.id # id
    BY <1>0, <1>4 DEF Moves, LiveAdd, KnownAdd, Tutored
  <2>2. \A r : r \in timers' /\ LiveAdd(r)' => (r \in timers /\ LiveAdd(r) /\ r.id # id) \/ (r = new /\ r.id = id)
    BY <1>0, <1>4 DEF Moves, LiveAdd, KnownAdd, Tutored
  <2>3. \A c \in Unopened' : LiveAdd(c.request)' => c \in Unopened /\ LiveAdd(c.request) /\ c.request.id # id
    BY <1>4 DEF Moves, Tutored
  <2> QED
    BY <2>1, <2>2, <2>3 DEF TInv, OneTutor, SameLive
<1>7. NoneAhead'
  <2> SUFFICES ASSUME NEW r \in Tutored', KnownAdd(r)
               PROVE  r.phase <= tablePhase'[subscriptions[r.id]]
    BY <1>0 DEF NoneAhead, KnownAdd, Moves
  <2>1. CASE r \in Tutored /\ r.id = id
    BY <1>t, <1>1, <2>1, TutoredTypes DEF Moves
  <2>2. CASE r \in Tutored /\ r.id # id
    BY <1>t, <1>2, <2>2, TutoredTypes DEF TInv, NoneAhead, KnownAdd
  <2>3. CASE r = new
    BY <1>t, <2>3, TutoredTypes DEF Moves
  <2> QED
    BY <1>3, <2>1, <2>2, <2>3
<1>8. LiveAreCurrent'
  <2> SUFFICES ASSUME NEW r \in Tutored', LiveAdd(r)'
               PROVE  sessionAlive /\ r.session = session
    BY DEF LiveAreCurrent, Moves
  <2>1. KnownAdd(r)
    BY <1>0 DEF LiveAdd, KnownAdd
  <2>2. CASE r \in Tutored
    BY <1>4, <2>2 DEF TInv, LiveAreCurrent
  <2>3. CASE r \notin Tutored
    BY <1>3, <1>5, <2>1, <2>3
  <2> QED
    BY <2>2, <2>3
<1>9. NotForgotten'
  <2> SUFFICES ASSUME sessionAlive, NEW i \in Ids, Known(i),
                      tablePhaseType'[subscriptions[i]] \in {"WAITING", "SUBSCRIBING"}
               PROVE  \E r \in Tutored' : LiveAdd(r)' /\ r.id = i
    BY <1>0 DEF NotForgotten, Moves, LiveAdds, Tutored, Unopened, LiveAdd, KnownAdd, CheckPhase
  <2>1. CASE i = id
    BY <1>0, <2>1 DEF Moves, Tutored, LiveAdd, KnownAdd
  <2>2. CASE i # id
    <3>1. PICK r : r \in LiveAdds(i)
      BY <1>2, <2>2 DEF TInv, NotForgotten
    <3>2. r \in Tutored /\ LiveAdd(r) /\ r.id = i
      BY <1>t, <3>1, LiveAddsAre
    <3>3. r \in Tutored' /\ LiveAdd(r)'
      BY <1>0, <1>2, <2>2, <3>2 DEF Moves, LiveAdd, KnownAdd
    <3> QED
      BY <3>2, <3>3
  <2> QED
    BY <2>1, <2>2
<1> QED
  BY <1>6, <1>7, <1>8, <1>9 DEF TInv, AliveIsReady, Moves

-----------------------------------------------------------------------------
(* The steps, one by one.                                                  *)

(* unsubscribe of an unknown id leaves the requests of the known ones.     *)
LEMMA UnsubscribeAdds ==
  ASSUME NEW id \in Ids, ~Known(id),
         Unsubscribe(id) \/ UnsubscribeUnlessPending(id) \/ ForgetDelete(id)
  PROVE  \A r : KnownAdd(r) => (r \in queued' <=> r \in queued)
BY DEF Unsubscribe, UnsubscribeUnlessPending, ForgetDelete, Enqueued, DeleteRequest, KnownAdd, pendingVars

(* A deferred id is unknown, so an acknowledged removal spares the tutors.  *)
LEMMA ForgetAdds ==
  ASSUME IInv, NEW id \in Ids, ForgetDelete(id)
  PROVE  \A r : KnownAdd(r) => (r \in queued' <=> r \in queued)
<1>1. CASE id \in pendingUnsubscribe
  <2>1. ~Known(id)
    BY <1>1 DEF IInv, PendingDisjoint
  <2> QED
    BY <2>1, UnsubscribeAdds
<1>2. CASE id \notin pendingUnsubscribe
  BY <1>2 DEF ForgetDelete
<1> QED
  BY <1>1, <1>2

(* A step that spares queued requests, timeouts and unopened calls.        *)
LEMMA SpareStep ==
  ASSUME IInv, TInv, Still,
         \A r : KnownAdd(r) => (r \in queued' <=> r \in queued),
         \A r : KnownAdd(r) => (r \in timers' <=> r \in timers),
         Unopened' \subseteq Unopened,
         \A c \in Unopened : LiveAdd(c.request) => c \in Unopened'
  PROVE  TInv'
<1>1. \A r \in Tutored : LiveAdd(r) => r \in Tutored'
  BY DEF Tutored, LiveAdd
<1> QED
  BY <1>1, FewerCalls, SameStep DEF SameTutors, Needed

(* An answer to a request that was opened concerns no tutor that waits.      *)
LEMMA AnsweredCalls ==
  ASSUME NEW c \in calls, NEW kind, NEW reply, Answered(c, kind, reply)
  PROVE  Unopened' = Unopened
BY DEF Answered, Unopened

(* SUBOK, REQOK and a refusal. *)
LEMMA EventStep ==
  ASSUME IInv, TInv, NEW id \in Ids, NEW what \in {"PUSHING", "PAUSED"}, SubscriptionEvent(id, what),
         UNCHANGED <<subscriptions, sessionAlive, session, requestManager, timers>>, Unopened' = Unopened
  PROVE  TInv'
<1>1. CASE Known(id)
  <2> DEFINE s == subscriptions[id]
             new == AddRequest(id, tablePhase[s] + 1, 0)
  <2>1. SetPhase({s}, what) /\ UNCHANGED queued
    BY <1>1 DEF SubscriptionEvent
  <2>2. s \in Subs /\ tablePhase[s] \in Nat
    BY <1>1, TutoredTypes DEF IInv
  <2>3. tablePhase'[s] = tablePhase[s] + 1 /\ tablePhaseType'[s] = what
    BY <2>1, <2>2 DEF SetPhase
  <2>4. \A x \in Subs \ {s} : tablePhase'[x] = tablePhase[x] /\ tablePhaseType'[x] = tablePhaseType[x]
    BY <2>1 DEF SetPhase
  <2>5. new.id = id /\ new.kind = "add" /\ new.phase = tablePhase[s] + 1
    BY DEF AddRequest
  <2>6. Tutored' = Tutored
    BY <2>1 DEF Tutored
  <2> HIDE DEF new
  <2>7. Moves(id, new)
    BY <2>1, <2>3, <2>4, <2>5, <2>6 DEF Moves
  <2> QED
    BY <1>1, <2>7, MovesStep
<1>2. CASE ~Known(id)
  <2>1. UnsubscribeUnlessPending(id) /\ UNCHANGED <<tablePhaseType, tablePhase>>
    BY <1>2 DEF SubscriptionEvent
  <2>2. \A r : KnownAdd(r) => (r \in queued' <=> r \in queued)
    BY <1>2, <2>1, UnsubscribeAdds
  <2> QED
    BY <2>1, <2>2, SpareStep DEF Still
<1> QED
  BY <1>1, <1>2

(* What the listeners of requests do with an answer, but a late one.        *)
LEMMA AnswerStep ==
  ASSUME IInv, TInv, NEW c \in calls,
         OnSubscriptionAck(c) \/ OnSubscriptionError(c) \/ OnUnsubscriptionAck(c) \/ OnUnsubscriptionError(c)
  PROVE  TInv'
<1>0. c.request.id \in Ids
  BY OldIds
<1>1. CASE OnSubscriptionAck(c)
  <2>1. SubscriptionEvent(c.request.id, "PUSHING") /\ Unopened' = Unopened
    BY <1>1, AnsweredCalls DEF OnSubscriptionAck
  <2> QED
    BY <1>0, <1>1, <2>1, EventStep DEF OnSubscriptionAck, tableVars, sessionVars
<1>2. CASE OnSubscriptionError(c)
  <2>1. SubscriptionEvent(c.request.id, "PAUSED") /\ Unopened' = Unopened
    BY <1>2, AnsweredCalls DEF OnSubscriptionError
  <2> QED
    BY <1>0, <1>2, <2>1, EventStep DEF OnSubscriptionError, tableVars, sessionVars
<1>3. CASE OnUnsubscriptionAck(c)
  <2>1. Unopened' = Unopened /\ \A r : KnownAdd(r) => (r \in queued' <=> r \in queued)
    BY <1>0, <1>3, AnsweredCalls, ForgetAdds DEF OnUnsubscriptionAck
  <2> QED
    BY <1>3, <2>1, SpareStep DEF OnUnsubscriptionAck, Still, subVars, tableVars, sessionVars
<1>4. CASE OnUnsubscriptionError(c)
  <2>1. c.request.kind = "delete" /\ Unopened' = Unopened
    BY <1>4, AnsweredCalls DEF OnUnsubscriptionError, Answered
  <2>2. \A r : KnownAdd(r) => (r \in timers' <=> r \in timers)
    BY <1>4, <2>1 DEF OnUnsubscriptionError, KnownAdd
  <2> QED
    BY <1>4, <2>1, <2>2, SpareStep DEF OnUnsubscriptionError, Still, subVars, tableVars, sessionVars
<1> QED
  BY <1>1, <1>2, <1>3, <1>4

(* What is read from the stream. *)
LEMMA ReadNoteStep ==
  ASSUME IInv, TInv, ReadNote
  PROVE  TInv'
<1> DEFINE id == Head(notes).id
<1>0. id \in Ids
  <2>1. notes \in Seq(Notes) /\ notes # <<>>
    BY DEF ReadNote, IInv, TypeOK
  <2>2. Head(notes) \in Notes
    BY <2>1, HeadTailProperties
  <2> QED
    BY <2>2 DEF Notes
<1>1. UNCHANGED <<subscriptions, sessionAlive, session, requestManager, timers>> /\ Unopened' = Unopened
  BY DEF ReadNote, tableVars, sessionVars, Unopened
<1>2. CASE SubscriptionEvent(id, "PUSHING")
  BY <1>0, <1>1, <1>2, EventStep
<1>3. CASE UNCHANGED <<tablePhaseType, tablePhase>> /\ \A r : KnownAdd(r) => (r \in queued' <=> r \in queued)
  BY <1>1, <1>3, SpareStep DEF Still
<1>4. CASE ForgetDelete(id) /\ UNCHANGED <<tablePhaseType, tablePhase>>
  BY <1>0, <1>3, <1>4, ForgetAdds
<1>5. CASE /\ IF Known(id) THEN UNCHANGED <<pendingVars, queued>> ELSE UnsubscribeUnlessPending(id)
           /\ UNCHANGED <<tablePhaseType, tablePhase>>
  BY <1>0, <1>3, <1>5, UnsubscribeAdds
<1> HIDE DEF id
<1> QED
  BY <1>2, <1>4, <1>5 DEF ReadNote, id

(* Steps that no tutor notices. *)
LEMMA AsideStep ==
  ASSUME IInv, TInv,
         \/ \E s \in Subs : ClientSubscribe(s) \/ ClientUnsubscribe(s)
         \/ \E id \in server : ServerUpdate(id)
         \/ UNCHANGED vars
  PROVE  TInv'
<1>1. UNCHANGED <<subscriptions, tablePhaseType, tablePhase, sessionAlive, session, requestManager, queued, timers, calls>>
  BY DEF ClientSubscribe, ClientUnsubscribe, ServerUpdate, vars, subVars, tableVars, sessionVars, networkVars
<1>2. Unopened' = Unopened
  BY <1>1 DEF Unopened
<1> QED
  BY <1>1, <1>2, SpareStep DEF Still

(* The server's answer marks calls, and no more. *)
LEMMA ServerReceivesStep ==
  ASSUME IInv, TInv, NEW r \in wire, ServerReceives(r)
  PROVE  TInv'
<1>1. UNCHANGED <<subscriptions, tablePhaseType, tablePhase, sessionAlive, session, requestManager, queued, timers>>
  BY DEF ServerReceives, subVars, tableVars, sessionVars
<1>2. PICK reply \in Replies : calls' = {IF c.request = r /\ c.reply = "none" THEN [c EXCEPT !.reply = reply] ELSE c : c \in calls}
  BY DEF ServerReceives, ServerSends, Replies
<1> DEFINE Mark(c) == IF c.request = r /\ c.reply = "none" THEN [c EXCEPT !.reply = reply] ELSE c
<1>3. \A c \in calls : Mark(c).request = c.request /\ Mark(c).opened = c.opened
  BY DEF IInv, TypeOK, Call
<1>4. \A c \in Unopened' : \E d \in Unopened : c = Mark(d) /\ d.request = c.request
  BY <1>2, <1>3 DEF Unopened
<1>5. \A d \in Unopened : Mark(d) \in Unopened' /\ Mark(d).request = d.request
  BY <1>2, <1>3 DEF Unopened
<1> HIDE DEF Mark
<1>6. \A c, e \in Unopened' : SameLive(c.request, e.request) => c = e
  <2> SUFFICES ASSUME NEW c \in Unopened', NEW e \in Unopened', SameLive(c.request, e.request)
               PROVE  c = e
    OBVIOUS
  <2>1. PICK d \in Unopened : c = Mark(d) /\ d.request = c.request
    BY <1>4
  <2>2. PICK f \in Unopened : e = Mark(f) /\ f.request = e.request
    BY <1>4
  <2>3. d = f
    BY <2>1, <2>2 DEF TInv, OneTutor
  <2> QED
    BY <2>1, <2>2, <2>3
<1>7. \A q \in Tutored : q \in Tutored'
  BY <1>1, <1>5 DEF Tutored
<1>8. SameTutors
  BY <1>1, <1>4, <1>6, <1>7 DEF SameTutors
<1> QED
  BY <1>1, <1>8, SameStep DEF Still

(* A batch takes the live requests from the queue to the network.          *)
LEMMA SendBatchStep ==
  ASSUME IInv, TInv, SendBatch
  PROVE  TInv'
<1> DEFINE sent  == IF Http THEN {r \in queued : ShouldBeSent(r)} ELSE queued
           fresh == {[request |-> r, opened |-> FALSE, reply |-> "none"] : r \in sent}
<1>1. /\ UNCHANGED <<subscriptions, tablePhaseType, tablePhase, sessionAlive, session, requestManager, timers>>
      /\ queued' = {} /\ calls' = calls \cup fresh
  BY DEF SendBatch, subVars, tableVars, sessionVars
<1>2. sent \subseteq queued /\ \A r \in queued : LiveAdd(r) => r \in sent
  BY DEF ShouldBeSent, CheckPhase, LiveAdd, KnownAdd
<1> HIDE DEF sent
<1>3. \A c \in fresh : c.request \in sent /\ ~c.opened /\ c = [request |-> c.request, opened |-> FALSE, reply |-> "none"]
  OBVIOUS
<1>4. ASSUME NEW r \in sent
      PROVE  \E c \in fresh : c.request = r
  <2> DEFINE c == [request |-> r, opened |-> FALSE, reply |-> "none"]
  <2>1. c \in fresh
    OBVIOUS
  <2>2. c.request = r
    OBVIOUS
  <2> QED
    BY <2>1, <2>2
<1> HIDE DEF fresh
<1>5. Unopened' = Unopened \cup fresh
  BY <1>1, <1>3 DEF Unopened
<1>6. \A r, q : SameLive(r, q)' <=> SameLive(r, q)
  BY <1>1 DEF SameLive, LiveAdd, KnownAdd, Known
<1>7. \A c, d \in Unopened' : SameLive(c.request, d.request) => c = d
  <2> SUFFICES ASSUME NEW c \in Unopened', NEW d \in Unopened', SameLive(c.request, d.request)
               PROVE  c = d
    OBVIOUS
  <2>1. SameLive(d.request, c.request)
    BY DEF SameLive
  <2>2. CASE c \in Unopened /\ d \in Unopened
    BY <2>2 DEF TInv, OneTutor
  <2>3. CASE c \in fresh /\ d \in fresh
    <3>1. c.request \in queued /\ d.request \in queued
      BY <1>2, <1>3, <2>3
    <3>2. c.request = d.request
      BY <3>1 DEF TInv, OneTutor
    <3> QED
      BY <1>3, <2>3, <3>2
  <2>4. ~(c \in fresh /\ d \in Unopened)
    BY <1>2, <1>3 DEF TInv, OneTutor
  <2>5. ~(c \in Unopened /\ d \in fresh)
    BY <1>2, <1>3, <2>1 DEF TInv, OneTutor
  <2> QED
    BY <1>5, <2>2, <2>3, <2>4, <2>5
<1>8. \A r \in timers : \A c \in Unopened' : ~SameLive(r, c.request)
  <2> SUFFICES ASSUME NEW r \in timers, NEW c \in fresh
               PROVE  ~SameLive(r, c.request)
    BY <1>5 DEF TInv, OneTutor
  <2>1. c.request \in queued /\ ~SameLive(c.request, r)
    BY <1>2, <1>3 DEF TInv, OneTutor
  <2> QED
    BY <2>1 DEF SameLive
<1>9. OneTutor'
  BY <1>1, <1>6, <1>7, <1>8 DEF TInv, OneTutor
<1>10. \A r \in Tutored' : r \in Tutored
  BY <1>1, <1>2, <1>3, <1>5 DEF Tutored
<1>11. \A r \in Tutored : LiveAdd(r) => r \in Tutored'
  <2>1. \A r \in sent : \E c \in Unopened' : c.request = r
    BY <1>4, <1>5
  <2> QED
    BY <1>1, <1>2, <1>5, <2>1 DEF Tutored
<1>12. Replaced
  BY <1>10, <1>11 DEF Replaced, Needed
<1> QED
  BY <1>1, <1>9, <1>12, StillStep DEF Still

(* A retransmission stands in for a tutor that has just gone. *)
LEMMA RecoveryStep ==
  ASSUME IInv, TInv, NEW r \in Tutored, DoRecovery(r), Still,
         r.kind = "add" => LiveAdd(r), r.kind = "delete" => ~Known(r.id),
         timers' \subseteq timers, Unopened' \subseteq Unopened,
         KnownAdd(r) => r \notin queued /\ r \notin timers' /\ (\A c \in Unopened' : c.request # r),
         \A q \in timers : LiveAdd(q) => q \in timers' \/ q = r,
         \A c \in Unopened : LiveAdd(c.request) => c \in Unopened' \/ c.request = r
  PROVE  TInv'
<1> DEFINE again == [r EXCEPT !.session = session, !.try = 1 - @]
<1>1. r \in Request /\ r.id \in Ids
  BY TutoredTypes DEF IInv
<1>2. again.id = r.id /\ again.kind = r.kind /\ again.phase = r.phase /\ again.session = session
  BY <1>1 DEF Request
<1>3. /\ queued' \subseteq queued \cup {again} /\ again \in queued'
      /\ \A q \in queued : q \in queued' \/ q.id = r.id
  BY <1>2 DEF DoRecovery, Enqueued
<1> HIDE DEF again
<1>4. CASE r.kind = "delete"
  <2>1. ~Known(r.id)
    BY <1>4
  <2>2. \A q : KnownAdd(q) => (q \in queued' <=> q \in queued)
    BY <1>2, <1>3, <1>4, <2>1 DEF KnownAdd
  <2>3. \A q \in Tutored : LiveAdd(q) => q # r
    BY <1>4 DEF LiveAdd, KnownAdd
  <2>4. \A q \in Tutored : LiveAdd(q) => q \in Tutored'
    BY <2>2, <2>3 DEF Tutored, LiveAdd
  <2> QED
    BY <2>2, <2>4, FewerCalls, SameStep DEF SameTutors, Needed
<1>5. CASE r.kind = "add"
  <2>0. LiveAdd(r) /\ KnownAdd(r)
    BY <1>5 DEF LiveAdd
  <2>1. LiveAdd(again)
    BY <1>2, <2>0 DEF LiveAdd, KnownAdd
  <2>2. \A q : SameLive(r, q) <=> SameLive(again, q)
    BY <1>2, <2>0, <2>1 DEF SameLive
  <2>3. \A q, p : SameLive(q, p) <=> SameLive(p, q)
    BY DEF SameLive
  <2>4. \A q \in Tutored : SameLive(r, q) => q = r
    BY <2>3 DEF TInv, OneTutor, Tutored
  <2>5. \A q \in queued : ~SameLive(again, q)
    BY <2>0, <2>2, <2>4 DEF Tutored
  <2>6. \A q \in timers' : ~SameLive(again, q)
    BY <2>0, <2>2, <2>4 DEF Tutored
  <2>7. \A c \in Unopened' : ~SameLive(again, c.request)
    BY <2>0, <2>2, <2>4 DEF Tutored
  <2>8. \A p, q : SameLive(p, q)' <=> SameLive(p, q)
    BY DEF Still, SameLive, LiveAdd, KnownAdd, Known
  <2>9. OneTutor'
    BY <1>3, <2>3, <2>5, <2>6, <2>7, <2>8 DEF TInv, OneTutor
  <2>10. \A q \in Tutored' : q \in Tutored \/ q = again
    BY <1>3 DEF Tutored
  <2>11. \A q \in Tutored : LiveAdd(q) => q \in Tutored' \/ q.id = r.id
    BY <1>3 DEF Tutored
  <2>12. again \in Tutored'
    BY <1>3 DEF Tutored
  <2>13. Replaced
    <3>1. \A q \in Tutored' : KnownAdd(q) =>
            \E p \in Tutored : KnownAdd(p) /\ p.id = q.id /\ p.phase = q.phase /\ q.session \in {p.session, session}
      BY <1>2, <2>0, <2>10
    <3>2. \A q \in Tutored : LiveAdd(q) => \E p \in Tutored' : LiveAdd(p) /\ p.id = q.id
      BY <1>2, <2>1, <2>11, <2>12
    <3> QED
      BY <3>1, <3>2 DEF Replaced, Needed
  <2> QED
    BY <2>9, <2>13, StillStep
<1> QED
  BY <1>1, <1>4, <1>5 DEF Request

(* A timeout drops its tutor, or sends the request again. *)
LEMMA TimeoutStep ==
  ASSUME IInv, TInv, NEW r \in timers, Timeout(r)
  PROVE  TInv'
<1>1. /\ Still /\ timers' = timers \ {r} /\ Unopened' = Unopened
      /\ r \in Tutored /\ r \in OnTheWay
  BY DEF Timeout, Still, Unopened, subVars, tableVars, sessionVars, Tutored, OnTheWay
<1> DEFINE over == VerifySuccess(r) \/ r.session # session \/ requestManager # "ready"
<1>2. CASE over
  <2>1. ~Needed(r)
    BY <1>1, <1>2 DEF VerifySuccess, CheckPhase, Needed, LiveAdd, KnownAdd, TInv, LiveAreCurrent, AliveIsReady
  <2>2. UNCHANGED queued
    BY <1>2 DEF Timeout
  <2>3. \A q \in Tutored : Needed(q) => q \in Tutored'
    BY <1>1, <2>1, <2>2 DEF Tutored
  <2> QED
    BY <1>1, <2>2, <2>3, FewerCalls, SameStep DEF SameTutors
<1>3. CASE ~over
  <2>1. DoRecovery(r)
    BY <1>3 DEF Timeout
  <2>2. r.kind = "add" => LiveAdd(r)
    BY <1>3 DEF VerifySuccess, LiveAdd, KnownAdd, CheckPhase
  <2>3. r.kind = "delete" => ~Known(r.id)
    BY <1>1 DEF IInv, DeletesAreDue
  <2>4. KnownAdd(r) => r \notin queued /\ \A c \in Unopened' : c.request # r
    BY <1>1, <2>2 DEF TInv, OneTutor, SameLive, KnownAdd
  <2> QED
    BY <1>1, <2>1, <2>2, <2>3, <2>4, RecoveryStep
<1> QED
  BY <1>2, <1>3

(* A connection that breaks: a request that was not opened is sent again.  *)
LEMMA CallBrokenStep ==
  ASSUME IInv, TInv, NEW c \in calls, CallBroken(c)
  PROVE  TInv'
<1> DEFINE r == c.request
<1>1. /\ Still /\ calls' = calls \ {c} /\ timers' = timers /\ r \in Request /\ r \in OnTheWay
  BY DEF CallBroken, Still, subVars, tableVars, sessionVars, IInv, TypeOK, Call, OnTheWay
<1>2. Unopened' = Unopened \ {c}
  BY <1>1 DEF Unopened
<1>3. CASE ~c.opened /\ (r.kind = "add" => CheckPhase(r.id, r.phase))
  <2>1. DoRecovery(r) /\ c \in Unopened /\ r \in Tutored
    BY <1>3 DEF CallBroken, Unopened, Tutored
  <2>2. r.kind = "add" => LiveAdd(r)
    BY <1>3 DEF LiveAdd, KnownAdd, CheckPhase
  <2>3. r.kind = "delete" => ~Known(r.id)
    BY <1>1 DEF IInv, DeletesAreDue
  <2>4. KnownAdd(r) => SameLive(r, r)
    BY <2>2 DEF SameLive, KnownAdd
  <2>5. KnownAdd(r) => r \notin queued /\ r \notin timers /\ \A d \in Unopened' : d.request # r
    BY <1>2, <2>1, <2>4 DEF TInv, OneTutor
  <2> HIDE DEF r
  <2>6. \A d \in Unopened : LiveAdd(d.request) => d \in Unopened' \/ d.request = r
    BY <1>2 DEF r
  <2> QED
    BY <1>1, <1>2, <2>1, <2>2, <2>3, <2>5, <2>6, RecoveryStep
<1>4. CASE ~(~c.opened /\ (r.kind = "add" => CheckPhase(r.id, r.phase)))
  <2>1. UNCHANGED queued
    BY <1>4 DEF CallBroken, pendingVars
  <2>2. \A d \in Unopened : LiveAdd(d.request) => d \in Unopened'
    BY <1>2, <1>4 DEF LiveAdd, KnownAdd, CheckPhase, Unopened
  <2> QED
    BY <1>1, <1>2, <2>1, <2>2, SpareStep
<1> QED
  BY <1>3, <1>4

(* A request is on the net: its tutor starts to watch. *)
LEMMA OnOpenStep ==
  ASSUME IInv, TInv, NEW c \in calls, OnOpen(c)
  PROVE  TInv'
<1> DEFINE r == c.request
           s == subscriptions[r.id]
           now == [c EXCEPT !.opened = TRUE]
<1>1. /\ UNCHANGED <<subscriptions, sessionAlive, session, requestManager, queued>>
      /\ calls' = (calls \ {c}) \cup {now} /\ c \in Unopened /\ r \in Tutored
  BY DEF OnOpen, tableVars, sessionVars, Unopened, Tutored
<1>2. r \in Request /\ now.opened = TRUE /\ r.id \in Ids /\ r.phase \in Nat
  BY DEF IInv, TypeOK, Call, Request
<1>3. Unopened' = Unopened \ {c}
  BY <1>1, <1>2 DEF Unopened
<1> HIDE DEF now
<1>4. CASE ~(r.kind = "add" => CheckPhase(r.id, r.phase))
  <2>1. Still /\ timers' = timers
    BY <1>1, <1>4 DEF OnOpen, Still
  <2>2. \A d \in Unopened : LiveAdd(d.request) => d \in Unopened'
    BY <1>3, <1>4 DEF LiveAdd, KnownAdd, CheckPhase
  <2> QED
    BY <1>1, <1>3, <2>1, <2>2, SpareStep
<1>5. CASE r.kind # "add"
  <2>1. Still /\ timers' = timers \cup {r}
    BY <1>1, <1>5 DEF OnOpen, Still
  <2>2. \A q : KnownAdd(q) => q # r
    BY <1>5 DEF KnownAdd
  <2> QED
    BY <1>1, <1>3, <2>1, <2>2, SpareStep DEF LiveAdd
<1>6. CASE r.kind = "add" /\ CheckPhase(r.id, r.phase) /\ tablePhaseType[s] = "SUBSCRIBING"
  <2>1. Still /\ timers' = timers \cup {r}
    BY <1>1, <1>6 DEF OnOpen, Still
  <2>2. \A q \in Tutored : q \in Tutored'
    BY <1>1, <1>3, <2>1 DEF Tutored
  <2>3. \A q \in Tutored' : q \in Tutored
    BY <1>1, <1>3, <2>1 DEF Tutored
  <2>4. Replaced
    BY <2>2, <2>3 DEF Replaced, Needed
  <2>5. OneTutor'
    <3>1. \A p, q : SameLive(p, q)' <=> SameLive(p, q)
      BY <2>1 DEF Still, SameLive, LiveAdd, KnownAdd, Known
    <3>2. \A p, q : SameLive(p, q) => SameLive(q, p)
      BY DEF SameLive
    <3>3. \A q \in queued \cup timers : ~SameLive(q, r)
      BY <1>1 DEF TInv, OneTutor
    <3>4. \A d \in Unopened' : ~SameLive(r, d.request)
      BY <1>1, <1>3 DEF TInv, OneTutor
    <3> HIDE DEF r
    <3> QED
      BY <1>1, <1>3, <2>1, <3>1, <3>2, <3>3, <3>4 DEF TInv, OneTutor
  <2> QED
    BY <2>1, <2>4, <2>5, StillStep
<1>7. CASE r.kind = "add" /\ CheckPhase(r.id, r.phase) /\ tablePhaseType[s] # "SUBSCRIBING"
  <2> DEFINE new == [r EXCEPT !.phase = @ + 1]
  <2>1. SetPhase({s}, "SUBSCRIBING") /\ timers' = timers \cup {new}
    BY <1>7 DEF OnOpen
  <2>2. Known(r.id) /\ s \in Subs /\ tablePhase[s] = r.phase /\ LiveAdd(r)
    BY <1>2, <1>7, TutoredTypes DEF CheckPhase, IInv, LiveAdd, KnownAdd
  <2>3. /\ tablePhase'[s] = tablePhase[s] + 1 /\ tablePhaseType'[s] = "SUBSCRIBING"
        /\ \A x \in Subs \ {s} : tablePhase'[x] = tablePhase[x] /\ tablePhaseType'[x] = tablePhaseType[x]
    BY <2>1, <2>2 DEF SetPhase
  <2>4. new.id = r.id /\ new.kind = "add" /\ new.phase = tablePhase[s] + 1 /\ new.session = session /\ sessionAlive
    BY <1>1, <1>2, <1>7, <2>2 DEF Request, TInv, LiveAreCurrent
  <2> HIDE DEF new
  <2>5. \A q \in Tutored : LiveAdd(q) /\ q.id # r.id => q \in Tutored'
    BY <1>1, <1>3, <2>1 DEF Tutored
  <2>6. Moves(r.id, new)
    BY <1>1, <1>3, <2>1, <2>3, <2>4, <2>5 DEF Moves
  <2> QED
    BY <1>2, <2>2, <2>6, MovesStep
<1> QED
  BY <1>4, <1>5, <1>6, <1>7

(* The end of a session leaves no live tutor. *)
LEMMA CloseStep ==
  ASSUME IInv, TInv, NEW kept \in SUBSET calls, CloseSession(kept)
  PROVE  TInv'
<1>t. TypeOK
  BY DEF IInv
<1>1. /\ sessionAlive' = FALSE /\ Tutored' \subseteq Tutored
      /\ \A id : Known(id)' <=> Known(id)
      /\ UNCHANGED <<subscriptions, session>>
  BY DEF CloseSession, tableVars, Tutored, Unopened, Known
<1>2. \A id \in Ids : Known(id) => tablePhase'[subscriptions[id]] = tablePhase[subscriptions[id]] + 1
  BY <1>t, KnownType DEF CloseSession, SetPhase, InTable
<1>3. \A r \in Tutored : KnownAdd(r) => r.phase < tablePhase'[subscriptions[r.id]]
  BY <1>t, <1>2, TutoredTypes DEF TInv, NoneAhead, KnownAdd
<1>4. \A r \in Tutored : ~LiveAdd(r)'
  BY <1>t, <1>1, <1>3, TutoredTypes DEF LiveAdd, KnownAdd
<1>5. OneTutor'
  <2>1. /\ \A r \in queued' \cup timers' : r \in Tutored'
        /\ \A c \in Unopened' : c.request \in Tutored'
    BY DEF Tutored
  <2> QED
    BY <1>1, <1>4, <2>1 DEF OneTutor, SameLive
<1>6. NoneAhead' /\ LiveAreCurrent'
  <2> SUFFICES ASSUME NEW r \in Tutored', KnownAdd(r)
               PROVE  r.phase <= tablePhase'[subscriptions[r.id]]
    BY <1>1, <1>4 DEF NoneAhead, LiveAreCurrent, KnownAdd
  <2> QED
    BY <1>t, <1>1, <1>2, <1>3, TutoredTypes DEF KnownAdd
<1> QED
  BY <1>1, <1>5, <1>6 DEF TInv, AliveIsReady, NotForgotten
-----------------------------------------------------------------------------
(* A session that was created is not started yet, so no tutor is live.      *)
LEMMA SessionCreateStep ==
  ASSUME IInv, TInv, SessionCreate
  PROVE  TInv'
<1>1. /\ UNCHANGED <<subscriptions, tablePhaseType, tablePhase, sessionAlive, queued, timers, calls>>
      /\ ~sessionAlive /\ requestManager' = "ready"
  BY DEF SessionCreate, subVars, tableVars, networkVars, TInv, AliveIsReady
<1>2. /\ \A r : LiveAdd(r)' <=> LiveAdd(r)
      /\ \A r : KnownAdd(r)' <=> KnownAdd(r)
      /\ Tutored' = Tutored /\ Unopened' = Unopened
  BY <1>1 DEF LiveAdd, KnownAdd, Known, Tutored, Unopened
<1>3. OneTutor'
  BY <1>1, <1>2 DEF TInv, OneTutor, SameLive
<1>4. NoneAhead'
  BY <1>1, <1>2 DEF TInv, NoneAhead
<1>5. LiveAreCurrent' /\ NotForgotten' /\ AliveIsReady'
  BY <1>1, <1>2 DEF TInv, LiveAreCurrent, NotForgotten, AliveIsReady
<1> QED
  BY <1>3, <1>4, <1>5 DEF TInv

(* A session that starts leaves every tutor behind and gives every         *)
(* subscription of the table a new one.                                     *)
LEMMA SessionStartStep ==
  ASSUME IInv, TInv, SessionStart
  PROVE  TInv'
<1> DEFINE given(id) == AddRequest(id, tablePhase[subscriptions[id]] + 1, 0)
           fresh == {given(id) : id \in {i \in Ids : Known(i)}}
<1>t. TypeOK
  BY DEF IInv
<1>1. /\ UNCHANGED <<subscriptions, session, requestManager, timers, calls>>
      /\ sessionAlive' = TRUE /\ requestManager = "ready" /\ queued' = queued \cup fresh
      /\ SetPhase({s \in Subs : InTable(s)}, "WAITING")
  BY DEF SessionStart, tableVars
<1>2. /\ \A r : KnownAdd(r)' <=> KnownAdd(r)
      /\ Unopened' = Unopened
      /\ \A id : Known(id)' <=> Known(id)
  BY <1>1 DEF KnownAdd, Known, Unopened
<1>3. \A id \in Ids : Known(id) => /\ tablePhase'[subscriptions[id]] = tablePhase[subscriptions[id]] + 1
                                   /\ tablePhaseType'[subscriptions[id]] = "WAITING"
  BY <1>t, <1>1, KnownType DEF SetPhase, InTable
<1>4. \A r \in Tutored : ~LiveAdd(r)'
  <2>1. \A r \in Tutored : KnownAdd(r) => r.phase < tablePhase'[subscriptions[r.id]]
    BY <1>t, <1>3, TutoredTypes DEF TInv, NoneAhead, KnownAdd
  <2> QED
    BY <1>t, <1>1, <1>2, <2>1, TutoredTypes DEF LiveAdd, KnownAdd
<1>5. ASSUME NEW id \in Ids, Known(id)
      PROVE  /\ given(id) \in fresh /\ given(id).id = id /\ given(id).session = session
             /\ given(id).kind = "add" /\ given(id).phase = tablePhase'[subscriptions[id]]
  BY <1>3, <1>5 DEF AddRequest
<1>6. \A r \in fresh : r.id \in Ids /\ Known(r.id) /\ r = given(r.id)
  BY DEF AddRequest
<1> HIDE DEF given, fresh
<1>7. Tutored' = Tutored \cup fresh
  BY <1>1, <1>2 DEF Tutored
<1>13. \A r \in fresh : r.id \in Ids /\ Known(r.id) /\ r.session = session /\ LiveAdd(r)'
  BY <1>1, <1>2, <1>5, <1>6 DEF LiveAdd, KnownAdd
<1>8. OneTutor'
  <2>1. /\ \A r \in queued \cup timers : ~LiveAdd(r)'
        /\ \A c \in Unopened : ~LiveAdd(c.request)'
    BY <1>4 DEF Tutored
  <2>2. \A r, q \in fresh : r.id = q.id => r = q
    BY <1>6
  <2> QED
    BY <1>1, <1>2, <2>1, <2>2 DEF OneTutor, SameLive
<1>9. NoneAhead'
  <2> SUFFICES ASSUME NEW r \in Tutored', KnownAdd(r)
               PROVE  r.phase <= tablePhase'[subscriptions[r.id]]
    BY <1>1, <1>2 DEF NoneAhead
  <2>1. CASE r \in Tutored
    BY <1>t, <1>3, <2>1, TutoredTypes DEF TInv, NoneAhead, KnownAdd
  <2>2. CASE r \in fresh
    <3>1. r.id \in Ids /\ Known(r.id) /\ r.phase = tablePhase[subscriptions[r.id]] + 1
      BY <1>3, <1>5, <1>6, <2>2
    <3> QED
      BY <1>t, <1>3, <3>1, TutoredTypes
  <2> QED
    BY <1>7, <2>1, <2>2
<1>10. LiveAreCurrent'
  BY <1>1, <1>4, <1>7, <1>13 DEF LiveAreCurrent
<1>11. NotForgotten'
  <2> SUFFICES ASSUME NEW id \in Ids, Known(id)
               PROVE  LiveAdds(id)' # {}
    BY <1>2 DEF NotForgotten
  <2>1. PICK r \in Tutored' : LiveAdd(r)' /\ r.id = id
    BY <1>5, <1>7, <1>13
  <2> QED
    BY <2>1 DEF LiveAdds, Tutored, Unopened, LiveAdd, KnownAdd, CheckPhase
<1>12. AliveIsReady'
  BY <1>1 DEF AliveIsReady
<1> QED
  BY <1>8, <1>9, <1>10, <1>11, <1>12 DEF TInv

(* doAdd gives an id nobody has heard of, with at most one tutor.            *)
LEMMA DoAddTutors ==
  ASSUME IInv, TInv, DoAdd
  PROVE  TInv'
<1> DEFINE s == Head(tasks).sub
           id == lastId + 1
<1>new. PICK new : new = AddRequest(id, tablePhase[s] + 1, 0)
  OBVIOUS
<1>t. TypeOK /\ TableConsistent /\ FreshIds /\ TasksAlternate
  BY DEF IInv
<1>1. s \in Subs /\ id \in Ids /\ lastId \in Nat
  <2>1. Head(tasks) \in Tasks
    BY <1>t, HeadTailProperties DEF DoAdd, TypeOK
  <2> QED
    BY <1>t, <2>1, BoundsAssumption DEF DoAdd, TypeOK, Ids, Tasks
<1>2. ~InTable(s)
  BY <1>1, <1>t, FirstIsHead DEF DoAdd, TypeOK, Tabled
<1>3. /\ subscriptions' = [subscriptions EXCEPT ![id] = s]
      /\ UNCHANGED <<calls, timers, sessionAlive, session, requestManager>>
  BY DEF DoAdd, sessionVars
<1>4. \A k \in Ids : subscriptions'[k] = IF k = id THEN s ELSE subscriptions[k]
  BY <1>1, <1>3, <1>t DEF TypeOK
<1>5. \A k \in Ids : Known(k)' <=> (Known(k) \/ k = id)
  BY <1>1, <1>4, SubsAssumption DEF Known
<1>6. \A r \in Tutored : r.id \in Ids /\ r.id # id
  <2>1. \A r \in Tutored : r.id \in Ids
    BY <1>t, TutoredTypes
  <2>2. \A r \in Tutored : r.id <= lastId
    BY <1>t DEF FreshIds, OnTheWay, Tutored, Unopened
  <2> QED
    BY <1>1, <2>1, <2>2 DEF Ids
<1>7. ~Known(id)
  BY <1>1, <1>t DEF FreshIds
<1>8. \A x \in Subs \ {s} : tablePhase'[x] = tablePhase[x] /\ tablePhaseType'[x] = tablePhaseType[x]
  BY <1>1, <1>t DEF DoAdd, SetPhase, TypeOK
<1>9. \A k \in Ids : Known(k) => /\ subscriptions'[k] = subscriptions[k] /\ subscriptions[k] # s /\ k # id
                                 /\ tablePhase'[subscriptions'[k]] = tablePhase[subscriptions[k]]
                                 /\ tablePhaseType'[subscriptions'[k]] = tablePhaseType[subscriptions[k]]
  BY <1>t, <1>2, <1>4, <1>7, <1>8, KnownType DEF InTable
<1>10. \A r \in Tutored : (KnownAdd(r)' <=> KnownAdd(r)) /\ (LiveAdd(r)' <=> LiveAdd(r))
  BY <1>5, <1>6, <1>9 DEF KnownAdd, LiveAdd
<1>11. /\ new.id = id /\ new.kind = "add" /\ new.session = session /\ new.phase = tablePhase[s] + 1
       /\ tablePhase[s] \in Nat
  BY <1>1, <1>t, <1>new DEF AddRequest, TypeOK
<1>12. CASE sessionAlive
  <2>1. /\ tablePhase'[s] = tablePhase[s] + 1
        /\ new \in queued' /\ queued' \subseteq queued \cup {new}
        /\ \A r \in queued : r \in queued' \/ r.id = id
    BY <1>1, <1>new, <1>11, <1>12 DEF DoAdd, SetPhase, Enqueued
  <2>2. KnownAdd(new)' /\ LiveAdd(new)'
    BY <1>1, <1>4, <1>5, <1>11, <2>1 DEF KnownAdd, LiveAdd
  <2>3. queued' = queued \cup {new} /\ Tutored' = Tutored \cup {new}
    BY <1>3, <1>6, <2>1 DEF Tutored, Unopened
  <2>4. OneTutor'
    <3>1. \A r \in Tutored : ~SameLive(r, new)' /\ ~SameLive(new, r)'
      BY <1>6, <1>11 DEF SameLive
    <3>2. \A p, q \in Tutored : SameLive(p, q)' <=> SameLive(p, q)
      BY <1>10 DEF SameLive
    <3>3. /\ \A r \in queued : r \in Tutored
          /\ \A r \in timers : r \in Tutored
          /\ \A c \in Unopened : c.request \in Tutored
          /\ Unopened' = Unopened
      BY <1>3 DEF Tutored, Unopened
    <3> HIDE DEF id, s
    <3> QED
      BY <1>3, <2>3, <3>1, <3>2, <3>3 DEF TInv, OneTutor
  <2>5. NoneAhead'
    <3> SUFFICES ASSUME NEW r \in Tutored', KnownAdd(r)'
                 PROVE  r.phase <= tablePhase'[subscriptions'[r.id]]
      BY DEF NoneAhead
    <3>1. CASE r \in Tutored
      BY <1>6, <1>9, <1>10, <3>1 DEF TInv, NoneAhead, KnownAdd
    <3>2. CASE r = new
      BY <1>1, <1>4, <1>11, <2>1, <3>2
    <3> QED
      BY <2>3, <3>1, <3>2
  <2>6. LiveAreCurrent'
    BY <1>3, <1>10, <1>11, <1>12, <2>3 DEF TInv, LiveAreCurrent
  <2>7. NotForgotten'
    <3> SUFFICES ASSUME NEW k \in Ids, Known(k)', tablePhaseType'[subscriptions'[k]] \in {"WAITING", "SUBSCRIBING"}
                 PROVE  \E r \in Tutored' : LiveAdd(r)' /\ r.id = k
      BY DEF NotForgotten, LiveAdds, Tutored, Unopened, LiveAdd, KnownAdd, CheckPhase
    <3>1. CASE k = id
      BY <1>11, <2>2, <2>3, <3>1
    <3>2. CASE Known(k)
      <4>1. LiveAdds(k) # {}
        BY <1>9, <1>12, <3>2 DEF TInv, NotForgotten
      <4>2. PICK r \in Tutored : LiveAdd(r) /\ r.id = k
        BY <1>t, <3>2, <4>1, LiveAddsAre
      <4> QED
        BY <1>10, <2>3, <4>2
    <3> QED
      BY <1>5, <3>1, <3>2
  <2> QED
    BY <1>3, <2>4, <2>5, <2>6, <2>7 DEF TInv, AliveIsReady
<1>13. CASE ~sessionAlive
  <2>1. queued' = queued /\ Tutored' = Tutored /\ Unopened' = Unopened
    BY <1>3, <1>13 DEF DoAdd, Tutored, Unopened
  <2>2. OneTutor'
    <3>1. \A p, q \in Tutored : SameLive(p, q)' <=> SameLive(p, q)
      BY <1>10 DEF SameLive
    <3>2. /\ \A r \in queued : r \in Tutored
          /\ \A r \in timers : r \in Tutored
          /\ \A c \in Unopened : c.request \in Tutored
      BY DEF Tutored
    <3> QED
      BY <1>3, <2>1, <3>1, <3>2 DEF TInv, OneTutor
  <2>3. NoneAhead'
    <3> SUFFICES ASSUME NEW r \in Tutored, KnownAdd(r)'
                 PROVE  r.phase <= tablePhase'[subscriptions'[r.id]]
      BY <2>1 DEF NoneAhead
    <3> QED
      BY <1>6, <1>9, <1>10 DEF TInv, NoneAhead, KnownAdd
  <2>4. LiveAreCurrent' /\ NotForgotten' /\ AliveIsReady'
    BY <1>3, <1>10, <1>13, <2>1 DEF TInv, LiveAreCurrent, NotForgotten, AliveIsReady
  <2> QED
    BY <2>2, <2>3, <2>4 DEF TInv
<1> QED
  BY <1>12, <1>13

(* doRemove makes an id unknown: its tutors are of no subscription any more. *)
LEMMA DoRemoveTutors ==
  ASSUME IInv, TInv, DoRemove
  PROVE  TInv'
<1> DEFINE s == Head(tasks).sub
           id == subscriptionId[s]
<1>t. TypeOK /\ TableConsistent /\ TasksAlternate
  BY DEF IInv
<1>1. s \in Subs
  <2>1. Head(tasks) \in Tasks
    BY <1>t, HeadTailProperties DEF DoRemove, TypeOK
  <2> QED
    BY <2>1 DEF Tasks
<1>2. InTable(s)
  BY <1>1, <1>t, FirstIsHead DEF DoRemove, TypeOK, Tabled
<1>3. id \in Ids /\ subscriptions[id] = s
  BY <1>1, <1>2, <1>t, SubsAssumption DEF TableConsistent, InTable, Known
<1>4. /\ UNCHANGED <<timers, calls, sessionAlive, session, requestManager>>
      /\ \A k \in Ids : subscriptions'[k] = IF k = id THEN NoSub ELSE subscriptions[k]
  BY <1>3, <1>t DEF DoRemove, sessionVars, TypeOK
<1>5. \A k \in Ids : Known(k)' => Known(k) /\ k # id
  BY <1>4 DEF Known
<1>6. \A k \in Ids : Known(k)' => /\ subscriptions'[k] = subscriptions[k]
                                  /\ tablePhase'[subscriptions'[k]] = tablePhase[subscriptions[k]]
                                  /\ tablePhaseType'[subscriptions'[k]] = tablePhaseType[subscriptions[k]]
  <2>1. \A x \in Subs \ {s} : tablePhase'[x] = tablePhase[x] /\ tablePhaseType'[x] = tablePhaseType[x]
    BY DEF DoRemove, SetPhase
  <2>2. \A k \in Ids : Known(k)' => subscriptions[k] \in Subs \ {s}
    BY <1>t, <1>3, <1>5, KnownType DEF TableConsistent
  <2> QED
    BY <1>4, <1>5, <2>1, <2>2
<1>7. \A r : KnownAdd(r)' /\ r.id \in Ids => (r \in queued' <=> r \in queued)
  <2>1. \A r : KnownAdd(r)' /\ r.id \in Ids => r.kind = "add" /\ r.id # id
    BY <1>5 DEF KnownAdd
  <2> HIDE DEF id, s
  <2>2. CASE UNCHANGED queued
    BY <2>2
  <2>3. CASE Unsubscribe(id)
    BY <2>1, <2>3 DEF Unsubscribe, Enqueued, DeleteRequest
  <2> QED
    BY <2>2, <2>3 DEF DoRemove, pendingVars, id, s
<1>8. \A r : r.id \in Ids => (KnownAdd(r)' => KnownAdd(r)) /\ (KnownAdd(r)' => (LiveAdd(r)' <=> LiveAdd(r)))
  BY <1>5, <1>6 DEF KnownAdd, LiveAdd
<1>9. \A r \in Tutored' : KnownAdd(r)' => r \in Tutored /\ r.id \in Ids
  <2>1. TypeOK'
    BY TypeStep DEF Next
  <2>2. \A r \in Tutored' : r.id \in Ids
    BY <2>1 DEF TypeOK, Tutored, Unopened, Call, Request, Ids
  <2> QED
    BY <1>4, <1>7, <2>2 DEF Tutored, Unopened
<1>10. \A r \in Tutored : r.id \in Ids
  BY <1>t, TutoredTypes
<1>11. OneTutor'
  <2>1. /\ \A r \in queued' : LiveAdd(r)' => r \in queued /\ LiveAdd(r)
        /\ \A r \in timers' : LiveAdd(r)' => r \in timers /\ LiveAdd(r)
        /\ \A c \in Unopened' : LiveAdd(c.request)' => c \in Unopened /\ LiveAdd(c.request)
    <3>1. \A r \in Tutored' : LiveAdd(r)' => KnownAdd(r)' /\ LiveAdd(r) /\ r.id \in Ids
      BY <1>8, <1>9 DEF LiveAdd
    <3> QED
      BY <1>4, <1>7, <3>1 DEF Tutored, Unopened
  <2> QED
    BY <2>1 DEF TInv, OneTutor, SameLive
<1>12. NoneAhead'
  <2> SUFFICES ASSUME NEW r \in Tutored', KnownAdd(r)'
               PROVE  r.phase <= tablePhase'[subscriptions'[r.id]]
    BY DEF NoneAhead
  <2> QED
    BY <1>6, <1>8, <1>9 DEF TInv, NoneAhead, KnownAdd
<1>13. LiveAreCurrent'
  BY <1>4, <1>8, <1>9 DEF TInv, LiveAreCurrent, LiveAdd
<1>14. NotForgotten'
  <2> SUFFICES ASSUME sessionAlive, NEW k \in Ids, Known(k)', tablePhaseType'[subscriptions'[k]] \in {"WAITING", "SUBSCRIBING"}
               PROVE  \E r \in Tutored' : LiveAdd(r)' /\ r.id = k
    BY <1>4 DEF NotForgotten, LiveAdds, Tutored, Unopened, LiveAdd, KnownAdd, CheckPhase
  <2>1. LiveAdds(k) # {}
    BY <1>5, <1>6 DEF TInv, NotForgotten
  <2>2. PICK r \in Tutored : LiveAdd(r) /\ r.id = k
    BY <1>t, <1>5, <2>1, LiveAddsAre
  <2>3. KnownAdd(r)' /\ LiveAdd(r)'
    BY <1>8, <2>2 DEF LiveAdd, KnownAdd
  <2>4. r \in Tutored'
    BY <1>4, <1>7, <2>2, <2>3 DEF Tutored, Unopened
  <2> QED
    BY <2>2, <2>3, <2>4
<1> QED
  BY <1>4, <1>11, <1>12, <1>13, <1>14 DEF TInv, AliveIsReady

(* Nothing waits at first, and every step keeps the tutors in order.        *)
LEMMA NextTInv ==
  ASSUME IInv, TInv, [Next]_vars
  PROVE  TInv'
<1>1. CASE \E s \in Subs : ClientSubscribe(s) \/ ClientUnsubscribe(s)
  BY <1>1, AsideStep
<1>2. CASE \E goToSleep \in BOOLEAN : SessionClose(goToSleep)
  <2>1. PICK kept \in SUBSET calls : CloseSession(kept)
    BY <1>2 DEF SessionClose, OtherSessionsCalls
  <2> QED
    BY <2>1, CloseStep
<1>3. CASE \E c \in calls : OnOpen(c) \/ CallBroken(c) \/ OnAnswer(c)
  <2>1. PICK c \in calls : OnOpen(c) \/ CallBroken(c) \/ OnAnswer(c)
    BY <1>3
  <2>2. CASE OnLateEvent(c)
    <3>1. OtherSessionsCalls \ {c} \in SUBSET calls
      BY DEF OtherSessionsCalls
    <3> QED
      BY <2>2, <3>1, CloseStep DEF OnLateEvent, OnFatalError
  <2> QED
    BY <2>1, <2>2, OnOpenStep, CallBrokenStep, AnswerStep DEF OnAnswer
<1>4. CASE \E id \in server : ServerUpdate(id)
  BY <1>4, AsideStep
<1>5. CASE UNCHANGED vars
  BY <1>5, AsideStep
<1> QED
  BY <1>1, <1>2, <1>3, <1>4, <1>5, DoAddTutors, DoRemoveTutors, SessionCreateStep, SessionStartStep,
     SendBatchStep, TimeoutStep, ReadNoteStep, ServerReceivesStep DEF Next

(* The tutors are in order in every state the program can reach.           *)
THEOREM TutorsInductive == Spec => [](IInv /\ TInv)
<1>1. Init => IInv /\ TInv
  <2>1. Init => TInv
    BY DEF Init, TInv, OneTutor, NoneAhead, LiveAreCurrent, AliveIsReady, NotForgotten, Tutored, Unopened
  <2> QED
    BY <2>1, InitIInv
<1>2. IInv /\ TInv /\ [Next]_vars => IInv' /\ TInv'
  BY NextIInv, NextTInv
<1> QED
  BY <1>1, <1>2, PTL DEF Spec

(* One tutor at most looks after a subscription as it is now.               *)
THEOREM TutorsAreSingle == Spec => []SingleTutor
<1>1. IInv /\ TInv => SingleTutor
  <2> SUFFICES ASSUME IInv, TInv, NEW id \in Ids
               PROVE  Cardinality(LiveAdds(id)) <= 1
    BY DEF SingleTutor
  <2>1. CASE LiveAdds(id) = {}
    BY <2>1, FS_EmptySet
  <2>2. CASE LiveAdds(id) # {}
    <3>1. PICK r : r \in LiveAdds(id)
      BY <2>2
    <3>2. Known(id)
      BY <3>1 DEF LiveAdds, CheckPhase
    <3>3. \A q \in LiveAdds(id) : q \in Tutored /\ LiveAdd(q) /\ q.id = id
      BY <3>2, LiveAddsAre DEF IInv
    <3>4. \A p, q \in Tutored : SameLive(p, q) => p = q
      BY DEF TInv, OneTutor, Tutored, SameLive
    <3>5. LiveAdds(id) = {r}
      BY <3>1, <3>3, <3>4 DEF SameLive
    <3> QED
      BY <3>5, FS_Singleton, SMTT(30)
  <2> QED
    BY <2>1, <2>2
<1> QED
  BY <1>1, TutorsInductive, PTL

(* A subscription of a live session that is not subscribed yet has a tutor. *)
THEOREM NoneIsForgotten == Spec => []NotForgotten
<1>1. TInv => NotForgotten
  BY DEF TInv
<1> QED
  BY <1>1, TutorsInductive, PTL
-----------------------------------------------------------------------------
(* Over WebSocket, what the server accepted it still has.                  *)

(* Nothing on the network outlives the session. *)
Ended ==
  ~sessionAlive => queued = {} /\ calls = {} /\ wire = {} /\ notes = <<>> /\ server = {}
OfThisSession == \A r \in queued \cup {c.request : c \in calls} : r.session = session

Posted == {notes[i] : i \in 1..Len(notes)}

(* A positive answer on its way, in either form, is still true.            *)
StillTrue(n)   == n.event = "SUBOK" /\ Known(n.id) => n.id \in server
StillGranted(c) ==
  c.request.kind = "add" /\ c.reply = "ok" /\ Known(c.request.id) => c.request.id \in server
AcceptedIsThere ==
  /\ \A n \in Posted : StillTrue(n)
  /\ \A c \in calls : StillGranted(c)

WsInv == Ended /\ OfThisSession /\ AcceptedIsThere /\ PushingIsSubscribed

(* What a step of a live session must not do. *)
Honest ==
  /\ UNCHANGED <<subscriptions, sessionAlive, session>>
  /\ \A r \in queued' : r \in queued \/ r.session = session
  /\ \A c \in calls' : c.request.session = session /\ StillGranted(c)'
  /\ \A n \in Posted' : StillTrue(n)'
  /\ \A id \in server : Known(id) => id \in server'
  /\ \A id \in Ids : Known(id) /\ tablePhaseType'[subscriptions[id]] = "PUSHING"
                       => tablePhaseType[subscriptions[id]] = "PUSHING" \/ id \in server

(* A step of a live session that does none of it keeps the invariant. *)
LEMMA HonestStep ==
  ASSUME WsInv, Honest, sessionAlive
  PROVE  WsInv'
<1>1. \A id : Known(id)' <=> Known(id)
  BY DEF Honest, Known
<1>2. Ended' /\ OfThisSession'
  BY DEF Honest, WsInv, Ended, OfThisSession
<1>3. AcceptedIsThere'
  BY DEF Honest, AcceptedIsThere
<1>4. PushingIsSubscribed'
  BY <1>1 DEF Honest, WsInv, PushingIsSubscribed
<1> QED
  BY <1>2, <1>3, <1>4 DEF WsInv

(* Something on the network means a live session.                          *)
LEMMA NetworkIsAlive ==
  ASSUME WsInv, queued # {} \/ calls # {} \/ wire # {} \/ notes # <<>> \/ server # {}
  PROVE  sessionAlive
BY DEF WsInv, Ended

(* Calls that were there, before a server that loses no known id.          *)
LEMMA OldCalls ==
  ASSUME WsInv, UNCHANGED subscriptions, \A id \in server : Known(id) => id \in server', NEW c \in calls
  PROVE  c.request.session = session /\ StillGranted(c)'
BY DEF WsInv, OfThisSession, AcceptedIsThere, StillGranted, Known

(* Notifications that were there.                                          *)
LEMMA OldNotes ==
  ASSUME WsInv, UNCHANGED subscriptions, \A id \in server : Known(id) => id \in server', NEW n \in Posted
  PROVE  StillTrue(n)'
BY DEF WsInv, AcceptedIsThere, StillTrue, Known

(* The notifications left when the first was read. *)
LEMMA PostedTail ==
  ASSUME TypeOK, notes # <<>>
  PROVE  /\ Head(notes) \in Posted
         /\ notes' = Tail(notes) => Posted' \subseteq Posted
<1>1. notes \in Seq(Notes)
  BY DEF TypeOK
<1>2. Head(notes) \in Posted
  BY <1>1, TailIds DEF Posted
<1>3. ASSUME notes' = Tail(notes)
      PROVE  Posted' \subseteq Posted
  BY <1>1, <1>3, TailIds DEF Posted
<1> QED
  BY <1>2, <1>3

(* Those there are when more were sent. *)
LEMMA PostedMore ==
  ASSUME NEW a \in Seq(Notes), NEW b \in Seq(Notes), TypeOK, notes' = notes \o a \o b
  PROVE  \A n \in Posted' : \/ n \in Posted
                            \/ \E i \in 1..Len(a) : n = a[i]
                            \/ \E i \in 1..Len(b) : n = b[i]
<1>0. notes \in Seq(Notes)
  BY DEF TypeOK
<1>1. /\ notes \o a \in Seq(Notes) /\ Len(notes \o a) = Len(notes) + Len(a)
      /\ \A i \in 1..Len(notes) + Len(a) :
           (notes \o a)[i] = IF i <= Len(notes) THEN notes[i] ELSE a[i - Len(notes)]
  BY <1>0, ConcatProperties
<1>2. /\ Len(notes') = Len(notes \o a) + Len(b)
      /\ \A i \in 1..Len(notes \o a) + Len(b) :
           notes'[i] = IF i <= Len(notes \o a) THEN (notes \o a)[i] ELSE b[i - Len(notes \o a)]
  BY <1>1, ConcatProperties
<1>3. /\ \A i \in 1..Len(notes') : i \in 1..Len(notes) \/ i - Len(notes) \in 1..Len(a) \/ i - Len(notes \o a) \in 1..Len(b)
      /\ Len(notes) \in Nat /\ Len(a) \in Nat /\ Len(b) \in Nat
  BY <1>0, <1>1, <1>2
<1> QED
  <2> SUFFICES ASSUME NEW i \in 1..Len(notes')
               PROVE  \/ \E j \in 1..Len(notes) : notes'[i] = notes[j]
                      \/ \E j \in 1..Len(a) : notes'[i] = a[j]
                      \/ \E j \in 1..Len(b) : notes'[i] = b[j]
    BY DEF Posted
  <2>1. CASE i <= Len(notes)
    <3>1. notes'[i] = notes[i] /\ i \in 1..Len(notes)
      BY <1>0, <1>1, <1>2, <1>3, <2>1
    <3> QED
      BY <3>1
  <2>2. CASE Len(notes) < i /\ i <= Len(notes \o a)
    <3>1. notes'[i] = a[i - Len(notes)] /\ i - Len(notes) \in 1..Len(a)
      BY <1>0, <1>1, <1>2, <1>3, <2>2
    <3> QED
      BY <3>1
  <2>3. CASE Len(notes \o a) < i
    <3>1. notes'[i] = b[i - Len(notes \o a)] /\ i - Len(notes \o a) \in 1..Len(b)
      BY <1>0, <1>1, <1>2, <1>3, <2>3
    <3> QED
      BY <3>1
  <2> QED
    BY <1>0, <1>1, <1>3, <2>1, <2>2, <2>3
-----------------------------------------------------------------------------
(* The steps over WebSocket. *)

(* A request queued by unsubscribing is of the live session. *)
LEMMA UnsubscribeNow ==
  ASSUME NEW id, Unsubscribe(id) \/ UnsubscribeUnlessPending(id) \/ ForgetDelete(id)
  PROVE  \A r \in queued' : r \in queued \/ r.session = session
BY DEF Unsubscribe, UnsubscribeUnlessPending, ForgetDelete, Enqueued, DeleteRequest, pendingVars

(* SUBOK, REQOK and a refusal: only what the server has becomes PUSHING.   *)
LEMMA EventHonest ==
  ASSUME IInv, WsInv, NEW id \in Ids, NEW what \in {"PUSHING", "PAUSED"}, SubscriptionEvent(id, what),
         what = "PUSHING" /\ Known(id) => id \in server
  PROVE  /\ \A r \in queued' : r \in queued \/ r.session = session
         /\ \A i \in Ids : Known(i) /\ tablePhaseType'[subscriptions[i]] = "PUSHING"
                             => tablePhaseType[subscriptions[i]] = "PUSHING" \/ i \in server
<1>t. TypeOK
  BY DEF IInv
<1>1. CASE Known(id)
  <2>1. SetPhase({subscriptions[id]}, what) /\ UNCHANGED queued
    BY <1>1 DEF SubscriptionEvent
  <2>2. \A i \in Ids : Known(i) => subscriptions[i] \in Subs
    BY <1>t, KnownType
  <2>3. \A i \in Ids : Known(i) /\ i # id => tablePhaseType'[subscriptions[i]] = tablePhaseType[subscriptions[i]]
    BY <1>1, <2>1, <2>2, OneId DEF SetPhase
  <2>4. tablePhaseType'[subscriptions[id]] = what
    BY <1>1, <2>1, <2>2 DEF SetPhase
  <2> QED
    BY <1>1, <2>1, <2>3, <2>4
<1>2. CASE ~Known(id)
  BY <1>2, UnsubscribeNow DEF SubscriptionEvent
<1> QED
  BY <1>1, <1>2

(* The answer on the stream that ends a call. *)
LEMMA AnswerHonest ==
  ASSUME ~Http, IInv, WsInv, NEW c \in calls, OnAnswer(c), ~OnLateEvent(c)
  PROVE  WsInv'
<1>t. TypeOK
  BY DEF IInv
<1>0. c.request.id \in Ids
  BY OldIds
<1>1. /\ UNCHANGED <<subscriptions, sessionAlive, session, server>>
      /\ calls' = calls \ {c} /\ notes # <<>> /\ notes' = Tail(notes)
  BY DEF OnAnswer, OnSubscriptionAck, OnSubscriptionError, OnUnsubscriptionAck, OnUnsubscriptionError,
         Answered, tableVars, sessionVars
<1>2. sessionAlive
  BY NetworkIsAlive
<1>3. /\ \A d \in calls' : d.request.session = session /\ StillGranted(d)'
      /\ \A n \in Posted' : StillTrue(n)'
  BY <1>t, <1>1, OldCalls, OldNotes, PostedTail
<1>4. /\ \A r \in queued' : r \in queued \/ r.session = session
      /\ \A i \in Ids : Known(i) /\ tablePhaseType'[subscriptions[i]] = "PUSHING"
                          => tablePhaseType[subscriptions[i]] = "PUSHING" \/ i \in server
  <2>1. CASE OnSubscriptionAck(c)
    <3>1. SubscriptionEvent(c.request.id, "PUSHING") /\ c.request.kind = "add" /\ c.reply = "ok"
      BY <2>1 DEF OnSubscriptionAck, Answered
    <3>2. Known(c.request.id) => c.request.id \in server
      BY <3>1 DEF WsInv, AcceptedIsThere, StillGranted
    <3> QED
      BY <1>0, <3>1, <3>2, EventHonest
  <2>2. CASE OnSubscriptionError(c)
    <3>1. SubscriptionEvent(c.request.id, "PAUSED")
      BY <2>2 DEF OnSubscriptionError
    <3> QED
      BY <1>0, <3>1, EventHonest
  <2>3. CASE OnUnsubscriptionAck(c)
    BY <2>3, UnsubscribeNow DEF OnUnsubscriptionAck, subVars
  <2>4. CASE OnUnsubscriptionError(c)
    BY <2>4 DEF OnUnsubscriptionError, subVars
  <2> QED
    BY <2>1, <2>2, <2>3, <2>4 DEF OnAnswer
<1>5. Honest
  BY <1>1, <1>3, <1>4 DEF Honest
<1> QED
  BY <1>2, <1>5, HonestStep

(* What is read from the stream. *)
LEMMA ReadNoteHonest ==
  ASSUME ~Http, IInv, WsInv, ReadNote
  PROVE  WsInv'
<1> DEFINE n == Head(notes)
<1>t. TypeOK
  BY DEF IInv
<1>1. /\ UNCHANGED <<subscriptions, sessionAlive, session, server, calls>>
      /\ notes # <<>> /\ notes' = Tail(notes)
  BY DEF ReadNote, tableVars, sessionVars
<1>2. sessionAlive
  BY <1>1, NetworkIsAlive
<1>3. /\ \A d \in calls' : d.request.session = session /\ StillGranted(d)'
      /\ \A m \in Posted' : StillTrue(m)'
  BY <1>t, <1>1, OldCalls, OldNotes, PostedTail
<1>4. n.id \in Ids /\ StillTrue(n)
  <2>1. notes \in Seq(Notes) /\ n \in Posted
    BY <1>t, <1>1, PostedTail DEF TypeOK
  <2>2. n \in Notes
    BY <1>1, <2>1, HeadTailProperties
  <2> QED
    BY <2>1, <2>2 DEF Notes, WsInv, AcceptedIsThere
<1>5. /\ \A r \in queued' : r \in queued \/ r.session = session
      /\ \A i \in Ids : Known(i) /\ tablePhaseType'[subscriptions[i]] = "PUSHING"
                          => tablePhaseType[subscriptions[i]] = "PUSHING" \/ i \in server
  <2>1. CASE n.event = "SUBOK" /\ SubscriptionEvent(n.id, "PUSHING")
    <3>1. Known(n.id) => n.id \in server
      BY <1>4, <2>1 DEF StillTrue
    <3> QED
      BY <1>4, <2>1, <3>1, EventHonest
  <2>2. CASE (UNCHANGED queued \/ UnsubscribeUnlessPending(n.id) \/ ForgetDelete(n.id)) /\ UNCHANGED tablePhaseType
    BY <2>2, UnsubscribeNow
  <2> QED
    BY <2>1, <2>2 DEF ReadNote
<1>6. Honest
  BY <1>1, <1>3, <1>5 DEF Honest
<1> QED
  BY <1>2, <1>6, HonestStep

(* The server answers; a removal it answers is not of a known id. *)
LEMMA ServerReceivesHonest ==
  ASSUME ~Http, IInv, WsInv, NEW r \in wire, ServerReceives(r)
  PROVE  WsInv'
<1>t. TypeOK
  BY DEF IInv
<1>1. UNCHANGED <<subscriptions, sessionAlive, session, queued, tablePhaseType>>
  BY DEF ServerReceives, tableVars, sessionVars, subVars
<1>2. sessionAlive
  BY NetworkIsAlive
<1>3. r \in Request /\ r.id \in Ids /\ r.kind \in {"add", "delete"} /\ (r.kind = "delete" => ~Known(r.id))
  BY <1>t DEF TypeOK, Request, IInv, DeletesAreDue, OnTheWay
<1>4. PICK reply \in Replies, told \in {<<>>, <<Note("SUBOK", r.id)>>, <<Note("UNSUB", r.id)>>} :
        /\ ServerSends(r, reply, told)
        /\ told = <<Note("SUBOK", r.id)>> => r.id \in server'
        /\ r.kind = "add" /\ reply = "ok" => r.id \in server'
        /\ \A id \in server : id \in server' \/ (id = r.id /\ r.kind = "delete")
  <2>1. /\ "ok" \in Replies /\ "error" \in Replies
        /\ <<>> # <<Note("SUBOK", r.id)>>
        /\ <<Note("UNSUB", r.id)>> # <<Note("SUBOK", r.id)>>
    BY DEF Replies, Note
  <2> QED
    BY <2>1 DEF ServerReceives
<1>5. \A id \in server : Known(id) => id \in server'
  BY <1>3, <1>4
<1>6. ASSUME NEW d \in calls'
      PROVE  d.request.session = session /\ StillGranted(d)'
  <2>1. PICK c \in calls : d = IF c.request = r /\ c.reply = "none" THEN [c EXCEPT !.reply = reply] ELSE c
    BY <1>4 DEF ServerSends
  <2>2. c.request.session = session /\ StillGranted(c)'
    BY <1>1, <1>5, OldCalls
  <2>3. CASE d = c
    BY <2>2, <2>3
  <2>4. CASE c.request = r /\ d = [c EXCEPT !.reply = reply]
    <3>1. d.request = r /\ d.reply = reply
      BY <1>t, <2>4 DEF TypeOK, Call
    <3> QED
      BY <1>4, <2>2, <2>4, <3>1 DEF StillGranted
  <2> QED
    BY <2>1, <2>3, <2>4
<1>7. ASSUME NEW n \in Posted'
      PROVE  StillTrue(n)'
  <2> DEFINE back == <<ReplyNote(r)>>
  <2>1. /\ ReplyNote(r) \in Notes /\ ReplyNote(r).event # "SUBOK"
        /\ Note("SUBOK", r.id) \in Notes /\ Note("UNSUB", r.id) \in Notes
        /\ Note("SUBOK", r.id).id = r.id /\ Note("UNSUB", r.id).event # "SUBOK"
    BY <1>3 DEF ReplyNote, Note, Notes
  <2>2. notes' = notes \o back \o told
    BY <1>4 DEF ServerSends
  <2>3. back \in Seq(Notes) /\ told \in Seq(Notes)
    BY <2>1, OneNote
  <2>4. CASE n \in Posted
    BY <1>1, <1>5, <2>4, OldNotes
  <2>5. CASE \E i \in 1..Len(back) : n = back[i]
    <3>1. n = ReplyNote(r)
      BY <2>5
    <3> QED
      BY <2>1, <3>1 DEF StillTrue
  <2>6. CASE \E i \in 1..Len(told) : n = told[i]
    <3>1. \/ told = <<Note("SUBOK", r.id)>> /\ n = Note("SUBOK", r.id)
          \/ n = Note("UNSUB", r.id)
      BY <2>6
    <3> QED
      BY <1>4, <2>1, <3>1 DEF StillTrue
  <2> HIDE DEF back
  <2> QED
    BY <1>t, <2>2, <2>3, <2>4, <2>5, <2>6, PostedMore
<1>8. Honest
  BY <1>1, <1>5, <1>6, <1>7 DEF Honest
<1> QED
  BY <1>2, <1>8, HonestStep

(* The other steps of requests and answers. *)
LEMMA OthersHonest ==
  ASSUME ~Http, IInv, WsInv,
         \/ SendBatch
         \/ \E c \in calls : OnOpen(c)
         \/ \E id \in server : ServerUpdate(id)
  PROVE  WsInv'
<1>t. TypeOK
  BY DEF IInv
<1>1. sessionAlive
  BY NetworkIsAlive DEF SendBatch
<1>2. CASE SendBatch
  <2>1. /\ UNCHANGED <<subscriptions, sessionAlive, session, tablePhaseType, server, notes>>
        /\ queued' = {} /\ Posted' = Posted
    BY <1>2 DEF SendBatch, tableVars, sessionVars, subVars, Posted
  <2>2. calls' = calls \cup {[request |-> r, opened |-> FALSE, reply |-> "none"] : r \in queued}
    BY <1>2 DEF SendBatch
  <2>3. \A d \in calls' : d \in calls \/ (d.request \in queued /\ d.reply = "none")
    BY <2>2
  <2>4. \A d \in calls' : d.request.session = session /\ StillGranted(d)'
    BY <2>1, <2>3, OldCalls DEF StillGranted, WsInv, OfThisSession
  <2>5. Honest
    BY <2>1, <2>4, OldNotes DEF Honest
  <2> QED
    BY <1>1, <2>5, HonestStep
<1>3. CASE \E c \in calls : OnOpen(c)
  <2>1. PICK c \in calls : OnOpen(c)
    BY <1>3
  <2>2. /\ UNCHANGED <<subscriptions, sessionAlive, session, queued, server, notes>>
        /\ calls' = (calls \ {c}) \cup {[c EXCEPT !.opened = TRUE]} /\ Posted' = Posted
    BY <2>1 DEF OnOpen, tableVars, sessionVars, Posted
  <2>3. [c EXCEPT !.opened = TRUE].request = c.request /\ [c EXCEPT !.opened = TRUE].reply = c.reply
    BY <1>t DEF TypeOK, Call
  <2>4. ASSUME NEW d \in calls'
        PROVE  d.request.session = session /\ StillGranted(d)'
    <3>1. PICK b \in calls : d.request = b.request /\ d.reply = b.reply
      BY <2>2, <2>3
    <3>2. b.request.session = session /\ StillGranted(b)'
      BY <2>2, OldCalls
    <3> QED
      BY <3>1, <3>2 DEF StillGranted
  <2>5. \A i \in Ids : Known(i) /\ tablePhaseType'[subscriptions[i]] = "PUSHING" => tablePhaseType[subscriptions[i]] = "PUSHING"
    <3>1. \/ UNCHANGED tablePhaseType
          \/ SetPhase({subscriptions[c.request.id]}, "SUBSCRIBING")
      BY <2>1 DEF OnOpen
    <3> QED
      BY <1>t, <3>1, KnownType DEF SetPhase
  <2>6. Honest
    BY <2>2, <2>4, <2>5, OldNotes DEF Honest
  <2> QED
    BY <1>1, <2>6, HonestStep
<1>4. CASE \E id \in server : ServerUpdate(id)
  <2>1. PICK id \in server : ServerUpdate(id)
    BY <1>4
  <2>2. /\ UNCHANGED <<subscriptions, sessionAlive, session, queued, server, calls, tablePhaseType>>
        /\ notes' = Append(notes, Note("U", id))
    BY <2>1 DEF ServerUpdate, tableVars, sessionVars, subVars
  <2>3. \A n \in Posted' : n \in Posted \/ n = Note("U", id)
    <3>1. notes \in Seq(Notes)
      BY <1>t DEF TypeOK
    <3> QED
      BY <2>2, <3>1, AppendProperties DEF Posted
  <2>4. ASSUME NEW n \in Posted'
        PROVE  StillTrue(n)'
    <3>1. CASE n \in Posted
      BY <2>2, <3>1, OldNotes
    <3>2. CASE n = Note("U", id)
      BY <3>2 DEF StillTrue, Note
    <3> QED
      BY <2>3, <3>1, <3>2
  <2>5. Honest
    BY <2>2, <2>4, OldCalls DEF Honest
  <2> QED
    BY <1>1, <2>5, HonestStep
<1> QED
  BY <1>2, <1>3, <1>4

(* A session that ends takes its network with it, and nothing is PUSHING.  *)
LEMMA CloseHonest ==
  ASSUME IInv, WsInv, NEW kept \in SUBSET OtherSessionsCalls, CloseSession(kept)
  PROVE  WsInv'
<1>t. TypeOK
  BY DEF IInv
<1>1. kept = {}
  BY DEF OtherSessionsCalls, WsInv, OfThisSession
<1>2. /\ sessionAlive' = FALSE /\ queued' = {} /\ calls' = {} /\ wire' = {} /\ notes' = <<>> /\ server' = {}
      /\ UNCHANGED subscriptions /\ SetPhase({s \in Subs : InTable(s)}, "PAUSED")
  BY <1>1 DEF CloseSession, tableVars
<1>3. Posted' = {}
  BY <1>2 DEF Posted
<1>4. PushingIsSubscribed'
  <2>1. \A id \in Ids : Known(id) => tablePhaseType'[subscriptions[id]] = "PAUSED"
    BY <1>t, <1>2, KnownType DEF SetPhase, InTable
  <2> QED
    BY <1>2, <2>1 DEF PushingIsSubscribed, Known
<1> QED
  BY <1>2, <1>3, <1>4 DEF WsInv, Ended, OfThisSession, AcceptedIsThere

(* doAdd and doRemove: nobody has heard of the new id, and a removed one    *)
(* is none of the known any more.                                           *)
LEMMA TableHonest ==
  ASSUME ~Http, IInv, WsInv, DoAdd \/ DoRemove
  PROVE  WsInv'
<1>t. TypeOK /\ FreshIds
  BY DEF IInv
<1>0. Head(tasks).sub \in Subs
  <2>1. Head(tasks) \in Tasks
    BY <1>t, HeadTailProperties DEF DoAdd, DoRemove, TypeOK
  <2> QED
    BY <2>1 DEF Tasks
<1>1. UNCHANGED <<sessionAlive, session, calls, wire, server, notes>>
  BY DEF DoAdd, DoRemove, sessionVars
<1>2. Ended'
  BY <1>1 DEF DoAdd, DoRemove, WsInv, Ended, pendingVars
<1>3. OfThisSession'
  <2>1. \A r \in queued' : r \in queued \/ r.session = session
    BY UnsubscribeNow DEF DoAdd, DoRemove, Enqueued, AddRequest, pendingVars
  <2> QED
    BY <1>1, <2>1 DEF WsInv, OfThisSession
<1>4. ASSUME NEW k \in Ids, Known(k)', DoAdd => k # lastId + 1
      PROVE  /\ Known(k) /\ subscriptions'[k] = subscriptions[k]
             /\ tablePhaseType'[subscriptions'[k]] = "PUSHING" => tablePhaseType[subscriptions[k]] = "PUSHING"
  <2>1. Known(k) /\ subscriptions'[k] = subscriptions[k]
    BY <1>t, <1>4 DEF DoAdd, DoRemove, Known, TypeOK
  <2>2. subscriptions[k] \in Subs
    BY <1>t, <2>1, KnownType
  <2>3. \A s \in Subs : tablePhaseType'[s] = "PUSHING" => tablePhaseType[s] = "PUSHING"
    BY <1>t DEF DoAdd, DoRemove, SetPhase, TypeOK
  <2> QED
    BY <2>1, <2>2, <2>3
<1>5. DoAdd => /\ lastId + 1 \notin server
               /\ \A n \in Posted : n.id # lastId + 1
               /\ \A c \in calls : c.request.id # lastId + 1
  <2>1. \A k \in Ids : k <= lastId => k # lastId + 1
    BY <1>t DEF TypeOK, Ids
  <2>2. \A n \in Posted : n.id \in Ids /\ n.id <= lastId
    BY <1>t, OldIds DEF FreshIds, Posted
  <2>3. \A c \in calls : c.request.id \in Ids /\ c.request.id <= lastId
    BY <1>t, OldIds DEF FreshIds, OnTheWay
  <2>4. \A k \in server : k \in Ids /\ k <= lastId
    BY <1>t DEF FreshIds, TypeOK
  <2> QED
    BY <2>1, <2>2, <2>3, <2>4
<1>6. AcceptedIsThere'
  <2>1. \A n \in Posted : n.id \in Ids /\ StillTrue(n) /\ (DoAdd => n.id # lastId + 1)
    BY <1>5, OldIds DEF Posted, WsInv, AcceptedIsThere
  <2>2. \A c \in calls : c.request.id \in Ids /\ StillGranted(c) /\ (DoAdd => c.request.id # lastId + 1)
    BY <1>5, OldIds DEF WsInv, AcceptedIsThere
  <2>3. \A n \in Posted : StillTrue(n)'
    BY <1>1, <1>4, <2>1 DEF StillTrue
  <2>4. \A c \in calls : StillGranted(c)'
    BY <1>1, <1>4, <2>2 DEF StillGranted
  <2>5. Posted' = Posted
    BY <1>1 DEF Posted
  <2> QED
    BY <1>1, <2>3, <2>4, <2>5 DEF AcceptedIsThere
<1>7. PushingIsSubscribed'
  <2> SUFFICES ASSUME NEW k \in Ids, Known(k)', tablePhaseType'[subscriptions'[k]] = "PUSHING"
               PROVE  sessionAlive /\ k \in server
    BY <1>1 DEF PushingIsSubscribed
  <2>1. CASE DoAdd /\ k = lastId + 1
    <3>1. subscriptions'[k] = Head(tasks).sub
      BY <1>t, <2>1 DEF DoAdd, TypeOK
    <3>2. tablePhaseType'[Head(tasks).sub] \in {"WAITING", "PAUSED"}
      BY <1>t, <1>0, <2>1 DEF DoAdd, SetPhase, TypeOK
    <3> QED
      BY <3>1, <3>2
  <2>2. CASE DoAdd => k # lastId + 1
    BY <1>4, <2>2 DEF WsInv, PushingIsSubscribed
  <2> QED
    BY <2>1, <2>2
<1> QED
  BY <1>2, <1>3, <1>6, <1>7 DEF WsInv

(* A session that is created or starts, and steps that change none of this. *)
LEMMA SessionHonest ==
  ASSUME ~Http, IInv, WsInv, AliveIsReady,
         \/ SessionCreate
         \/ SessionStart
         \/ \E s \in Subs : ClientSubscribe(s) \/ ClientUnsubscribe(s)
         \/ \E r \in timers : Timeout(r)
         \/ UNCHANGED vars
  PROVE  WsInv'
<1>t. TypeOK
  BY DEF IInv
<1>1. CASE SessionStart
  <2>1. /\ UNCHANGED <<subscriptions, session, calls, wire, server, notes>>
        /\ ~sessionAlive /\ sessionAlive' = TRUE
        /\ SetPhase({s \in Subs : InTable(s)}, "WAITING")
    BY <1>1 DEF SessionStart, tableVars
  <2>2. \A r \in queued' : r \in queued \/ r.session = session
    BY <1>1 DEF SessionStart, AddRequest
  <2>3. \A id \in Ids : Known(id) => tablePhaseType'[subscriptions[id]] = "WAITING"
    BY <1>t, <2>1, KnownType DEF SetPhase, InTable
  <2>4. Posted' = Posted /\ \A id : Known(id)' <=> Known(id)
    BY <2>1 DEF Posted, Known
  <2>5. Ended' /\ OfThisSession'
    BY <2>1, <2>2 DEF WsInv, Ended, OfThisSession
  <2>6. AcceptedIsThere'
    BY <2>1, <2>4 DEF WsInv, AcceptedIsThere, StillTrue, StillGranted
  <2>7. PushingIsSubscribed'
    BY <2>1, <2>3, <2>4 DEF PushingIsSubscribed
  <2> QED
    BY <2>5, <2>6, <2>7 DEF WsInv
<1>2. ASSUME /\ UNCHANGED <<subscriptions, sessionAlive, tablePhaseType, queued, calls, wire, server, notes>>
             /\ session' = session \/ ~sessionAlive
      PROVE  WsInv'
  <2>1. Posted' = Posted /\ \A id : Known(id)' <=> Known(id)
    BY <1>2 DEF Posted, Known
  <2>2. Ended' /\ OfThisSession'
    BY <1>2 DEF WsInv, Ended, OfThisSession
  <2>3. AcceptedIsThere' /\ PushingIsSubscribed'
    BY <1>2, <2>1 DEF WsInv, AcceptedIsThere, StillTrue, StillGranted, PushingIsSubscribed
  <2> QED
    BY <2>2, <2>3 DEF WsInv
<1>3. CASE SessionCreate
  BY <1>2, <1>3 DEF SessionCreate, AliveIsReady, tableVars, subVars, networkVars
<1>4. CASE \E r \in timers : Timeout(r)
  BY <1>2, <1>4 DEF Timeout, tableVars, subVars, sessionVars
<1>5. CASE \E s \in Subs : ClientSubscribe(s) \/ ClientUnsubscribe(s)
  BY <1>2, <1>5 DEF ClientSubscribe, ClientUnsubscribe, tableVars, sessionVars, networkVars
<1>6. CASE UNCHANGED vars
  BY <1>2, <1>6 DEF vars, tableVars, subVars, sessionVars, networkVars
<1> QED
  BY <1>1, <1>3, <1>4, <1>5, <1>6

(* Every step over WebSocket keeps the answers on their way true. *)
LEMMA NextWsInv ==
  ASSUME ~Http, IInv, WsInv, AliveIsReady, [Next]_vars
  PROVE  WsInv'
<1>1. CASE \E goToSleep \in BOOLEAN : SessionClose(goToSleep)
  <2>1. CloseSession(OtherSessionsCalls)
    BY <1>1 DEF SessionClose
  <2> QED
    BY <2>1, CloseHonest
<1>2. CASE \E c \in calls : CallBroken(c) \/ OnAnswer(c)
  <2>1. PICK c \in calls : CallBroken(c) \/ OnAnswer(c)
    BY <1>2
  <2>2. ~CallBroken(c)
    BY DEF CallBroken
  <2>3. CASE OnLateEvent(c)
    <3>1. OtherSessionsCalls \ {c} \in SUBSET OtherSessionsCalls
      OBVIOUS
    <3> QED
      BY <2>3, <3>1, CloseHonest DEF OnLateEvent, OnFatalError
  <2> QED
    BY <2>1, <2>2, <2>3, AnswerHonest
<1> QED
  BY <1>1, <1>2, ReadNoteHonest, ServerReceivesHonest, OthersHonest, TableHonest, SessionHonest DEF Next

(* Over WebSocket, where control requests share the stream connection, a    *)
(* subscription the client holds as subscribed is subscribed on the server. *)
THEOREM PushingOverWebSocket ==
  ASSUME ~Http
  PROVE  Spec => []PushingIsSubscribed
<1>1. Init => WsInv
  BY DEF Init, WsInv, Ended, OfThisSession, AcceptedIsThere, Posted, PushingIsSubscribed, Known
<1>2. (IInv /\ TInv) /\ WsInv /\ [Next]_vars => WsInv'
  BY NextWsInv DEF TInv
<1>3. WsInv => PushingIsSubscribed
  BY DEF WsInv
<1> QED
  BY <1>1, <1>2, <1>3, TutorsInductive, PTL DEF Spec
=============================================================================
