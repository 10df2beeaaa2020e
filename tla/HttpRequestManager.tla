------------------------- MODULE HttpRequestManager -------------------------
(***************************************************************************)
(* client/protocol/HttpRequestManager.hpp and BatchRequest.hpp: the control *)
(* channel of a session over HTTP.  Requests are queued by kind, and one    *)
(* batch of one queue at a time travels on a control connection.            *)
(*                                                                          *)
(* Every handler is a task of the session thread, so it is one atomic       *)
(* action.  What interleaves is the order of the tasks: requests added,     *)
(* tutors that change their mind, the deferred dequeue, the events of the   *)
(* connection, the server's limit, the close and the hand-over to the       *)
(* manager of a new stream connection.                                      *)
(*                                                                          *)
(* A request is a model value with its queue, the key BatchRequest files it *)
(* under and the length of its query string.  It may be added again once it *)
(* has left the queue, also while an earlier copy is on the wire: this      *)
(* stands for retransmissions and for later requests of the same shape.     *)
(***************************************************************************)
EXTENDS Integers, FiniteSets, SequencesExt, RecursiveData

CONSTANTS
  Requests,       (* the requests the client may make                       *)
  Kind,           (* the queue of a request                                 *)
  Key,            (* its key in BatchRequest.keys                           *)
  Length,         (* the length of its query string                         *)
  Limits,         (* request limits the server may set, 0 for none          *)
  Connections,    (* RequestHandle objects of the transport                 *)
  NoHandle,       (* nullptr                                                *)
  Wild,           (* what the uninitialised pointer holds when not nullptr  *)
  PhaseModulus,   (* bound: statusPhase wraps around here                   *)
  MaxCloses       (* bound: calls of close                                  *)

(* The four batches, numbered as initializeInstanceFields lines them up. *)
Message   == 0
Control   == 1
Destroy   == 2
Heartbeat == 3
Queues    == 0..3

ASSUME RequestsAssumption ==
  /\ Kind \in [Requests -> Queues]
  /\ Length \in [Requests -> Nat \ {0}]
ASSUME HandlesAssumption ==
  /\ NoHandle \notin Connections
  /\ Wild \notin Connections \cup {NoHandle}
ASSUME BoundsAssumption ==
  /\ Limits \subseteq Nat
  /\ 0 \in Limits
  /\ PhaseModulus \in Nat
  /\ PhaseModulus > MaxCloses + 1   (* no dequeue waits for as many changes *)
  /\ MaxCloses \in Nat

VARIABLES
  status,            (* IDLE, WAITING, ENDING or END                        *)
  statusPhase,       (* bumped by every changeStatus                        *)
  nextQueue,         (* the queue that had the last turn                    *)
  queues,            (* the requests of each BatchRequest, in order         *)
  requestLimit,      (* the limit of a request's body, 0 for none           *)
  ongoingRequests,   (* sent, and their connection has not ended            *)
  activeConnection,  (* the handle of the connection awaited                *)
  deferredDequeue,   (* the phase captured by the queued dequeue, or -1     *)
  unwanted,          (* requests whose tutor says they should not be sent   *)
  batch,             (* what each open connection carries, <<>> if not open *)
  opened,            (* connections whose onOpen was delivered              *)
  lost,              (* connections the transport could not create          *)
  closes             (* how many times close was called                     *)

managerVars == <<status, statusPhase, nextQueue, queues, ongoingRequests, activeConnection>>
networkVars == <<batch, opened, lost>>
vars == <<managerVars, requestLimit, deferredDequeue, unwanted, networkVars, closes>>

Open(c)   == batch[c] # <<>>
Queued(r) == Contains(queues[Kind[r]], r)
Sent(r)   == \E c \in Connections : Contains(batch[c], r)
Live      == status \in {"IDLE", "WAITING"}

(* A BatchRequest is a map with the order of its keys: here a sequence that *)
(* names no key twice.                                                      *)
IsBatch(q) == q \in Seq(Requests) /\ \A i, j \in DOMAIN q : Key[q[i]] = Key[q[j]] => i = j

TypeOK ==
  /\ status \in {"IDLE", "WAITING", "ENDING", "END"}
  /\ statusPhase \in 0..PhaseModulus - 1
  /\ nextQueue \in Queues
  /\ DOMAIN queues = Queues /\ \A q \in Queues : IsBatch(queues[q])
  /\ requestLimit \in Limits
  /\ ongoingRequests \in Seq(Requests)
  /\ activeConnection \in Connections \cup {NoHandle, Wild}
  /\ deferredDequeue \in -1..PhaseModulus - 1
  /\ unwanted \subseteq Requests
  /\ batch \in [Connections -> Seq(Requests)]
  /\ opened \subseteq Connections
  /\ lost \subseteq Connections
  /\ closes \in 0..MaxCloses
-----------------------------------------------------------------------------
(* Helpers.                                                                *)

Phase(k) == (statusPhase + k) % PhaseModulus

(* Mutant: the deferred dequeue remembers the phase before the change. *)
PhaseBeforeChange == statusPhase
CapturedPhase == Phase(1)

(* Mutant: a request is dequeued at once whatever the manager waits for. *)
DequeuesUnlessDismissed == Live
DequeuesAtOnce == status = "IDLE"

(* Mutant: the end of a connection leaves the list of ongoing requests. *)
NeverCleared(ended) == ongoingRequests
StillOngoing(ended) == IF ended = {} THEN ongoingRequests ELSE <<>>

(* Requests s added in order to the queue q: one with the key of a queued   *)
(* request takes its place, whose tutor is told of the abort.               *)
SameKey(q, r) == {i \in DOMAIN q : Key[q[i]] = Key[r]}
(* Mutant: no substitution. *)
PutLast(q, s) == q \o s
Put(q, s) ==
  [i \in DOMAIN q |-> IF \E r \in Range(s) : i \in SameKey(q, r)
                      THEN CHOOSE r \in Range(s) : i \in SameKey(q, r)
                      ELSE q[i]]
  \o Kept(s, {r \in Requests : SameKey(q, r) = {}})

Wanted(q, u) == Kept(q, Requests \ u)

(* The requests of a batch are joined by "\r\n". *)
BatchLength(s) ==
  LET total[n \in 0..Len(s)] == IF n = 0 THEN 0 ELSE total[n - 1] + Length[s[n]]
  IN  IF s = <<>> THEN 0 ELSE total[Len(s)] + 2 * (Len(s) - 1)

(* The test of sendBatch before it takes the n-th request of q. *)
Fits(q, u, n) ==
  \/ requestLimit = 0
  \/ BatchLength(Wanted(SubSeq(q, 1, n - 1), u)) + Length[q[n]] < requestLimit

(* How many requests sendBatch takes out of q: those up to the first wanted *)
(* one, whatever its length, then one after the other while they fit.       *)
Taken(q, u) ==
  LET first == Min({i \in DOMAIN q : q[i] \notin u})
  IN  Max({n \in first..Len(q) : \A i \in first + 1..n : Fits(q, u, i)})

(* dequeueControlRequests of the queues qs: the next one in turn that holds *)
(* a wanted request is sent, those skipped on the way lose their unwanted   *)
(* requests.  k is the count of status changes up to the one to WAITING.    *)
(* ended holds the connections whose end is being handled, late the control *)
(* requests added later in the same task.  The handle is missing when the   *)
(* transport fails to create the connection: its onBroken is on the way.    *)
(* Mutant: no turns, the first queue always comes first. *)
TurnFromFirst(k) == k - 1
Turn(k)      == (nextQueue + k) % 4
Turns(qs, u) == {k \in 1..4 : Wanted(qs[Turn(k)], u) # <<>>}
SendNext(qs, u, k, ended, late) ==
  LET turn  == Min(Turns(qs, u))
      q     == Turn(turn)
      n     == Taken(qs[q], u)
      sent  == Wanted(SubSeq(qs[q], 1, n), u)
      rest  == [i \in Queues |-> IF i = q THEN SubSeq(qs[q], n + 1, Len(qs[q]))
                                 ELSE IF \E j \in 1..turn - 1 : i = Turn(j) THEN <<>>
                                 ELSE qs[i]]
  IN  /\ nextQueue' = q
      /\ queues' = [rest EXCEPT ![Control] = Put(@, late)]
      /\ status' = "WAITING"
      /\ statusPhase' = Phase(k)
      /\ ongoingRequests' = StillOngoing(ended) \o sent
      /\ opened' = opened \ ended
      /\ \E c \in Connections :
           /\ Open(c) => c \in ended
           /\ batch' = [d \in Connections |-> IF d = c THEN sent
                                              ELSE IF d \in ended THEN <<>> ELSE batch[d]]
           /\ \/ activeConnection' = c        /\ lost' = lost \ ended
              \/ activeConnection' = NoHandle /\ lost' = (lost \ ended) \cup {c}
-----------------------------------------------------------------------------
(* The requests.                                                           *)

(* addRequest.  A manager that is ENDING or ended throws and keeps nothing. *)
(* addToProperBatch spells out messages and heartbeats and leaves "Similar   *)
(* checks and casts for other request types" to a comment: here the others   *)
(* go to their queues too, through the overloads BatchRequest has for them.  *)
AddRequest(r) ==
  /\ Live
  /\ ~Queued(r)
  /\ unwanted' = unwanted \ {r}
  /\ LET added == [queues EXCEPT ![Kind[r]] = Put(@, <<r>>)]
     IN  IF DequeuesAtOnce
         THEN SendNext(added, unwanted \ {r}, 1, {}, <<>>)
         ELSE /\ queues' = added
              /\ UNCHANGED <<status, statusPhase, nextQueue, ongoingRequests,
                             activeConnection, networkVars>>
  /\ UNCHANGED <<requestLimit, deferredDequeue, closes>>

(* A control request is no longer worth sending: shouldBeSent turns FALSE. *)
Lapse(r) ==
  /\ Kind[r] = Control
  /\ r \notin unwanted
  /\ Queued(r) \/ Sent(r)
  /\ unwanted' = unwanted \cup {r}
  /\ UNCHANGED <<managerVars, requestLimit, deferredDequeue, networkVars, closes>>

(* The dequeue queued by onComplete runs. *)
DeferredDequeue ==
  /\ deferredDequeue # -1
  /\ deferredDequeue' = -1
  /\ \/ /\ deferredDequeue # statusPhase \/ status \in {"WAITING", "END"}
        /\ UNCHANGED <<managerVars, networkVars>>
     \/ /\ deferredDequeue = statusPhase /\ status = "ENDING"
        /\ status' = "END"
        /\ statusPhase' = Phase(1)
        /\ UNCHANGED <<nextQueue, queues, ongoingRequests, activeConnection, networkVars>>
     \/ /\ deferredDequeue = statusPhase /\ status = "IDLE"
        /\ Turns(queues, unwanted) # {}
        /\ SendNext(queues, unwanted, 1, {}, <<>>)
     \/ /\ deferredDequeue = statusPhase /\ status = "IDLE"
        /\ Turns(queues, unwanted) = {}
        /\ queues' = [q \in Queues |-> <<>>]
        /\ UNCHANGED <<status, statusPhase, nextQueue, ongoingRequests,
                       activeConnection, networkVars>>
  /\ UNCHANGED <<requestLimit, unwanted, closes>>
-----------------------------------------------------------------------------
(* The events of a connection.  The transport queues them on the session    *)
(* thread after the connection was requested, so a dequeue that was waiting *)
(* then has run.                                                            *)

(* BatchedListener.onOpen: from here on the tutors wait for their timeout. *)
OnOpen(c) ==
  /\ Open(c)
  /\ c \notin opened \cup lost
  /\ deferredDequeue = -1
  /\ status # "END"
  /\ opened' = opened \cup {c}
  /\ UNCHANGED <<managerVars, requestLimit, deferredDequeue, unwanted, batch, lost, closes>>

(* BatchedListener.onClosed and onBroken, with onComplete and the listeners *)
(* of the batch: when the connection never opened, each tells its tutor to  *)
(* recover, which adds the control requests that still count.  The first of *)
(* them finds the manager IDLE and is dequeued at once.  In ENDING it finds *)
(* the manager ended, and addRequest throws.                                *)
Recovered(c) ==
  IF c \in opened THEN <<>>
  ELSE Kept(batch[c], {r \in Requests : Kind[r] = Control} \ unwanted)

OnComplete(c) ==
  /\ deferredDequeue' = CapturedPhase
  /\ LET again == Recovered(c)
     IN  IF again # <<>>
         THEN SendNext([queues EXCEPT ![Control] = Put(@, <<Head(again)>>)], unwanted, 2, {c}, Tail(again))
         ELSE /\ status' = "IDLE"
              /\ statusPhase' = Phase(1)
              /\ activeConnection' = NoHandle
              /\ ongoingRequests' = StillOngoing({c})
              /\ batch' = [batch EXCEPT ![c] = <<>>]
              /\ opened' = opened \ {c}
              /\ lost' = lost \ {c}
              /\ UNCHANGED <<nextQueue, queues>>

ConnectionEnds(c) ==
  /\ Open(c)
  /\ deferredDequeue = -1
  /\ IF Live THEN OnComplete(c)
     ELSE /\ ongoingRequests' = StillOngoing({c})
          /\ batch' = [batch EXCEPT ![c] = <<>>]
          /\ opened' = opened \ {c}
          /\ lost' = lost \ {c}
          /\ IF status = "ENDING"
             THEN status' = "END" /\ statusPhase' = Phase(1) /\ activeConnection' = NoHandle
             ELSE UNCHANGED <<status, statusPhase, activeConnection>>
          /\ UNCHANGED <<nextQueue, queues, deferredDequeue>>
  /\ UNCHANGED <<requestLimit, unwanted, closes>>
-----------------------------------------------------------------------------
(* The end of the session.                                                 *)

SetRequestLimit(limit) ==
  /\ limit # requestLimit
  /\ requestLimit' = limit
  /\ UNCHANGED <<managerVars, deferredDequeue, unwanted, networkVars, closes>>

(* The connection that close shuts: not one that destroys a session. *)
(* Mutant: judged by the queue whose turn comes next. *)
ShutByNextTurn == {activeConnection} \cap (IF Turn(1) = Destroy THEN {} ELSE Connections)
Shut == {activeConnection} \cap (IF nextQueue = Destroy THEN {} ELSE Connections)

(* What close does to the manager and the network.  A connection closed by  *)
(* its handle reports nothing any more.  A close through the wild pointer   *)
(* does nothing here; should it end the process, the behaviour just stops.  *)
DoClose(waitPending) ==
  /\ closes < MaxCloses
  /\ closes' = closes + 1
  /\ statusPhase' = Phase(1)
  /\ IF ~waitPending \/ activeConnection = NoHandle
     THEN /\ status' = "END"
          /\ batch' = [c \in Connections |-> IF c \in Shut THEN <<>> ELSE batch[c]]
          /\ opened' = opened \ Shut
          /\ lost' = lost \ Shut
     ELSE status' = "ENDING" /\ UNCHANGED networkVars
  /\ UNCHANGED <<nextQueue, activeConnection, requestLimit, deferredDequeue, unwanted>>

Close(waitPending) ==
  DoClose(waitPending) /\ UNCHANGED <<queues, ongoingRequests>>

(* A new stream connection takes over: copyTo gives its manager the ongoing *)
(* and the queued requests, then this one is closed.                        *)
CopyTo ==
  /\ DoClose(FALSE)
  /\ ongoingRequests' = <<>>
  /\ queues' = [q \in Queues |-> <<>>]

Init ==
  /\ status = "IDLE"
  /\ statusPhase = 1
  /\ nextQueue = 0
  /\ queues = [q \in Queues |-> <<>>]
  /\ requestLimit = 0
  /\ ongoingRequests = <<>>
  /\ activeConnection \in {NoHandle, Wild}   (* the field is not initialised *)
  /\ deferredDequeue = -1
  /\ unwanted = {}
  /\ batch = [c \in Connections |-> <<>>]
  /\ opened = {}
  /\ lost = {}
  /\ closes = 0

Next ==
  \/ \E r \in Requests : AddRequest(r) \/ Lapse(r)
  \/ DeferredDequeue
  \/ \E c \in Connections : OnOpen(c) \/ ConnectionEnds(c)
  \/ \E limit \in Limits : SetRequestLimit(limit)
  \/ \E waitPending \in BOOLEAN : Close(waitPending)
  \/ CopyTo

Spec == Init /\ [][Next]_vars

(* The session thread runs its tasks, and a connection ends some time, be it *)
(* by the timeouts it was created with.  Each formula is the part of an      *)
(* action that tells its steps from those of every other one, which keeps    *)
(* ENABLED cheap: only DeferredDequeue clears deferredDequeue, only the end  *)
(* of a live manager's connection sets it, and later only the end of a       *)
(* connection, or a close that ends it, clears batch.                        *)
DequeueRuns  == deferredDequeue # -1 /\ deferredDequeue' = -1
Completes(c) == Open(c) /\ Live /\ deferredDequeue = -1 /\ deferredDequeue' \in 0..PhaseModulus - 1
Ends(c)      == Open(c) /\ ~Live /\ deferredDequeue = -1 /\ batch' = [batch EXCEPT ![c] = <<>>]
Fairness ==
  /\ WF_deferredDequeue(DequeueRuns)
  /\ \A c \in Connections : WF_deferredDequeue(Completes(c)) /\ WF_batch(Ends(c))
FairSpec == Spec /\ Fairness
-----------------------------------------------------------------------------
(* Properties.                                                             *)

(* Never more than one control connection: requests made meanwhile wait for *)
(* its end.                                                                 *)
OneConnection == \A c, d \in Connections : Open(c) /\ Open(d) => c = d

(* No lost wakeup: an idle manager holding requests has a dequeue under way *)
(* that will not be discarded for its phase.                                *)
NoLostWakeup ==
  status = "IDLE" /\ (\E q \in Queues : queues[q] # <<>>) => deferredDequeue = statusPhase

(* The status tells what is on the wire.  The list that copyTo hands to the *)
(* next manager holds exactly what is there, in the order it was sent; and  *)
(* a session that ends for good leaves no control connection behind, except *)
(* one that destroys a session or one the transport never handed out.       *)
OngoingIsOnTheWire ==
  /\ status = "IDLE" => ongoingRequests = <<>> /\ \A c \in Connections : ~Open(c)
  /\ status = "WAITING" => \E c \in Connections : batch[c] = ongoingRequests /\ Open(c)
  /\ status = "END" => \A c \in Connections : Open(c) =>
                         c \in lost \/ Kind[Head(batch[c])] = Destroy

(* The queues take turns: however many requests keep coming, a queued one   *)
(* leaves its queue, sent or aborted, unless the manager is closed first.   *)
Served == \A r \in Requests : Queued(r) /\ Live ~> ~Queued(r) \/ ~Live

(* Documentation of the class (HttpRequestManager.hpp:58-61): the server's  *)
(* limit is respected unless a single request surpasses it.                 *)
LimitRespected ==
  [][\A c \in Connections :
       batch'[c] # batch[c] /\ Len(batch'[c]) > 1 /\ requestLimit # 0 =>
         BatchLength(batch'[c]) <= requestLimit]_vars

(* ControlRequestHandler.hpp:71: close waits for pending requests "before   *)
(* closing", so the manager does close once they are over.                  *)
EndingEnds == status = "ENDING" ~> status = "END"
=============================================================================
