----------------------- MODULE WebSocketRequestManager -----------------------
(***************************************************************************)
(* protocol/WebSocketRequestManager and transport/WebSocket: the bind and    *)
(* the control requests of a session over a WebSocket that may be still     *)
(* opening, be replaced by another when the server names a control link,    *)
(* break, take too long or be closed.                                       *)
(*                                                                          *)
(* Everything runs on the session thread.  What the network reports there   *)
(* is a task in its queue, which finds the socket as it is by then: net     *)
(* says what is under way on each socket, and tasks of one socket keep      *)
(* their order.                                                             *)
(*                                                                          *)
(* Reverse heartbeats do not come here: SessionWS.sendReverseHeartbeat is    *)
(* left empty.  The future of the opening is left out: see Session.         *)
(***************************************************************************)
EXTENDS Naturals, Sequences, SequencesExt

CONSTANTS
  Requests,     (* control requests, each with an LS_reqId of its own       *)
  MaxSockets,   (* bound: sockets opened by one manager                     *)
  MaxBinds      (* bound: calls of bindSession                              *)

ASSUME WebSocketAssumption ==
  MaxSockets \in Nat \ {0} /\ MaxBinds \in Nat /\ {"none", "bind"} \cap Requests = {}

VARIABLES
  wsTransport,           (* the current socket, or 0 for none               *)
  state,                 (* WebSocket.getState of each socket               *)
  net,                   (* what the network does or has just reported      *)
  abortTasks,            (* sockets whose abort is scheduled                *)
  bindRequest,           (* is there a pending bind                         *)
  controlRequestQueue,
  ongoingRequest,
  pendingRequestMap,
  unwritten,             (* frames sent whose listener was not told onOpen  *)
  frames,                (* every frame sent on each socket                 *)
  sent,                  (* every control request sent                      *)
  handed,                (* what copyTo gave to the next manager            *)
  binds                  (* calls of bindSession so far                     *)

sockets  == <<wsTransport, state, net, abortTasks>>
requests == <<bindRequest, controlRequestQueue, ongoingRequest>>
history  == <<unwritten, frames, sent>>
wsVars   == <<sockets, requests, pendingRequestMap, history, handed, binds>>

Sockets == 1..MaxSockets
None    == "none"
Bind    == "bind"
States  == {"NOT_CONNECTED", "CONNECTING", "CONNECTED", "DISCONNECTED", "BROKEN", "UNEXPECTED_ERROR"}
Frames  == Requests \cup {Bind}

WsTypeOK ==
  /\ wsTransport \in {0} \cup Sockets
  /\ state \in [Sockets -> States]
  /\ net \in [Sockets -> {"none", "opening", "opened", "up", "failed", "down"}]
  /\ abortTasks \subseteq Sockets
  /\ bindRequest \in BOOLEAN
  /\ controlRequestQueue \in Seq(Requests)
  /\ ongoingRequest \in Requests \cup {None}
  /\ pendingRequestMap \subseteq Requests
  /\ unwritten \in [Sockets -> Seq(Frames)] /\ frames \in [Sockets -> Seq(Frames)]
  /\ sent \in Seq(Requests) /\ handed \in Seq(Requests)
  /\ binds \in 0..MaxBinds
-----------------------------------------------------------------------------
(* The state a request finds: there may be no transport at all. *)
Transport == IF wsTransport = 0 THEN "NO_TRANSPORT" ELSE state[wsTransport]

(* sendBindRequest and sendControlRequest: the frames go to the socket that *)
(* is current, each request in turn becoming the ongoing one.               *)
Send(reqs, withBind) ==
  LET sending == IF withBind THEN <<Bind>> \o reqs ELSE reqs
  IN  /\ unwritten' = [unwritten EXCEPT ![wsTransport] = @ \o sending]
      /\ frames' = [frames EXCEPT ![wsTransport] = @ \o sending]
      /\ sent' = sent \o reqs
      /\ ongoingRequest' = IF reqs = <<>> THEN ongoingRequest ELSE Last(reqs)

(* WebSocket.close.  Its stream listener is disabled and hears no more. *)
Closed(states) == IF wsTransport = 0 THEN states ELSE [states EXCEPT ![wsTransport] = "DISCONNECTED"]

(* WebSocket.open, of the constructor: the connection may also fail on the   *)
(* spot, and the listener is told so like of any other that breaks. *)
Open(s) ==
  \/ /\ state' = [Closed(state) EXCEPT ![s] = "CONNECTING"]
     /\ net' = [net EXCEPT ![s] = "opening"]
  \/ /\ state' = [Closed(state) EXCEPT ![s] = "UNEXPECTED_ERROR"]
     /\ net' = [net EXCEPT ![s] = "failed"]

(* openWS. *)
Unused == {s \in Sockets : state[s] = "NOT_CONNECTED"}
OpenWS ==
  \E s \in Unused :
    /\ \A u \in Unused : s <= u
    /\ wsTransport' = s
    /\ abortTasks' = abortTasks \cup {s}
    /\ Open(s)

(* SessionWS opens the socket early, and again when the first answer of the *)
(* server names a control link: always before the session binds. *)
OpenWebSocketConnection ==
  /\ binds = 0 /\ handed = <<>>
  /\ OpenWS
  /\ UNCHANGED <<requests, pendingRequestMap, history, handed, binds>>

(* A session binds again only after the server looped the bind it got. *)
MayBind == binds = 0 \/ \E s \in Sockets : Bind \in ToSet(frames[s]) /\ Bind \notin ToSet(unwritten[s])

(* bindSession. *)
BindSession ==
  /\ binds < MaxBinds /\ handed = <<>> /\ MayBind
  /\ binds' = binds + 1
  /\ \/ /\ Transport = "NO_TRANSPORT"
        /\ bindRequest' = TRUE
        /\ OpenWS
        /\ UNCHANGED <<controlRequestQueue, ongoingRequest, history>>
     \/ /\ Transport = "CONNECTED"
        /\ Send(<<>>, TRUE)
        /\ UNCHANGED <<sockets, bindRequest, controlRequestQueue>>
     \/ /\ Transport = "CONNECTING"
        /\ bindRequest' = TRUE
        /\ UNCHANGED <<sockets, controlRequestQueue, ongoingRequest, history>>
     \/ /\ Transport \notin {"NO_TRANSPORT", "CONNECTED", "CONNECTING"}
        /\ UNCHANGED <<sockets, requests, history>>
  /\ UNCHANGED <<pendingRequestMap, handed>>

(* addRequest.  A request that finds a socket neither open nor opening is   *)
(* dropped, though it stays among those that wait for an answer. *)
AddRequest(r) ==
  /\ r \notin pendingRequestMap \cup ToSet(sent) /\ handed = <<>>
  /\ pendingRequestMap' = pendingRequestMap \cup {r}
  /\ \/ /\ Transport \in {"NO_TRANSPORT", "CONNECTING"}
        /\ controlRequestQueue' = Append(controlRequestQueue, r)
        /\ UNCHANGED <<ongoingRequest, history>>
     \/ /\ Transport = "CONNECTED"
        /\ Send(<<r>>, FALSE)
        /\ UNCHANGED controlRequestQueue
     \/ /\ Transport \notin {"NO_TRANSPORT", "CONNECTED", "CONNECTING"}
        /\ UNCHANGED <<controlRequestQueue, ongoingRequest, history>>
  /\ UNCHANGED <<sockets, bindRequest, handed, binds>>
-----------------------------------------------------------------------------
(* The network.                                                            *)
NetOpens(s) ==
  /\ net[s] = "opening"
  /\ net' = [net EXCEPT ![s] = "opened"]
  /\ UNCHANGED <<wsTransport, state, abortTasks, requests, pendingRequestMap, history, handed, binds>>
NetFails(s) ==
  /\ net[s] \in {"opening", "up"}
  /\ net' = [net EXCEPT ![s] = "failed"]
  /\ UNCHANGED <<wsTransport, state, abortTasks, requests, pendingRequestMap, history, handed, binds>>

(* MySessionRequestListener discards what comes after its close. *)
Hears(s) == state[s] # "DISCONNECTED"

(* Mutant: the queue keeps what was sent. *)
SendPendingKeeping ==
  /\ Send(controlRequestQueue, bindRequest)
  /\ bindRequest' = FALSE /\ UNCHANGED controlRequestQueue
(* MyConnectionListener.onOpen: the pending bind goes first, then the queue  *)
(* in order. *)
SendPending ==
  /\ Send(controlRequestQueue, bindRequest)
  /\ bindRequest' = FALSE /\ controlRequestQueue' = <<>>

(* MySessionRequestListener.onOpen. *)
OnOpen(s) ==
  /\ net[s] = "opened"
  /\ net' = [net EXCEPT ![s] = "up"]
  /\ \/ ~Hears(s) /\ UNCHANGED <<state, requests, history>>
     \/ Hears(s) /\ state' = [state EXCEPT ![s] = "CONNECTED"] /\ SendPending
  /\ UNCHANGED <<wsTransport, abortTasks, pendingRequestMap, handed, binds>>

(* MySessionRequestListener.onClosed: the server closed the socket, and only *)
(* the stream hears of it.  The state stays as it is, so requests go on to    *)
(* be written to a socket that is no more. *)
OnClosed(s) ==
  /\ net[s] = "up"
  /\ net' = [net EXCEPT ![s] = "down"]
  /\ UNCHANGED <<wsTransport, state, abortTasks, requests, pendingRequestMap, history, handed, binds>>

(* Mutant: the state takes the word of the network. *)
OnBrokenVerbatim(s) ==
  /\ net[s] = "failed"
  /\ net' = [net EXCEPT ![s] = "down"]
  /\ state' = IF Hears(s) THEN [state EXCEPT ![s] = net[s]] ELSE state
  /\ UNCHANGED <<wsTransport, abortTasks, requests, pendingRequestMap, history, handed, binds>>

(* MySessionRequestListener.onBroken. *)
OnBroken(s) ==
  /\ net[s] = "failed"
  /\ net' = [net EXCEPT ![s] = "down"]
  /\ state' = IF Hears(s) THEN [state EXCEPT ![s] = "BROKEN"] ELSE state
  /\ UNCHANGED <<wsTransport, abortTasks, requests, pendingRequestMap, history, handed, binds>>

(* ListenerWrapper.onOpen: a frame was written. *)
DoOpen(s) ==
  /\ unwritten[s] # <<>>
  /\ unwritten' = [unwritten EXCEPT ![s] = Tail(@)]
  /\ ongoingRequest' = IF Head(unwritten[s]) = Bind THEN ongoingRequest ELSE None
  /\ UNCHANGED <<sockets, bindRequest, controlRequestQueue, pendingRequestMap, frames, sent, handed, binds>>

(* processREQOK and processREQERR, with getAndRemoveRequestListener. *)
OnAnswer(r) ==
  /\ r \in pendingRequestMap
  /\ \E s \in Sockets : r \in ToSet(frames[s]) /\ net[s] = "up" /\ Hears(s)
  /\ pendingRequestMap' = pendingRequestMap \ {r}
  /\ UNCHANGED <<sockets, requests, history, handed, binds>>

(* The task that aborts an opening that takes too long.  It holds a bare     *)
(* pointer: for a socket replaced or closed since, it reads freed memory,    *)
(* and whatever it finds there it changes nothing of a live socket.          *)
Abort(s) ==
  /\ s \in abortTasks
  /\ abortTasks' = abortTasks \ {s}
  /\ state' = IF s = wsTransport /\ state[s] \in {"CONNECTING", "UNEXPECTED_ERROR"}
              THEN [state EXCEPT ![s] = "DISCONNECTED"] ELSE state
  /\ UNCHANGED <<wsTransport, net, requests, pendingRequestMap, history, handed, binds>>

(* close, as TextProtocolWS.stop and the handle of the stream call it. *)
Close ==
  /\ wsTransport # 0
  /\ state' = Closed(state)
  /\ wsTransport' = 0
  /\ UNCHANGED <<net, abortTasks, requests, pendingRequestMap, history, handed, binds>>

(* copyTo, called by the constructor of the next Session; the previous one  *)
(* is then shut down in the same task. *)
CopyTo ==
  /\ handed = <<>>
  /\ handed' = (IF ongoingRequest = None THEN <<>> ELSE <<ongoingRequest>>) \o controlRequestQueue
  /\ ongoingRequest' = None /\ controlRequestQueue' = <<>>
  /\ state' = Closed(state)
  /\ wsTransport' = 0
  /\ UNCHANGED <<net, abortTasks, bindRequest, pendingRequestMap, history, binds>>
-----------------------------------------------------------------------------
WsInit ==
  /\ wsTransport = 0 /\ state = [s \in Sockets |-> "NOT_CONNECTED"] /\ net = [s \in Sockets |-> "none"]
  /\ abortTasks = {} /\ bindRequest = FALSE /\ controlRequestQueue = <<>> /\ ongoingRequest = None
  /\ pendingRequestMap = {} /\ unwritten = [s \in Sockets |-> <<>>] /\ frames = [s \in Sockets |-> <<>>]
  /\ sent = <<>> /\ handed = <<>> /\ binds = 0

WsNext ==
  \/ OpenWebSocketConnection \/ BindSession \/ Close \/ CopyTo
  \/ \E r \in Requests : AddRequest(r) \/ OnAnswer(r)
  \/ \E s \in Sockets : NetOpens(s) \/ NetFails(s) \/ OnOpen(s) \/ OnClosed(s) \/ OnBroken(s) \/ DoOpen(s) \/ Abort(s)

WsSpec == WsInit /\ [][WsNext]_wsVars
-----------------------------------------------------------------------------
(* Properties.                                                             *)

(* The manager implements the channel of control requests: each accepted    *)
(* request reaches the wire once and in order, however many sockets that    *)
(* takes, or the next manager.                                              *)
Channel == INSTANCE ControlChannel WITH pending <- controlRequestQueue, delivered <- sent
ImplementsChannel == Channel!Spec
=============================================================================
