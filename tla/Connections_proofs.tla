-------------------------- MODULE Connections_proofs --------------------------
(****************************************************************************)
(* For every set of requests, providers and listeners and any number of     *)
(* sockets and streams: the manager of a WebSocket is a channel of control  *)
(* requests, a channel of the pool has one user, the session hears of its   *)
(* newest stream connection, of each message once, a listener of a future   *)
(* hears of it once, and the server never gets an older value.              *)
(****************************************************************************)
EXTENDS WebSocketRequestManager, WebSocketPool, StreamConnections, ListenableFuture,
        StreamMessages, ChangeRequests, DataLemmas, FiniteSetTheorems, SequenceTheorems, TLAPS

-----------------------------------------------------------------------------
(* The control requests of a WebSocket. *)

(* The sockets: only the current one is connecting or connected, or hears    *)
(* of the network, and it was opened. *)
LiveSocket(s) == state[s] \notin {"NOT_CONNECTED", "DISCONNECTED"}
SocketTypes ==
  /\ wsTransport \in {0} \cup Sockets
  /\ state \in [Sockets -> States]
  /\ net \in [Sockets -> {"none", "opening", "opened", "up", "failed", "down"}]
OthersAreClosed ==
  \A s \in Sockets : /\ LiveSocket(s) => s = wsTransport
                     /\ state[s] = "NOT_CONNECTED" => net[s] = "none" /\ s # wsTransport
SInv == SocketTypes /\ OthersAreClosed

(* The requests: those that wait, or are on a socket, are told apart from a  *)
(* new one, and the ongoing is the last sent. *)
RequestTypes ==
  /\ controlRequestQueue \in Seq(Requests) /\ sent \in Seq(Requests) /\ handed \in Seq(Requests)
  /\ unwritten \in [Sockets -> Seq(Frames)] /\ frames \in [Sockets -> Seq(Frames)]
  /\ ongoingRequest \in Requests \cup {None}
QueueIsPending ==
  /\ Range(controlRequestQueue) \subseteq pendingRequestMap
  /\ Range(controlRequestQueue) \cap Range(sent) = {}
FramesAreSent == \A s \in Sockets : Range(frames[s]) \subseteq Range(sent) \cup {Bind}
OngoingIsLast == ongoingRequest # None => sent # <<>> /\ ongoingRequest = Last(sent)
RInv == RequestTypes /\ QueueIsPending /\ FramesAreSent /\ OngoingIsLast

(* No request waits for a socket that is open. *)
NoneWaitsForOpen == Transport = "CONNECTED" => controlRequestQueue = <<>>
WsIInv == SInv /\ RInv /\ NoneWaitsForOpen

(* A step of the channel, or none. *)
ChannelStep == [Channel!Next]_(Channel!channelVars)
-----------------------------------------------------------------------------
(* The sockets.                                                            *)

(* A socket that opens is current, and the one before it closed.            *)
LEMMA OpenStep ==
  ASSUME SInv, OpenWS
  PROVE  SInv' /\ Transport' # "CONNECTED"
<1>1. PICK s \in Sockets : state[s] = "NOT_CONNECTED" /\ wsTransport' = s /\ Open(s)
  BY DEF OpenWS, Unused
<1>2. Closed(state) \in [Sockets -> States]
  BY DEF SInv, SocketTypes, Closed, States
<1>3. \A t \in Sockets : Closed(state)[t] = IF t = wsTransport THEN "DISCONNECTED" ELSE state[t]
  BY DEF SInv, SocketTypes, Closed, Sockets
<1>4. /\ state' \in [Sockets -> States] /\ state'[s] \in {"CONNECTING", "UNEXPECTED_ERROR"}
      /\ \A t \in Sockets \ {s} : state'[t] = Closed(state)[t] /\ net'[t] = net[t]
      /\ net' \in [Sockets -> {"none", "opening", "opened", "up", "failed", "down"}]
  BY <1>1, <1>2 DEF Open, SInv, SocketTypes, States
<1>5. SocketTypes'
  BY <1>1, <1>4 DEF SocketTypes
<1>6. OthersAreClosed'
  BY <1>1, <1>3, <1>4 DEF SInv, OthersAreClosed, LiveSocket
<1>7. Transport' # "CONNECTED"
  BY <1>1, <1>4 DEF Transport, Sockets
<1> QED
  BY <1>5, <1>6, <1>7 DEF SInv

(* Closing the current socket leaves none. *)
LEMMA ClosedStep ==
  ASSUME SInv, state' = Closed(state), wsTransport' = 0, UNCHANGED net
  PROVE  SInv' /\ Transport' = "NO_TRANSPORT"
<1>1. state' \in [Sockets -> States]
  BY DEF SInv, SocketTypes, Closed, States
<1>2. \A t \in Sockets : state'[t] = IF t = wsTransport THEN "DISCONNECTED" ELSE state[t]
  BY DEF SInv, SocketTypes, Closed, Sockets
<1> QED
  BY <1>1, <1>2 DEF SInv, SocketTypes, OthersAreClosed, LiveSocket, Transport, Sockets

(* What the network does keeps the sockets in order, and connects none. *)
LEMMA NetworkStep ==
  ASSUME SInv, NEW s \in Sockets, NetOpens(s) \/ NetFails(s) \/ OnClosed(s) \/ OnBroken(s) \/ Abort(s)
  PROVE  SInv' /\ (Transport' = "CONNECTED" => Transport = "CONNECTED")
<1>1. CASE NetOpens(s) \/ NetFails(s) \/ OnClosed(s)
  BY <1>1 DEF SInv, SocketTypes, OthersAreClosed, LiveSocket, Transport, NetOpens, NetFails, OnClosed
<1>2. CASE OnBroken(s) \/ Abort(s)
  BY <1>2 DEF SInv, SocketTypes, OthersAreClosed, LiveSocket, Transport, OnBroken, Abort, Hears, States, Sockets
<1> QED
  BY <1>1, <1>2

(* Only the current socket hears that it opened. *)
LEMMA OnOpenIsCurrent ==
  ASSUME SInv, NEW s \in Sockets, OnOpen(s)
  PROVE  SInv' /\ (Hears(s) => s = wsTransport) /\ (~Hears(s) => Transport' = Transport)
BY DEF SInv, SocketTypes, OthersAreClosed, LiveSocket, Transport, OnOpen, Hears, States
-----------------------------------------------------------------------------
(* The requests.                                                           *)

(* The two names of the elements of a sequence.                             *)
LEMMA ToSetIsRange == \A f : ToSet(f) = Range(f)
BY DEF ToSet, Range

(* An empty sequence has no elements. *)
LEMMA EmptyRange == Range(<<>>) = {}
BY DEF Range

(* The last of what is added to a sequence is its last.                     *)
LEMMA LastOfConcat ==
  ASSUME NEW S, NEW s \in Seq(S), NEW t \in Seq(S), t # <<>>
  PROVE  s \o t # <<>> /\ Last(s \o t) = Last(t) /\ Last(t) \in S
<1>1. Len(t) \in Nat \ {0} /\ Len(s) \in Nat
  BY EmptySeq, LenProperties
<1>2. Len(s \o t) = Len(s) + Len(t) /\ (s \o t)[Len(s) + Len(t)] = t[Len(t)]
  BY <1>1, ConcatProperties
<1>3. t[Len(t)] \in S
  BY <1>1, ElementOfSeq
<1>4. s \o t # <<>>
  BY <1>1, <1>2, EmptySeq
<1> QED
  BY <1>2, <1>3, <1>4 DEF Last

(* What is sent is on the current socket and among what was sent. *)
LEMMA SendRequestStep ==
  ASSUME SInv, RInv, wsTransport # 0, NEW reqs \in Seq(Requests), NEW withBind, Send(reqs, withBind)
  PROVE  /\ sent' = sent \o reqs /\ sent' \in Seq(Requests) /\ Range(sent') = Range(sent) \cup Range(reqs)
         /\ unwritten' \in [Sockets -> Seq(Frames)] /\ frames' \in [Sockets -> Seq(Frames)]
         /\ ongoingRequest' \in Requests \cup {None}
         /\ FramesAreSent' /\ OngoingIsLast'
<1> DEFINE sending == IF withBind THEN <<Bind>> \o reqs ELSE reqs
<1>t. wsTransport \in Sockets /\ RequestTypes /\ FramesAreSent /\ OngoingIsLast
  BY DEF SInv, SocketTypes, RInv
<1>1. sent' = sent \o reqs /\ sent' \in Seq(Requests) /\ Range(sent') = Range(sent) \cup Range(reqs)
  BY <1>t, ConcatProperties, RangeConcatenation DEF Send, RequestTypes
<1>2. reqs \in Seq(Frames) /\ <<Bind>> \in Seq(Frames) /\ Range(<<Bind>>) = {Bind}
  <2>1. reqs \in Seq(Frames)
    BY SeqMonotonic DEF Frames
  <2>2. Bind \in Frames
    BY DEF Frames
  <2>3. <<Bind>> \in Seq(Frames)
    BY <2>2
  <2>4. Range(<<Bind>>) = {Bind}
    BY DEF Range
  <2> QED
    BY <2>1, <2>3, <2>4
<1>3. sending \in Seq(Frames) /\ Range(sending) \subseteq Range(reqs) \cup {Bind}
  <2>1. <<Bind>> \o reqs \in Seq(Frames) /\ Range(<<Bind>> \o reqs) = {Bind} \cup Range(reqs)
    BY <1>2, ConcatProperties, RangeConcatenation, SMTT(30)
  <2> QED
    BY <1>2, <2>1
<1>4. /\ unwritten' = [unwritten EXCEPT ![wsTransport] = @ \o sending]
      /\ frames' = [frames EXCEPT ![wsTransport] = @ \o sending]
  BY DEF Send
<1> HIDE DEF sending
<1>5. \A s \in Sockets : unwritten[s] \in Seq(Frames) /\ frames[s] \in Seq(Frames)
  BY <1>t DEF RequestTypes
<1>6. /\ unwritten[wsTransport] \o sending \in Seq(Frames)
      /\ frames[wsTransport] \o sending \in Seq(Frames)
      /\ Range(frames[wsTransport] \o sending) = Range(frames[wsTransport]) \cup Range(sending)
  BY <1>t, <1>3, <1>5, ConcatProperties, RangeConcatenation
<1>7. unwritten' \in [Sockets -> Seq(Frames)] /\ frames' \in [Sockets -> Seq(Frames)]
  BY <1>t, <1>4, <1>6 DEF RequestTypes
<1>8. FramesAreSent'
  <2>1. \A s \in Sockets : frames'[s] = IF s = wsTransport THEN frames[wsTransport] \o sending ELSE frames[s]
    BY <1>t, <1>4 DEF RequestTypes
  <2> QED
    BY <1>t, <1>1, <1>3, <1>6, <2>1 DEF FramesAreSent
<1>9. ongoingRequest' \in Requests \cup {None} /\ OngoingIsLast'
  <2>1. CASE reqs = <<>>
    <3>1. sent' = sent
      BY <1>t, <1>1, <2>1, ConcatEmptySeq DEF RequestTypes
    <3>2. ongoingRequest' = ongoingRequest
      BY <2>1 DEF Send
    <3> QED
      BY <1>t, <3>1, <3>2 DEF OngoingIsLast, RequestTypes, Last
  <2>2. CASE reqs # <<>>
    <3>1. ongoingRequest' = Last(reqs)
      BY <2>2 DEF Send
    <3>2. sent' # <<>> /\ Last(sent') = Last(reqs) /\ Last(reqs) \in Requests
      BY <1>t, <1>1, <2>2, LastOfConcat DEF RequestTypes
    <3> QED
      BY <3>1, <3>2 DEF OngoingIsLast, Last
  <2> QED
    BY <2>1, <2>2
<1> QED
  BY <1>1, <1>7, <1>8, <1>9

(* What a request adds to a queue. *)
LEMMA AppendedRange ==
  ASSUME NEW S, NEW s \in Seq(S), NEW e \in S
  PROVE  Append(s, e) \in Seq(S) /\ Range(Append(s, e)) = Range(s) \cup {e}
<1> DEFINE one == <<e>>
<1>1. Append(s, e) = s \o one /\ one \in Seq(S) /\ Range(one) = {e}
  BY AppendIsConcat DEF Range
<1> HIDE DEF one
<1>2. s \o one \in Seq(S)
  BY <1>1, ConcatProperties
<1>3. Range(s \o one) = Range(s) \cup Range(one)
  BY <1>1, RangeConcatenation
<1> QED
  BY <1>1, <1>2, <1>3

(* A request that is neither pending nor sent is new to the channel. *)
LEMMA FreshRequest ==
  ASSUME RInv, handed = <<>>, NEW r, r \notin pendingRequestMap, r \notin Range(sent)
  PROVE  Channel!Fresh(r)
<1>t. controlRequestQueue \in Seq(Requests) /\ sent \in Seq(Requests)
  BY DEF RInv, RequestTypes
<1>1. controlRequestQueue \o sent \o handed = controlRequestQueue \o sent
  BY <1>t, ConcatProperties, ConcatEmptySeq
<1>2. Range(controlRequestQueue \o sent) = Range(controlRequestQueue) \cup Range(sent)
  BY <1>t, RangeConcatenation
<1>3. Channel!ToSet(controlRequestQueue \o sent) = Range(controlRequestQueue \o sent)
  BY DEF Channel!ToSet, Range
<1>4. r \notin Range(controlRequestQueue)
  BY DEF RInv, QueueIsPending
<1> QED
  BY <1>1, <1>2, <1>3, <1>4 DEF Channel!Fresh

(* A step that leaves the requests alone is none of the channel. *)
LEMMA QuietStep ==
  ASSUME RInv, UNCHANGED <<requests, pendingRequestMap, history, handed>>
  PROVE  RInv' /\ ChannelStep
BY DEF RInv, RequestTypes, QueueIsPending, FramesAreSent, OngoingIsLast, requests, history, ChannelStep, Channel!channelVars
-----------------------------------------------------------------------------
(* The channel, step by step.                                              *)

(* A request is accepted, passed on at once or refused. *)
LEMMA AddRequestStep ==
  ASSUME WsIInv, NEW r \in Requests, AddRequest(r)
  PROVE  WsIInv' /\ ChannelStep
<1>t. SInv /\ RInv /\ RequestTypes /\ QueueIsPending /\ FramesAreSent /\ OngoingIsLast
  BY DEF WsIInv, RInv
<1>s. SInv' /\ Transport' = Transport
  BY <1>t DEF AddRequest, sockets, SInv, SocketTypes, OthersAreClosed, LiveSocket, Transport
<1>g. /\ r \notin pendingRequestMap /\ r \notin Range(sent) /\ handed = <<>> /\ handed' = handed
      /\ pendingRequestMap' = pendingRequestMap \cup {r}
  BY ToSetIsRange DEF AddRequest
<1>1. CASE Transport \in {"NO_TRANSPORT", "CONNECTING"}
  <2>1. controlRequestQueue' = Append(controlRequestQueue, r) /\ UNCHANGED <<ongoingRequest, history>>
    BY <1>1 DEF AddRequest
  <2>2. /\ controlRequestQueue' \in Seq(Requests)
        /\ Range(controlRequestQueue') = Range(controlRequestQueue) \cup {r}
    BY <1>t, <2>1, AppendedRange DEF RequestTypes
  <2>3. RInv'
    BY <1>t, <1>g, <2>1, <2>2
    DEF RInv, RequestTypes, QueueIsPending, FramesAreSent, OngoingIsLast, history
  <2>4. Channel!Fresh(r)
    BY <1>t, <1>g, FreshRequest DEF WsIInv
  <2>5. Channel!Accept(r)
    BY <1>g, <2>1, <2>4 DEF Channel!Accept, history
  <2> QED
    BY <1>1, <1>s, <2>3, <2>5 DEF WsIInv, NoneWaitsForOpen, ChannelStep, Channel!Next
<1>2. CASE Transport = "CONNECTED"
  <2>1. Send(<<r>>, FALSE) /\ UNCHANGED controlRequestQueue /\ wsTransport # 0
    BY <1>2 DEF AddRequest, Transport
  <2>2. <<r>> \in Seq(Requests) /\ Range(<<r>>) = {r} /\ Append(sent, r) = sent \o <<r>>
    BY <1>t, AppendIsConcat DEF Range, RequestTypes
  <2>3. /\ sent' = Append(sent, r) /\ sent' \in Seq(Requests) /\ Range(sent') = Range(sent) \cup {r}
        /\ unwritten' \in [Sockets -> Seq(Frames)] /\ frames' \in [Sockets -> Seq(Frames)]
        /\ ongoingRequest' \in Requests \cup {None}
        /\ FramesAreSent' /\ OngoingIsLast'
    BY <1>t, <2>1, <2>2, SendRequestStep
  <2>4. RInv'
    BY <1>t, <1>g, <2>1, <2>3 DEF RInv, RequestTypes, QueueIsPending
  <2>5. controlRequestQueue = <<>>
    BY <1>2 DEF WsIInv, NoneWaitsForOpen
  <2>6. Channel!Fresh(r)
    BY <1>t, <1>g, FreshRequest DEF WsIInv
  <2>7. Channel!PassOn(r)
    BY <1>g, <2>1, <2>3, <2>5, <2>6 DEF Channel!PassOn
  <2> QED
    BY <1>s, <2>1, <2>4, <2>5, <2>7 DEF WsIInv, NoneWaitsForOpen, ChannelStep, Channel!Next
<1>3. CASE Transport \notin {"NO_TRANSPORT", "CONNECTED", "CONNECTING"}
  <2>1. UNCHANGED <<controlRequestQueue, ongoingRequest, history>>
    BY <1>3 DEF AddRequest
  <2>2. RInv'
    BY <1>t, <1>g, <2>1 DEF RInv, RequestTypes, QueueIsPending, FramesAreSent, OngoingIsLast, history
  <2> QED
    BY <1>s, <1>g, <2>1, <2>2, <1>3 DEF WsIInv, NoneWaitsForOpen, ChannelStep, Channel!channelVars, history
<1> QED
  BY <1>1, <1>2, <1>3

(* The pending bind and the queue go out as the current socket opens. *)
LEMMA OnOpenStep ==
  ASSUME WsIInv, NEW s \in Sockets, OnOpen(s)
  PROVE  WsIInv' /\ ChannelStep
<1>t. SInv /\ RInv /\ RequestTypes /\ QueueIsPending
  BY DEF WsIInv, RInv
<1>s. SInv' /\ (Hears(s) => s = wsTransport) /\ (~Hears(s) => Transport' = Transport)
  BY <1>t, OnOpenIsCurrent
<1>1. CASE ~Hears(s)
  <2>1. UNCHANGED <<requests, pendingRequestMap, history, handed>>
    BY <1>1 DEF OnOpen
  <2>2. RInv' /\ ChannelStep
    BY <1>t, <2>1, QuietStep
  <2> QED
    BY <1>1, <1>s, <2>1, <2>2 DEF WsIInv, NoneWaitsForOpen, requests
<1>2. CASE Hears(s)
  <2>1. /\ Send(controlRequestQueue, bindRequest) /\ controlRequestQueue' = <<>>
        /\ UNCHANGED <<pendingRequestMap, handed>> /\ wsTransport # 0
    BY <1>2, <1>s DEF OnOpen, SendPending, Sockets
  <2>2. /\ sent' = sent \o controlRequestQueue /\ sent' \in Seq(Requests)
        /\ unwritten' \in [Sockets -> Seq(Frames)] /\ frames' \in [Sockets -> Seq(Frames)]
        /\ ongoingRequest' \in Requests \cup {None}
        /\ FramesAreSent' /\ OngoingIsLast'
    BY <1>t, <2>1, SendRequestStep DEF RequestTypes
  <2>3. RInv'
    BY <1>t, <2>1, <2>2, EmptySeq, EmptyRange DEF RInv, RequestTypes, QueueIsPending
  <2>4. Channel!Flush
    BY <2>1, <2>2 DEF Channel!Flush
  <2> QED
    BY <1>s, <2>1, <2>3, <2>4 DEF WsIInv, NoneWaitsForOpen, ChannelStep, Channel!Next
<1> QED
  BY <1>1, <1>2

(* A bind opens a socket, is sent at once, waits or is dropped: no request   *)
(* goes with it. *)
LEMMA BindSessionStep ==
  ASSUME WsIInv, BindSession
  PROVE  WsIInv' /\ ChannelStep
<1>t. SInv /\ RInv /\ RequestTypes /\ QueueIsPending
  BY DEF WsIInv, RInv
<1>g. UNCHANGED <<controlRequestQueue, pendingRequestMap, handed>>
  BY DEF BindSession, requests
<1>1. CASE Transport = "CONNECTED"
  <2>1. Send(<<>>, TRUE) /\ UNCHANGED sockets /\ wsTransport # 0 /\ <<>> \in Seq(Requests)
    BY <1>1, EmptySeq DEF BindSession, Transport
  <2>2. /\ sent' = sent /\ unwritten' \in [Sockets -> Seq(Frames)] /\ frames' \in [Sockets -> Seq(Frames)]
        /\ ongoingRequest' \in Requests \cup {None} /\ FramesAreSent' /\ OngoingIsLast'
    BY <1>t, <2>1, SendRequestStep, ConcatEmptySeq DEF RequestTypes
  <2>3. RInv'
    BY <1>t, <1>g, <2>2 DEF RInv, RequestTypes, QueueIsPending
  <2>4. SInv' /\ Transport' = Transport
    BY <1>t, <2>1 DEF sockets, SInv, SocketTypes, OthersAreClosed, LiveSocket, Transport
  <2> QED
    BY <1>g, <2>2, <2>3, <2>4 DEF WsIInv, NoneWaitsForOpen, ChannelStep, Channel!channelVars
<1>2. CASE Transport # "CONNECTED"
  <2>1. UNCHANGED <<ongoingRequest, history>> /\ (OpenWS \/ UNCHANGED sockets)
    BY <1>2 DEF BindSession, requests
  <2>2. SInv' /\ Transport' # "CONNECTED"
    <3>1. CASE OpenWS
      BY <1>t, <3>1, OpenStep
    <3>2. CASE UNCHANGED sockets
      BY <1>t, <1>2, <3>2 DEF sockets, SInv, SocketTypes, OthersAreClosed, LiveSocket, Transport
    <3> QED
      BY <2>1, <3>1, <3>2
  <2>3. RInv' /\ ChannelStep
    BY <1>t, <1>g, <2>1
    DEF RInv, RequestTypes, QueueIsPending, FramesAreSent, OngoingIsLast, history, ChannelStep, Channel!channelVars
  <2> QED
    BY <2>2, <2>3 DEF WsIInv, NoneWaitsForOpen
<1> QED
  BY <1>1, <1>2

(* The next manager is given the ongoing request, the last one sent, and     *)
(* those that wait. *)
LEMMA CopyToStep ==
  ASSUME WsIInv, CopyTo
  PROVE  WsIInv' /\ ChannelStep
<1>t. SInv /\ RInv /\ RequestTypes /\ OngoingIsLast
  BY DEF WsIInv, RInv
<1>s. SInv' /\ Transport' = "NO_TRANSPORT"
  BY <1>t, ClosedStep DEF CopyTo
<1>1. /\ ongoingRequest' = None /\ controlRequestQueue' = <<>> /\ UNCHANGED <<history, pendingRequestMap>>
      /\ handed = <<>>
  BY DEF CopyTo
<1>2. handed' \in Seq(Requests) /\ Channel!HandOver
  <2>1. CASE ongoingRequest = None
    <3>1. handed' = controlRequestQueue
      BY <1>t, <2>1, ConcatEmptySeq DEF CopyTo, RequestTypes
    <3> QED
      BY <1>t, <1>1, <3>1 DEF Channel!HandOver, RequestTypes, history
  <2>2. CASE ongoingRequest # None
    <3>1. handed' = <<Last(sent)>> \o controlRequestQueue /\ sent # <<>> /\ Last(sent) \in Requests
      BY <1>t, <2>2 DEF CopyTo, OngoingIsLast, RequestTypes
    <3>2. <<Last(sent)>> \in Seq(Requests)
      BY <3>1
    <3>3. handed' \in Seq(Requests)
      BY <1>t, <3>1, <3>2, ConcatProperties DEF RequestTypes
    <3> QED
      BY <1>1, <3>1, <3>3 DEF Channel!HandOver, Channel!Last, Last, history
  <2> QED
    BY <2>1, <2>2
<1>3. RInv'
  BY <1>t, <1>1, <1>2, EmptySeq, EmptyRange
  DEF RInv, RequestTypes, QueueIsPending, FramesAreSent, OngoingIsLast, history
<1> QED
  BY <1>s, <1>2, <1>3 DEF WsIInv, NoneWaitsForOpen, ChannelStep, Channel!Next

(* A frame was written: the ongoing request is no more so. *)
LEMMA DoOpenStep ==
  ASSUME WsIInv, NEW s \in Sockets, DoOpen(s)
  PROVE  WsIInv' /\ ChannelStep
<1>t. SInv /\ RInv /\ RequestTypes
  BY DEF WsIInv, RInv
<1>1. /\ UNCHANGED <<sockets, controlRequestQueue, pendingRequestMap, frames, sent, handed>>
      /\ ongoingRequest' \in {ongoingRequest, None} /\ unwritten[s] # <<>>
      /\ unwritten' = [unwritten EXCEPT ![s] = Tail(@)]
  BY DEF DoOpen
<1>2. Tail(unwritten[s]) \in Seq(Frames)
  BY <1>t, <1>1, HeadTailProperties DEF RequestTypes
<1>3. unwritten' \in [Sockets -> Seq(Frames)]
  BY <1>t, <1>1, <1>2 DEF RequestTypes
<1>4. RInv' /\ ChannelStep
  BY <1>t, <1>1, <1>3
  DEF RInv, RequestTypes, QueueIsPending, FramesAreSent, OngoingIsLast, ChannelStep, Channel!channelVars
<1>5. SInv' /\ Transport' = Transport
  BY <1>t, <1>1 DEF sockets, SInv, SocketTypes, OthersAreClosed, LiveSocket, Transport
<1> QED
  BY <1>1, <1>4, <1>5 DEF WsIInv, NoneWaitsForOpen

(* What is answered was sent and waits no more. *)
LEMMA OnAnswerStep ==
  ASSUME WsIInv, NEW r \in Requests, OnAnswer(r)
  PROVE  WsIInv' /\ ChannelStep
<1>t. SInv /\ RInv
  BY DEF WsIInv
<1>1. pendingRequestMap' = pendingRequestMap \ {r} /\ UNCHANGED <<sockets, requests, history, handed>>
  BY DEF OnAnswer
<1>2. r \in Range(sent)
  <2>1. PICK s \in Sockets : r \in Range(frames[s])
    BY ToSetIsRange DEF OnAnswer
  <2>2. r # Bind
    BY WebSocketAssumption DEF Bind
  <2> QED
    BY <1>t, <2>1, <2>2 DEF RInv, FramesAreSent
<1>3. RInv' /\ ChannelStep
  BY <1>t, <1>1, <1>2
  DEF RInv, RequestTypes, QueueIsPending, FramesAreSent, OngoingIsLast, requests, history, ChannelStep, Channel!channelVars
<1>4. SInv' /\ Transport' = Transport
  BY <1>t, <1>1 DEF sockets, SInv, SocketTypes, OthersAreClosed, LiveSocket, Transport
<1> QED
  BY <1>1, <1>3, <1>4 DEF WsIInv, NoneWaitsForOpen, requests

(* The other steps concern a socket alone. *)
LEMMA SocketStep ==
  ASSUME WsIInv,
         \/ OpenWebSocketConnection \/ Close
         \/ \E s \in Sockets : NetOpens(s) \/ NetFails(s) \/ OnClosed(s) \/ OnBroken(s) \/ Abort(s)
  PROVE  WsIInv' /\ ChannelStep
<1>t. SInv /\ RInv
  BY DEF WsIInv
<1>1. UNCHANGED <<requests, pendingRequestMap, history, handed>>
  BY DEF OpenWebSocketConnection, Close, NetOpens, NetFails, OnClosed, OnBroken, Abort
<1>2. SInv' /\ (Transport' = "CONNECTED" => Transport = "CONNECTED")
  <2>1. CASE OpenWebSocketConnection
    BY <1>t, <2>1, OpenStep DEF OpenWebSocketConnection
  <2>2. CASE Close
    BY <1>t, <2>2, ClosedStep DEF Close
  <2>3. ASSUME NEW s \in Sockets, NetOpens(s) \/ NetFails(s) \/ OnClosed(s) \/ OnBroken(s) \/ Abort(s)
        PROVE  SInv' /\ (Transport' = "CONNECTED" => Transport = "CONNECTED")
    BY <1>t, <2>3, NetworkStep
  <2> QED
    BY <2>1, <2>2, <2>3
<1>3. RInv' /\ ChannelStep
  BY <1>t, <1>1, QuietStep
<1> QED
  BY <1>1, <1>2, <1>3 DEF WsIInv, NoneWaitsForOpen, requests
-----------------------------------------------------------------------------
(* The initial states of the manager are those of the channel. *)
LEMMA WsInitStep ==
  ASSUME WsInit
  PROVE  WsIInv /\ Channel!Init
<1>1. SInv /\ Transport = "NO_TRANSPORT"
  BY DEF WsInit, SInv, SocketTypes, OthersAreClosed, LiveSocket, States, Transport
<1>2. RInv
  BY EmptySeq, EmptyRange DEF WsInit, RInv, RequestTypes, QueueIsPending, FramesAreSent, OngoingIsLast
<1> QED
  BY <1>1, <1>2 DEF WsInit, WsIInv, NoneWaitsForOpen, Channel!Init

(* Every step keeps the invariant, and is one of the channel or none. *)
LEMMA WsNextStep ==
  ASSUME WsIInv, [WsNext]_wsVars
  PROVE  WsIInv' /\ ChannelStep
<1>1. CASE UNCHANGED wsVars
  <2>1. UNCHANGED <<sockets, requests, pendingRequestMap, history, handed>>
    BY <1>1 DEF wsVars
  <2>2. RInv' /\ ChannelStep
    BY <2>1, QuietStep DEF WsIInv
  <2> QED
    BY <2>1, <2>2
    DEF WsIInv, SInv, SocketTypes, OthersAreClosed, LiveSocket, NoneWaitsForOpen, Transport, sockets, requests
<1>2. CASE WsNext
  <2>1. ASSUME NEW r \in Requests, AddRequest(r) \/ OnAnswer(r)
        PROVE  WsIInv' /\ ChannelStep
    BY <2>1, AddRequestStep, OnAnswerStep
  <2>2. ASSUME NEW s \in Sockets, OnOpen(s) \/ DoOpen(s)
        PROVE  WsIInv' /\ ChannelStep
    BY <2>2, OnOpenStep, DoOpenStep
  <2> QED
    BY <1>2, <2>1, <2>2, BindSessionStep, CopyToStep, SocketStep DEF WsNext
<1> QED
  BY <1>1, <1>2

(* In every state the requests that wait are told apart from those sent, and *)
(* none waits for a socket that is open. *)
THEOREM WsInductive == WsSpec => []WsIInv
<1>1. WsInit => WsIInv
  BY WsInitStep
<1>2. WsIInv /\ [WsNext]_wsVars => WsIInv'
  BY WsNextStep
<1> QED
  BY <1>1, <1>2, PTL DEF WsSpec

(* The manager implements the channel of control requests: what it accepts   *)
(* reaches the wire once and in order, over however many sockets, or the      *)
(* next manager. *)
THEOREM ManagerIsAChannel == WsSpec => ImplementsChannel
<1>1. WsInit => Channel!Init
  BY WsInitStep
<1>2. WsIInv /\ [WsNext]_wsVars => [Channel!Next]_(Channel!channelVars)
  BY WsNextStep DEF ChannelStep
<1> QED
  BY <1>1, <1>2, WsInductive, PTL DEF WsSpec, ImplementsChannel, Channel!Spec

(* The types of the rest: what is given to the manager. *)
WsRest ==
  abortTasks \subseteq Sockets /\ bindRequest \in BOOLEAN /\ pendingRequestMap \subseteq Requests /\ binds \in 0..MaxBinds
(* Every step keeps them. *)
LEMMA WsRestStep ==
  ASSUME WsRest, [WsNext]_wsVars
  PROVE  WsRest'
<1> USE DEF WsRest
<1>1. CASE OpenWebSocketConnection
  BY <1>1 DEF OpenWebSocketConnection, OpenWS, Unused, requests
<1>2. CASE BindSession
  <2>1. binds' \in 0..MaxBinds
    BY <1>2, WebSocketAssumption DEF BindSession
  <2>2. abortTasks' \subseteq Sockets /\ bindRequest' \in BOOLEAN
    BY <1>2 DEF BindSession, OpenWS, Unused, requests, sockets
  <2> QED
    BY <1>2, <2>1, <2>2 DEF BindSession
<1>3. CASE \E r \in Requests : AddRequest(r)
  BY <1>3 DEF AddRequest, sockets
<1>4. ASSUME NEW s \in Sockets, NetOpens(s) \/ NetFails(s) \/ OnClosed(s) \/ OnBroken(s) PROVE WsRest'
  BY <1>4 DEF NetOpens, NetFails, OnClosed, OnBroken, requests
<1>5. ASSUME NEW s \in Sockets, OnOpen(s) PROVE WsRest'
  BY <1>5 DEF OnOpen, SendPending, requests
<1>6. ASSUME NEW s \in Sockets, DoOpen(s) \/ Abort(s) PROVE WsRest'
  BY <1>6 DEF DoOpen, Abort, requests, sockets
<1>7. CASE \E r \in Requests : OnAnswer(r)
  BY <1>7 DEF OnAnswer, requests, sockets
<1>8. CASE Close \/ CopyTo
  BY <1>8 DEF Close, CopyTo, requests
<1>9. CASE UNCHANGED wsVars
  BY <1>9 DEF wsVars, sockets, requests
<1> QED
  BY <1>1, <1>2, <1>3, <1>4, <1>5, <1>6, <1>7, <1>8, <1>9 DEF WsNext

(* The types of the manager and its sockets. *)
LEMMA WsTyped == WsSpec => []WsTypeOK
<1>1. WsInit => WsRest
  <2>1. 0 \in 0..MaxBinds
    BY WebSocketAssumption
  <2> QED
    BY <2>1, Zenon DEF WsInit, WsRest
<1>2. WsIInv /\ WsRest => WsTypeOK
  BY DEF WsIInv, SInv, SocketTypes, RInv, RequestTypes, WsTypeOK, WsRest
<1> QED
  BY <1>1, <1>2, WsRestStep, WsInductive, PTL DEF WsSpec

-----------------------------------------------------------------------------
(* The channels of WebSockets. *)

(* Where a channel is in the queue of the pool. *)
FreeAt(c) == {i \in DOMAIN free : free[i] = c}

(* A channel that was never given back twice is in one place: used by one     *)
(* WebSocket, once in the queue, or lost.                                    *)
UsedOnly(c) == (\E p \in Providers : Users(c) = {p}) /\ FreeAt(c) = {} /\ c \notin lostChannels
FreeOnly(c) == Users(c) = {} /\ (\E i \in DOMAIN free : FreeAt(c) = {i}) /\ c \notin lostChannels
LostOnly(c) == Users(c) = {} /\ FreeAt(c) = {} /\ c \in lostChannels
InOnePlace(c) == UsedOnly(c) \/ FreeOnly(c) \/ LostOnly(c)

(* A provider has a channel once it has connected, and a MyChannel is of a    *)
(* channel.                                                                  *)
OfAChannel ==
  \A p \in Providers : myChannel[p] # NoChannel => connected[p] /\ myChannel[p].ch \in Channels
PoolIInv == PoolTypeOK /\ OfAChannel /\ \A c \in Channels \ twice : InOnePlace(c)

(* The channels of the providers. *)
LEMMA UsableHasChannel ==
  ASSUME PoolTypeOK, OfAChannel, NEW p \in Providers, ~myChannel[p].closed \/ ~myChannel[p].released
  PROVE  connected[p] /\ myChannel[p].ch \in Channels
BY DEF OfAChannel, NoChannel

(* A channel given back is once more in the queue. *)
LEMMA GivenPlaces ==
  ASSUME NEW s \in Seq(Channels), NEW c \in Channels, NEW d \in Channels
  PROVE  {i \in DOMAIN Append(s, d) : Append(s, d)[i] = c} =
           {i \in DOMAIN s : s[i] = c} \cup (IF c = d THEN {Len(s) + 1} ELSE {})
<1>1. /\ DOMAIN Append(s, d) = 1..Len(s) + 1 /\ DOMAIN s = 1..Len(s) /\ Len(s) \in Nat
      /\ \A i \in 1..Len(s) : Append(s, d)[i] = s[i]
      /\ Append(s, d)[Len(s) + 1] = d
  OBVIOUS
<1>2. 1..Len(s) + 1 = 1..Len(s) \cup {Len(s) + 1}
  BY <1>1
<1> DEFINE a == Append(s, d)
<1> HIDE DEF a
<1> SUFFICES {i \in DOMAIN a : a[i] = c} = {i \in DOMAIN s : s[i] = c} \cup (IF c = d THEN {Len(s) + 1} ELSE {})
  BY DEF a
<1> QED
  BY <1>1, <1>2 DEF a

(* A channel taken from the front is in the queue once less. *)
LEMMA TakenPlaces ==
  ASSUME NEW s \in Seq(Channels), s # << >>, NEW c \in Channels
  PROVE  /\ Head(s) # c => \A i \in DOMAIN s : {k \in DOMAIN s : s[k] = c} = {i} =>
               i - 1 \in DOMAIN Tail(s) /\ {k \in DOMAIN Tail(s) : Tail(s)[k] = c} = {i - 1}
         /\ {k \in DOMAIN s : s[k] = c} = {} => {k \in DOMAIN Tail(s) : Tail(s)[k] = c} = {}
         /\ Head(s) = c => 1 \in {k \in DOMAIN s : s[k] = c}
         /\ {k \in DOMAIN s : s[k] = c} = {1} => {k \in DOMAIN Tail(s) : Tail(s)[k] = c} = {}
<1> DEFINE t == Tail(s)
<1>1. /\ DOMAIN s = 1..Len(s) /\ Len(s) \in Nat /\ Len(s) > 0 /\ Head(s) = s[1]
      /\ DOMAIN t = 1..Len(s) - 1 /\ \A k \in DOMAIN t : t[k] = s[k + 1]
  OBVIOUS
<1> HIDE DEF t
<1>2. \A k \in DOMAIN t : k + 1 \in DOMAIN s /\ k + 1 # 1 /\ k = (k + 1) - 1
  BY <1>1
<1>3. ASSUME Head(s) # c, NEW i \in DOMAIN s, {k \in DOMAIN s : s[k] = c} = {i}
      PROVE  i - 1 \in DOMAIN t /\ {k \in DOMAIN t : t[k] = c} = {i - 1}
  <2>1. i # 1 /\ s[i] = c
    BY <1>1, <1>3
  <2>2. i - 1 \in DOMAIN t /\ (i - 1) + 1 = i
    BY <1>1, <2>1
  <2>3. t[i - 1] = c
    BY <1>1, <2>1, <2>2
  <2>4. ASSUME NEW k \in DOMAIN t, t[k] = c PROVE k = i - 1
    <3>1. k + 1 = i
      BY <1>1, <1>2, <1>3, <2>4
    <3> QED
      BY <1>1, <3>1
  <2> QED
    BY <2>2, <2>3, <2>4
<1>4. ASSUME {k \in DOMAIN s : s[k] = c} = {} \/ {k \in DOMAIN s : s[k] = c} = {1}
      PROVE  {k \in DOMAIN t : t[k] = c} = {}
  BY <1>1, <1>2, <1>4
<1>5. Head(s) = c => 1 \in {k \in DOMAIN s : s[k] = c}
  BY <1>1
<1> QED
  BY <1>3, <1>4, <1>5 DEF t

(* A step that moves no channel keeps the invariant. *)
LEMMA SettledStep ==
  ASSUME PoolIInv, PoolTypeOK', UNCHANGED <<free, connected, myChannel, lostChannels, twice>>
  PROVE  PoolIInv'
<1>1. OfAChannel'
  BY DEF PoolIInv, OfAChannel
<1>2. \A c \in Channels : Users(c)' = Users(c) /\ FreeAt(c)' = FreeAt(c)
  BY DEF Users, Usable, FreeAt
<1> QED
  BY <1>1, <1>2 DEF PoolIInv, InOnePlace, UsedOnly, FreeOnly, LostOnly

(* The provider of a channel gives it back: no other has it. *)
LEMMA GivenBack ==
  ASSUME PoolIInv, PoolTypeOK', OfAChannel', NEW p \in Providers, myChannel[p] # NoChannel,
         NEW m, myChannel' = [myChannel EXCEPT ![p] = m], m.closed \/ m.released, m.ch = myChannel[p].ch \/ m = NoChannel,
         UNCHANGED lostChannels,
         \/ Given(myChannel[p].ch) /\ twice' = (IF IsTwice(p, myChannel[p].ch) THEN twice \cup {myChannel[p].ch} ELSE twice)
         \/ ~Usable(p) /\ UNCHANGED <<free, twice>>
  PROVE  PoolIInv'
<1>0. PICK d : d = myChannel[p].ch
  OBVIOUS
<1>1. PoolTypeOK /\ OfAChannel /\ d \in Channels /\ free \in Seq(Channels)
  BY <1>0 DEF PoolIInv, OfAChannel, PoolTypeOK
<1>2. \A c \in Channels : Users(c)' = Users(c) \ {p}
  <2>1. \A q \in Providers : myChannel'[q] = IF q = p THEN m ELSE myChannel[q]
    BY <1>1 DEF PoolTypeOK
  <2> QED
    BY <2>1 DEF Users, Usable
<1>3. \A c \in Channels : p \in Users(c) => c = d /\ Usable(p)
  BY <1>0 DEF Users
<1>4. CASE ~Usable(p) /\ UNCHANGED <<free, twice>>
  <2>1. \A c \in Channels : Users(c)' = Users(c) /\ FreeAt(c)' = FreeAt(c)
    BY <1>2, <1>3, <1>4 DEF FreeAt
  <2> QED
    BY <1>4, <2>1 DEF PoolIInv, InOnePlace, UsedOnly, FreeOnly, LostOnly
<1>5. CASE Given(d) /\ twice' = (IF IsTwice(p, d) THEN twice \cup {d} ELSE twice)
  <2>1. \A c \in Channels : FreeAt(c)' = FreeAt(c) \cup (IF c = d THEN {Len(free) + 1} ELSE {})
    BY <1>1, <1>5, GivenPlaces DEF Given, FreeAt
  <2>2. Len(free) + 1 \in DOMAIN free' /\ DOMAIN free \subseteq DOMAIN free'
    BY <1>1, <1>5 DEF Given
  <2>3. ASSUME NEW c \in Channels \ twice', c # d PROVE InOnePlace(c)'
    <3>1. Users(c)' = Users(c) /\ FreeAt(c)' = FreeAt(c) /\ c \notin twice
      <4>1. c \in Channels /\ c \notin twice
        BY <1>5, <2>3
      <4>2. Users(c)' = Users(c)
        BY <1>2, <1>3, <2>3, <4>1
      <4> QED
        BY <2>1, <2>3, <4>1, <4>2
    <3> QED
      BY <2>2, <2>3, <3>1 DEF PoolIInv, InOnePlace, UsedOnly, FreeOnly, LostOnly
  <2>4. ASSUME d \notin twice' PROVE InOnePlace(d)'
    <3>1. ~IsTwice(p, d) /\ d \notin twice
      BY <1>5, <2>4
    <3>2. FreeAt(d) = {} /\ d \notin lostChannels /\ Users(d) \subseteq {p}
      <4>1. FreeAt(d) = {}
        BY <1>1, <3>1 DEF IsTwice, Contains, FreeAt
      <4> QED
        BY <3>1, <4>1 DEF IsTwice, InUse, Users
    <3>3. Users(d)' = {} /\ FreeAt(d)' = {Len(free) + 1}
      BY <1>1, <1>2, <2>1, <3>2
    <3> QED
      BY <2>2, <3>2, <3>3 DEF InOnePlace, FreeOnly
  <2> QED
    BY <2>3, <2>4 DEF PoolIInv
<1> QED
  BY <1>0, <1>4, <1>5

(* The first free channel is taken by a provider that has none, or lost. *)
LEMMA AcquireStep ==
  ASSUME PoolIInv, PoolTypeOK', NEW p \in Providers, Acquire(p)
  PROVE  PoolIInv'
<1>0. PICK d : d = Head(free)
  OBVIOUS
<1>1. /\ PoolTypeOK /\ OfAChannel /\ free \in Seq(Channels) /\ free # << >> /\ d \in Channels
      /\ free' = Tail(free) /\ twice' = twice /\ connected' = [connected EXCEPT ![p] = TRUE]
      /\ ~connected[p]
  BY <1>0 DEF PoolIInv, PoolTypeOK, Acquire
<1>2. myChannel[p] = NoChannel /\ ~Usable(p)
  BY <1>1 DEF OfAChannel, Usable, NoChannel
<1>3. \A c \in Channels \ {d} : InOnePlace(c) => (FreeAt(c)' = {} <=> FreeAt(c) = {})
        /\ ((\E i \in DOMAIN free : FreeAt(c) = {i}) => \E i \in DOMAIN free' : FreeAt(c)' = {i})
  <2> TAKE c \in Channels \ {d}
  <2>1. FreeAt(c) = {} => FreeAt(c)' = {}
    BY <1>0, <1>1, TakenPlaces DEF FreeAt
  <2>2. ASSUME NEW i \in DOMAIN free, FreeAt(c) = {i} PROVE i - 1 \in DOMAIN free' /\ FreeAt(c)' = {i - 1}
    BY <1>0, <1>1, <2>2, TakenPlaces DEF FreeAt
  <2> QED
    BY <2>1, <2>2 DEF InOnePlace, UsedOnly, FreeOnly, LostOnly
<1>4. ASSUME d \notin twice PROVE FreeOnly(d) /\ FreeAt(d)' = {}
  <2>1. 1 \in FreeAt(d)
    BY <1>0, <1>1, TakenPlaces DEF FreeAt
  <2>2. FreeOnly(d)
    BY <1>1, <1>4, <2>1 DEF PoolIInv, InOnePlace, UsedOnly, LostOnly
  <2>3. FreeAt(d) = {1}
    BY <2>1, <2>2 DEF FreeOnly
  <2> QED
    BY <1>1, <2>2, <2>3, TakenPlaces DEF FreeAt
<1>5. CASE /\ myChannel' = [myChannel EXCEPT ![p] = [ch |-> d, closed |-> FALSE, released |-> FALSE]]
           /\ UNCHANGED lostChannels
  <2>1. \A q \in Providers : myChannel'[q] = IF q = p THEN [ch |-> d, closed |-> FALSE, released |-> FALSE] ELSE myChannel[q]
    BY <1>1, <1>5 DEF PoolTypeOK
  <2>2. OfAChannel'
    BY <1>1, <2>1 DEF OfAChannel, PoolTypeOK
  <2>3. \A c \in Channels : Users(c)' = Users(c) \cup (IF c = d THEN {p} ELSE {})
    BY <1>2, <2>1 DEF Users, Usable
  <2>4. ASSUME NEW c \in Channels \ twice, c # d PROVE InOnePlace(c)'
    <3>1. Users(c)' = Users(c) /\ InOnePlace(c) /\ c \in Channels \ {d}
      BY <2>3, <2>4 DEF PoolIInv
    <3> QED
      BY <1>3, <1>5, <3>1 DEF InOnePlace, UsedOnly, FreeOnly, LostOnly
  <2>5. ASSUME d \notin twice PROVE InOnePlace(d)'
    <3>1. Users(d)' = {p}
      BY <1>1, <1>4, <2>3, <2>5 DEF FreeOnly
    <3> QED
      BY <1>4, <1>5, <2>5, <3>1 DEF InOnePlace, UsedOnly, FreeOnly
  <2> QED
    BY <1>1, <2>2, <2>4, <2>5 DEF PoolIInv
<1>6. CASE lostChannels' = lostChannels \cup {d} /\ UNCHANGED myChannel
  <2>1. OfAChannel'
    BY <1>1, <1>6 DEF OfAChannel, PoolTypeOK
  <2>2. \A c \in Channels : Users(c)' = Users(c)
    BY <1>6 DEF Users, Usable
  <2>3. ASSUME NEW c \in Channels \ twice, c # d PROVE InOnePlace(c)'
    <3>1. InOnePlace(c) /\ c \in Channels \ {d}
      BY <2>3 DEF PoolIInv
    <3> QED
      BY <1>3, <1>6, <2>2, <2>3, <3>1 DEF InOnePlace, UsedOnly, FreeOnly, LostOnly
  <2>4. ASSUME d \notin twice PROVE InOnePlace(d)'
    BY <1>1, <1>4, <1>6, <2>2, <2>4 DEF InOnePlace, FreeOnly, LostOnly
  <2> QED
    BY <1>1, <2>1, <2>3, <2>4 DEF PoolIInv
<1> QED
  BY <1>0, <1>5, <1>6 DEF Acquire

(* Types. *)
LEMMA PoolTypeStep ==
  ASSUME PoolTypeOK, OfAChannel, PoolNext
  PROVE  PoolTypeOK'
<1> USE PoolAssumption DEF Channels
<1>1. ASSUME NEW p \in Providers, Acquire(p) PROVE PoolTypeOK'
  <2>1. Head(free) \in Channels /\ Tail(free) \in Seq(Channels) /\ Head(free) \in 0..PoolSize
    BY <1>1 DEF Acquire, PoolTypeOK
  <2>2. [ch |-> Head(free), closed |-> FALSE, released |-> FALSE] \in [ch : 0..PoolSize, closed : BOOLEAN, released : BOOLEAN]
    BY <2>1
  <2>3. myChannel' \in [Providers -> [ch : 0..PoolSize, closed : BOOLEAN, released : BOOLEAN]]
    BY <1>1, <2>2 DEF Acquire, PoolTypeOK
  <2>4. free' \in Seq(Channels) /\ lostChannels' \subseteq Channels
    BY <1>1, <2>1 DEF Acquire, PoolTypeOK
  <2>5. connected' \in [Providers -> BOOLEAN] /\ told' \in [Providers -> {"nothing", "open", "closed", "broken"}]
    BY <1>1 DEF Acquire, PoolTypeOK
  <2> QED
    BY <1>1, <2>3, <2>4, <2>5 DEF Acquire, PoolTypeOK
<1>2. ASSUME NEW p \in Providers, AcquireTimeout(p) PROVE PoolTypeOK'
  BY <1>2 DEF AcquireTimeout, PoolTypeOK
<1>3. ASSUME NEW p \in Providers, Release(p) PROVE PoolTypeOK'
  <2>1. myChannel[p].ch \in Channels
    BY <1>3, UsableHasChannel DEF Release, Usable
  <2>2. Append(free, myChannel[p].ch) \in Seq(Channels)
    BY <2>1 DEF PoolTypeOK
  <2> QED
    BY <1>3, <2>1, <2>2 DEF Release, Given, PoolTypeOK
<1>4. ASSUME NEW p \in Providers, CloseChannel(p), myChannel[p] # NoChannel
      PROVE  free' \in Seq(Channels) /\ alive' \subseteq Channels /\ twice' \subseteq Channels
  <2>1. myChannel[p].ch \in Channels
    BY <1>4 DEF OfAChannel
  <2>2. Append(free, myChannel[p].ch) \in Seq(Channels)
    BY <2>1 DEF PoolTypeOK
  <2> QED
    BY <1>4, <2>1, <2>2 DEF CloseChannel, Given, PoolTypeOK
<1>5. ASSUME NEW p \in Providers, End(p) PROVE PoolTypeOK'
  BY <1>4, <1>5 DEF End, PoolTypeOK
<1>6. ASSUME NEW p \in Providers, Disconnect(p) PROVE PoolTypeOK'
  <2>1. NoChannel \in [ch : 0..PoolSize, closed : BOOLEAN, released : BOOLEAN]
    BY DEF NoChannel
  <2> QED
    BY <1>4, <1>6, <2>1 DEF Disconnect, PoolTypeOK
<1>7. ASSUME NEW p \in Providers, WriteFails(p) PROVE PoolTypeOK'
  BY <1>7 DEF WriteFails, PoolTypeOK
<1>8. ASSUME NEW p \in Providers, NeedsLock(p) PROVE PoolTypeOK'
  BY <1>8 DEF NeedsLock, PoolTypeOK
<1>9. ASSUME NEW c \in Channels, ChannelInactive(c) PROVE PoolTypeOK'
  BY <1>9 DEF ChannelInactive, PoolTypeOK
<1> QED
  BY <1>1, <1>2, <1>3, <1>5, <1>6, <1>7, <1>8, <1>9 DEF PoolNext, Loop

(* A channel never given back twice is used, free or lost, and once. *)
THEOREM PoolInductive == PoolSpec => []PoolIInv
<1>1. PoolInit => PoolIInv
  <2> SUFFICES ASSUME PoolInit PROVE PoolIInv
    OBVIOUS
  <2> USE PoolAssumption
  <2>0. NoChannel \in [ch : 0..PoolSize, closed : BOOLEAN, released : BOOLEAN] /\ NoChannel.closed
    BY DEF NoChannel
  <2>1. free \in Seq(Channels) /\ DOMAIN free = Channels /\ \A c \in Channels : free[c] = c
    BY DEF PoolInit, Channels
  <2>2. PoolTypeOK
    BY <2>0, <2>1 DEF PoolInit, PoolTypeOK
  <2>3. OfAChannel
    BY DEF PoolInit, OfAChannel
  <2>4. \A c \in Channels : Users(c) = {} /\ FreeAt(c) = {c} /\ c \notin lostChannels /\ c \in DOMAIN free
    BY <2>0, <2>1 DEF PoolInit, Users, Usable, FreeAt
  <2> QED
    BY <2>2, <2>3, <2>4 DEF PoolIInv, InOnePlace, FreeOnly
<1>2. PoolIInv /\ [PoolNext]_poolVars => PoolIInv'
  <2> SUFFICES ASSUME PoolIInv, [PoolNext]_poolVars PROVE PoolIInv'
    OBVIOUS
  <2>0. PoolTypeOK /\ OfAChannel /\ \A p \in Providers : myChannel[p] \in [ch : 0..PoolSize, closed : BOOLEAN, released : BOOLEAN]
    BY DEF PoolIInv, PoolTypeOK
  <2>1. CASE UNCHANGED poolVars
    <3>1. UNCHANGED <<free, connected, myChannel, lostChannels, twice, alive, stuck, waits, told>>
      BY <2>1 DEF poolVars
    <3>2. PoolTypeOK'
      BY <2>0, <3>1 DEF PoolTypeOK
    <3> QED
      BY <3>1, <3>2, SettledStep
  <2>2. CASE PoolNext
    <3>0. PoolTypeOK'
      BY <2>0, <2>2, PoolTypeStep
    <3>1. ASSUME NEW p \in Providers, Acquire(p) PROVE PoolIInv'
      BY <3>0, <3>1, AcquireStep
    <3>2. ASSUME NEW p \in Providers, AcquireTimeout(p) PROVE PoolIInv'
      <4>1. OfAChannel'
        BY <2>0, <3>2 DEF AcquireTimeout, OfAChannel, PoolTypeOK
      <4>2. \A c \in Channels : Users(c)' = Users(c) /\ FreeAt(c)' = FreeAt(c)
        BY <3>2 DEF AcquireTimeout, Users, Usable, FreeAt
      <4>3. UNCHANGED <<free, lostChannels, twice>>
        BY <3>2 DEF AcquireTimeout
      <4> QED
        BY <3>0, <4>1, <4>2, <4>3 DEF PoolIInv, InOnePlace, UsedOnly, FreeOnly, LostOnly
    <3>3. ASSUME NEW p \in Providers, Release(p) PROVE PoolIInv'
      <4> DEFINE m == [myChannel[p] EXCEPT !.released = TRUE]
      <4>1. myChannel[p].ch \in Channels /\ connected[p] /\ myChannel[p] # NoChannel
        BY <2>0, <3>3, UsableHasChannel DEF Release, Usable, NoChannel
      <4>2. myChannel' = [myChannel EXCEPT ![p] = m] /\ m.released /\ m.ch = myChannel[p].ch
        BY <2>0, <3>3 DEF Release
      <4>3. OfAChannel'
        <5>1. \A q \in Providers : q # p => myChannel'[q] = myChannel[q]
          BY <2>0, <4>2 DEF PoolTypeOK
        <5>2. myChannel'[p].ch \in Channels
          BY <2>0, <4>1, <4>2 DEF PoolTypeOK
        <5> QED
          BY <2>0, <3>3, <4>1, <5>1, <5>2 DEF OfAChannel, Release
      <4>4. Given(myChannel[p].ch) /\ UNCHANGED lostChannels
            /\ twice' = (IF IsTwice(p, myChannel[p].ch) THEN twice \cup {myChannel[p].ch} ELSE twice)
        BY <3>3 DEF Release
      <4> HIDE DEF m
      <4> QED
        BY <3>0, <4>1, <4>2, <4>3, <4>4, GivenBack
    <3>4. ASSUME NEW p \in Providers, End(p) PROVE PoolIInv'
      <4> DEFINE m == [myChannel[p] EXCEPT !.closed = TRUE]
      <4>1. myChannel[p].ch \in Channels /\ connected[p] /\ myChannel[p] # NoChannel
        BY <2>0, <3>4 DEF End, OfAChannel
      <4>2. myChannel' = [myChannel EXCEPT ![p] = m] /\ m.closed /\ m.ch = myChannel[p].ch
        BY <2>0, <3>4 DEF End
      <4>3. OfAChannel'
        <5>1. \A q \in Providers : q # p => myChannel'[q] = myChannel[q]
          BY <2>0, <4>2 DEF PoolTypeOK
        <5>2. myChannel'[p].ch \in Channels
          BY <2>0, <4>1, <4>2 DEF PoolTypeOK
        <5> QED
          BY <2>0, <3>4, <4>1, <5>1, <5>2 DEF OfAChannel, End
      <4>4. /\ UNCHANGED lostChannels
            /\ \/ Given(myChannel[p].ch) /\ twice' = (IF IsTwice(p, myChannel[p].ch) THEN twice \cup {myChannel[p].ch} ELSE twice)
               \/ ~Usable(p) /\ UNCHANGED <<free, twice>>
        BY <3>4 DEF End, CloseChannel, Usable
      <4> HIDE DEF m
      <4> QED
        BY <3>0, <4>1, <4>2, <4>3, <4>4, GivenBack
    <3>5. ASSUME NEW p \in Providers, Disconnect(p) PROVE PoolIInv'
      <4>1. NoChannel.closed /\ myChannel' = [myChannel EXCEPT ![p] = NoChannel] /\ myChannel[p] # NoChannel
        BY <3>5 DEF Disconnect, NoChannel
      <4>2. OfAChannel'
        BY <2>0, <3>5 DEF OfAChannel, Disconnect, PoolTypeOK
      <4>3. /\ UNCHANGED lostChannels
            /\ \/ Given(myChannel[p].ch) /\ twice' = (IF IsTwice(p, myChannel[p].ch) THEN twice \cup {myChannel[p].ch} ELSE twice)
               \/ ~Usable(p) /\ UNCHANGED <<free, twice>>
        BY <3>5 DEF Disconnect, CloseChannel, Usable
      <4> QED
        BY <3>0, <4>1, <4>2, <4>3, GivenBack
    <3>6. ASSUME NEW p \in Providers, WriteFails(p) \/ NeedsLock(p) PROVE PoolIInv'
      BY <3>0, <3>6, SettledStep DEF WriteFails, NeedsLock
    <3>7. ASSUME NEW c \in Channels, ChannelInactive(c) PROVE PoolIInv'
      BY <3>0, <3>7, SettledStep DEF ChannelInactive
    <3> QED
      BY <2>2, <3>1, <3>2, <3>3, <3>4, <3>5, <3>6, <3>7 DEF PoolNext, Loop
  <2> QED
    BY <2>1, <2>2
<1> QED
  BY <1>1, <1>2, PTL DEF PoolSpec

(* Whatever the providers and the size of the pool, a channel that is not given
   back twice (MyChannel: close, release) is never used by two WebSockets. *)
THEOREM ChannelsInOnePlace == PoolSpec => []OnePlace
<1>1. PoolIInv => OnePlace
  <2> SUFFICES ASSUME PoolIInv, NEW c \in Channels \ twice
      PROVE  Cardinality(Users(c)) + Cardinality(FreeAt(c)) + Cardinality({c} \cap lostChannels) = 1
    BY DEF OnePlace, FreeAt
  <2>1. Cardinality({}) = 0 /\ \A x : Cardinality({x}) = 1
    BY FS_EmptySet, FS_Singleton
  <2>2. InOnePlace(c)
    BY DEF PoolIInv
  <2>3. c \in lostChannels => {c} \cap lostChannels = {c}
    OBVIOUS
  <2>4. c \notin lostChannels => {c} \cap lostChannels = {}
    OBVIOUS
  <2>5. CASE UsedOnly(c)
    BY <2>1, <2>4, <2>5 DEF UsedOnly
  <2>6. CASE FreeOnly(c)
    BY <2>1, <2>4, <2>6 DEF FreeOnly
  <2>7. CASE LostOnly(c)
    <3>1. Users(c) = {} /\ FreeAt(c) = {} /\ {c} \cap lostChannels = {c}
      BY <2>3, <2>7 DEF LostOnly
    <3>2. Cardinality(Users(c)) = 0 /\ Cardinality(FreeAt(c)) = 0 /\ Cardinality({c} \cap lostChannels) = 1
      BY <2>1, <3>1
    <3> QED
      BY <3>2
  <2> QED
    BY <2>2, <2>5, <2>6, <2>7 DEF InOnePlace
<1> QED
  BY <1>1, PoolInductive, PTL

(* The types of the pool. *)
LEMMA PoolTyped == PoolSpec => []PoolTypeOK
<1>1. PoolIInv => PoolTypeOK
  BY DEF PoolIInv
<1> QED
  BY <1>1, PoolInductive, PTL

-----------------------------------------------------------------------------
(* The stream connections of a protocol. *)

Protocols == [status : StreamStatuses, streams : Seq(Streams), stray : BOOLEAN, cut : BOOLEAN]

(* No event of a stale connection is minded: of those that may still send      *)
(* one, only the newest has its listener enabled, and not when it is over.     *)
StaleIsDeaf(p) ==
  /\ \A i \in 1..Len(p.streams) :
       ~p.streams[i].disabled /\ p.streams[i].wire \in {"connecting", "open"} =>
         i = Len(p.streams) /\ ~p.streams[i].over
  /\ Len(p.streams) > 0 /\ p.streams[Len(p.streams)].over => p.streams[Len(p.streams)].disabled
NewestIsMinded(p) ==
  Len(p.streams) > 0 /\ ~p.streams[Len(p.streams)].over /\ ~p.cut =>
    p.status = "OPENING_STREAM" /\ ~p.streams[Len(p.streams)].disabled
WellHeard(p) ==
  /\ p \in Protocols /\ Len(p.streams) <= MaxConnections /\ ~p.stray
  /\ StaleIsDeaf(p) /\ NewestIsMinded(p)
ConnectionsIInv == WellHeard(protocol)

(* A connection may follow when the newest has sent its last message, or is    *)
(* not minded.                                                               *)
Followable(p) ==
  Len(p.streams) > 0 =>
    p.streams[Len(p.streams)].disabled \/ p.streams[Len(p.streams)].wire \in {"looped", "ended"}

(* A protocol with one stream changed. *)
LEMMA OneStream ==
  ASSUME NEW p \in Protocols, NEW i \in 1..Len(p.streams), NEW s \in Streams
  PROVE  /\ [p EXCEPT !.streams[i] = s] \in Protocols
         /\ Len([p EXCEPT !.streams[i] = s].streams) = Len(p.streams)
         /\ \A j \in 1..Len(p.streams) : [p EXCEPT !.streams[i] = s].streams[j] = IF j = i THEN s ELSE p.streams[j]
<1>1. p.streams \in Seq(Streams) /\ DOMAIN p.streams = 1..Len(p.streams)
  BY DEF Protocols
<1> DEFINE t == [p.streams EXCEPT ![i] = s]
<1>2. t \in Seq(Streams) /\ Len(t) = Len(p.streams) /\ \A j \in 1..Len(p.streams) : t[j] = IF j = i THEN s ELSE p.streams[j]
  BY <1>1
<1>3. [p EXCEPT !.streams[i] = s] = [p EXCEPT !.streams = t]
  OBVIOUS
<1> HIDE DEF t
<1>4. [p EXCEPT !.streams = t] \in Protocols /\ [p EXCEPT !.streams = t].streams = t
  BY <1>2 DEF Protocols
<1> QED
  BY <1>2, <1>3, <1>4

(* The session that closes itself minds none of its connections. *)
LEMMA StopIsWell ==
  ASSUME NEW p, WellHeard(p)
  PROVE  /\ WellHeard(Stop(p)) /\ Followable(Stop(p)) /\ Len(Stop(p).streams) = Len(p.streams)
         /\ Len(p.streams) > 0 => Stop(p).streams[Len(p.streams)].over
<1> DEFINE t == [i \in DOMAIN p.streams |-> StoppedStream(p.streams[i], i = Len(p.streams))]
           q == Stop(p)
<1>1. /\ p \in Protocols /\ Len(p.streams) <= MaxConnections /\ ~p.stray /\ StaleIsDeaf(p)
      /\ p.streams \in Seq(Streams) /\ DOMAIN p.streams = 1..Len(p.streams) /\ Len(p.streams) \in Nat
  BY DEF WellHeard, Protocols
<1>2. q = [[p EXCEPT !.status = "STREAM_CLOSED"] EXCEPT !.streams = t]
  <2>1. PICK r : r = [p EXCEPT !.status = "STREAM_CLOSED"]
    OBVIOUS
  <2>2. r.streams = p.streams
    BY <1>1, <2>1 DEF Protocols
  <2>3. StopActive(r) = [r EXCEPT !.streams = [i \in DOMAIN r.streams |-> StoppedStream(r.streams[i], i = Len(r.streams))]]
    BY Zenon DEF StopActive
  <2>4. StopActive(r) = [r EXCEPT !.streams = t]
    BY <2>2, <2>3, Zenon
  <2>5. q = StopActive(r)
    BY <2>1 DEF Stop, SetStatus
  <2> QED
    BY <2>1, <2>4, <2>5
<1>3. \A i \in 1..Len(p.streams) : /\ t[i] \in Streams /\ t[i].over /\ t[i].wire = p.streams[i].wire
                                   /\ t[i].disabled <=> p.streams[i].disabled \/ i = Len(p.streams)
  <2> TAKE i \in 1..Len(p.streams)
  <2>1. PICK s \in Streams : s = p.streams[i]
    BY <1>1
  <2>2. t[i] = StoppedStream(s, i = Len(p.streams))
    BY <1>1, <2>1
  <2>3. t[i] = [s EXCEPT !.over = TRUE, !.disabled = (s.disabled \/ i = Len(p.streams))]
    BY <2>2 DEF StoppedStream
  <2> HIDE DEF t
  <2>4. CASE s.disabled \/ i = Len(p.streams)
    <3>1. t[i] = [s EXCEPT !.over = TRUE, !.disabled = TRUE]
      BY <2>3, <2>4
    <3> QED
      BY <2>1, <2>4, <3>1 DEF Streams
  <2>5. CASE ~(s.disabled \/ i = Len(p.streams))
    <3>1. t[i] = [s EXCEPT !.over = TRUE, !.disabled = FALSE]
      BY <2>3, <2>5
    <3> QED
      BY <2>1, <2>5, <3>1 DEF Streams
  <2> QED
    BY <2>4, <2>5
<1>4. t \in Seq(Streams) /\ Len(t) = Len(p.streams)
  <2>1. t = [i \in 1..Len(p.streams) |-> t[i]]
    BY <1>1
  <2>2. \A i \in 1..Len(p.streams) : t[i] \in Streams
    BY <1>3
  <2> HIDE DEF t
  <2> QED
    BY <1>1, <2>1, <2>2
<1> HIDE DEF t
<1>5. q \in Protocols /\ q.streams = t /\ q.stray = p.stray
  BY <1>1, <1>2, <1>4 DEF Protocols, StreamStatuses
<1> HIDE DEF q
<1>6. StaleIsDeaf(q)
  <2>1. \A i \in 1..Len(t) : t[i].wire \in {"connecting", "open"} => t[i].disabled
    BY <1>1, <1>3, <1>4 DEF StaleIsDeaf
  <2> QED
    BY <1>1, <1>3, <1>4, <1>5, <2>1 DEF StaleIsDeaf
<1>7. NewestIsMinded(q)
  BY <1>1, <1>3, <1>4, <1>5 DEF NewestIsMinded
<1>8. Followable(q)
  BY <1>1, <1>3, <1>4, <1>5 DEF Followable
<1>9. WellHeard(q)
  BY <1>1, <1>4, <1>5, <1>6, <1>7 DEF WellHeard
<1> QED
  BY <1>1, <1>3, <1>4, <1>5, <1>8, <1>9 DEF q

(* A connection that follows is the newest and minded. *)
LEMMA SendIsWell ==
  ASSUME NEW p, WellHeard(p), Followable(p), Room(p), NEW request \in {"open", "bind"}
  PROVE  WellHeard(SendRequest(p, request)) /\ Len(SendRequest(p, request).streams) = Len(p.streams) + 1
<1> DEFINE t == Append(p.streams, NewStream(request))
           q == SendRequest(p, request)
<1>0. MaxConnections \in Nat
  BY ConnectionsAssumption
<1>1. /\ p \in Protocols /\ Len(p.streams) < MaxConnections /\ ~p.stray /\ StaleIsDeaf(p)
      /\ p.streams \in Seq(Streams) /\ Len(p.streams) \in Nat
  BY DEF WellHeard, Protocols, Room
<1>2. NewStream(request) \in Streams /\ ~NewStream(request).over /\ ~NewStream(request).disabled
  BY DEF NewStream, Streams
<1>3. /\ t \in Seq(Streams) /\ Len(t) = Len(p.streams) + 1
      /\ t[Len(t)] = NewStream(request) /\ \A i \in 1..Len(p.streams) : t[i] = p.streams[i]
  BY <1>1, <1>2
<1>4. q = [[p EXCEPT !.status = "OPENING_STREAM"] EXCEPT !.streams = t, !.cut = FALSE]
  BY <1>1 DEF SendRequest, SetStatus, Protocols
<1> HIDE DEF t
<1>5. q \in Protocols /\ q.streams = t /\ q.status = "OPENING_STREAM" /\ ~q.stray
  BY <1>1, <1>3, <1>4 DEF Protocols, StreamStatuses
<1> HIDE DEF q
<1>6. \A i \in 1..Len(t) : i \in 1..Len(p.streams) \/ i = Len(t)
  BY <1>1, <1>3
<1>7. StaleIsDeaf(q)
  <2>1. ASSUME NEW i \in 1..Len(t), ~t[i].disabled, t[i].wire \in {"connecting", "open"}
        PROVE  i = Len(t) /\ ~t[i].over
    <3>1. CASE i = Len(t)
      BY <1>2, <1>3, <3>1
    <3>2. CASE i \in 1..Len(p.streams)
      <4>1. t[i] = p.streams[i]
        BY <1>3, <3>2
      <4>2. i = Len(p.streams)
        BY <2>1, <3>2, <4>1, <1>1 DEF StaleIsDeaf
      <4> QED
        BY <1>1, <2>1, <3>2, <4>1, <4>2 DEF Followable
    <3> QED
      BY <1>6, <3>1, <3>2
  <2> QED
    BY <1>2, <1>3, <1>5, <2>1 DEF StaleIsDeaf
<1>8. NewestIsMinded(q)
  BY <1>2, <1>3, <1>5 DEF NewestIsMinded
<1>9. WellHeard(q)
  <2>1. Len(t) <= MaxConnections
    BY <1>0, <1>1, <1>3
  <2> QED
    BY <1>5, <1>7, <1>8, <2>1 DEF WellHeard
<1> QED
  BY <1>3, <1>5, <1>9 DEF q

(* Whatever the session makes of an error. *)
LEMMA ReactionsAreWell ==
  ASSUME NEW p, WellHeard(p), NEW q \in Reactions(p)
  PROVE  WellHeard(q) /\ (q = p \/ q = Stop(p) \/ Len(q.streams) = Len(p.streams) + 1)
<1>1. q = p \/ q = Stop(p) \/ (Room(p) /\ q = SendRequest(Stop(p), "open"))
  BY Zenon DEF Reactions
<1>2. WellHeard(Stop(p)) /\ Followable(Stop(p)) /\ Len(Stop(p).streams) = Len(p.streams)
  BY StopIsWell
<1>3. Room(p) => Room(Stop(p))
  BY <1>2 DEF Room
<1> QED
  BY <1>1, <1>2, <1>3, SendIsWell

(* The connection that is heard is the newest, and not over. *)
LEMMA HeardIsNewest ==
  ASSUME ConnectionsIInv, NEW i \in 1..Newest, protocol.streams[i].wire \in {"connecting", "open"}, Minded(i)
  PROVE  ~Stale(i) /\ i = Newest
BY DEF ConnectionsIInv, WellHeard, StaleIsDeaf, Stale, Minded, Newest

(* A stray event that is none changes nothing. *)
LEMMA NotStray ==
  ASSUME NEW p, p \in Protocols, ~p.stray
  PROVE  [p EXCEPT !.stray = @ \/ FALSE] = p
<1>1. p = [status |-> p.status, streams |-> p.streams, stray |-> p.stray, cut |-> p.cut] /\ p.stray = FALSE
  BY DEF Protocols
<1>2. [p EXCEPT !.stray = @ \/ FALSE] = [p EXCEPT !.stray = FALSE]
  BY <1>1
<1> QED
  BY <1>1, <1>2

(* The wire of a connection goes on. *)
LEMMA WireStep ==
  ASSUME ConnectionsIInv, NEW i \in 1..Newest, NEW s \in Streams,
         s.over = protocol.streams[i].over, s.disabled = protocol.streams[i].disabled,
         s.wire \in {"connecting", "open"} => protocol.streams[i].wire \in {"connecting", "open"}
  PROVE  WellHeard([protocol EXCEPT !.streams[i] = s])
<1> DEFINE q == [protocol EXCEPT !.streams[i] = s]
<1>1. protocol \in Protocols /\ i \in 1..Len(protocol.streams)
  BY DEF ConnectionsIInv, WellHeard, Newest
<1>2. /\ q \in Protocols /\ Len(q.streams) = Len(protocol.streams)
      /\ \A j \in 1..Len(protocol.streams) : q.streams[j] = IF j = i THEN s ELSE protocol.streams[j]
  BY <1>1, OneStream
<1>3. q.status = protocol.status /\ q.stray = protocol.stray /\ q.cut = protocol.cut
  BY <1>1 DEF Protocols
<1> HIDE DEF q
<1>4. Len(protocol.streams) \in Nat /\ Len(protocol.streams) \in 1..Len(protocol.streams)
  BY <1>1 DEF Protocols
<1>5. StaleIsDeaf(q)
  BY <1>2, <1>4 DEF ConnectionsIInv, WellHeard, StaleIsDeaf
<1>6. NewestIsMinded(q)
  BY <1>2, <1>3, <1>4 DEF ConnectionsIInv, WellHeard, NewestIsMinded
<1>7. WellHeard(q)
  BY <1>2, <1>3, <1>5, <1>6 DEF ConnectionsIInv, WellHeard
<1> QED
  BY <1>7 DEF q
(* The events of the connections. *)
LEMMA OpensStep ==
  ASSUME ConnectionsIInv, NEW i \in 1..Newest, StreamOpens(i)
  PROVE  ConnectionsIInv'
<1>1. protocol \in Protocols /\ ~protocol.stray /\ protocol.streams[i] \in Streams /\ protocol.streams \in Seq(Streams)
      /\ protocol.streams[i].wire = "connecting" /\ i \in 1..Len(protocol.streams)
  BY DEF ConnectionsIInv, WellHeard, StreamOpens, Newest, Protocols
<1> DEFINE s == [protocol.streams[i] EXCEPT !.wire = "open"]
           t == [s EXCEPT !.isOpen = TRUE]
<1>2. /\ s \in Streams /\ s.over = protocol.streams[i].over /\ s.disabled = protocol.streams[i].disabled
      /\ t \in Streams /\ t.over = protocol.streams[i].over /\ t.disabled = protocol.streams[i].disabled
  BY <1>1 DEF Streams
<1>3. WellHeard([protocol EXCEPT !.streams[i] = s]) /\ WellHeard([protocol EXCEPT !.streams[i] = t])
  <2> HIDE DEF s, t
  <2> QED
    BY <1>1, <1>2, WireStep
<1>4. CASE ~Minded(i)
  <2>1. protocol' = [protocol EXCEPT !.streams[i] = s]
    BY <1>4 DEF StreamOpens
  <2> QED
    BY <1>3, <2>1 DEF ConnectionsIInv
<1>5. CASE Minded(i)
  <2>1. ~Stale(i)
    BY <1>1, <1>5, HeardIsNewest
  <2>2. PICK q : q = [protocol EXCEPT !.streams[i] = s]
    OBVIOUS
  <2>3. q \in Protocols /\ ~q.stray /\ q.streams = [protocol.streams EXCEPT ![i] = s]
    BY <1>1, <1>3, <2>2 DEF WellHeard, Protocols
  <2>4. protocol' = [q EXCEPT !.streams[i].isOpen = TRUE, !.stray = @ \/ FALSE]
    BY <1>5, <2>1, <2>2 DEF StreamOpens
  <2>5. q.streams[i] = s
    BY <1>1, <2>3
  <2>6. [q EXCEPT !.streams[i].isOpen = TRUE] = [q EXCEPT !.streams[i] = t]
    BY <2>5
  <2>7. [q EXCEPT !.streams[i] = t] = [protocol EXCEPT !.streams[i] = t]
    BY <1>1, <2>2 DEF Protocols
  <2>8. PICK r : r = [protocol EXCEPT !.streams[i] = t]
    OBVIOUS
  <2>9. r = [q EXCEPT !.streams[i].isOpen = TRUE] /\ r.stray = q.stray
    BY <2>3, <2>6, <2>7, <2>8 DEF Protocols
  <2>10. protocol' = [r EXCEPT !.stray = @ \/ FALSE]
    BY <2>4, <2>9
  <2> QED
    BY <1>3, <2>8, <2>10, NotStray DEF ConnectionsIInv, WellHeard
<1> QED
  BY <1>4, <1>5

(* What is heard comes from the newest connection. *)
LEMMA HeardStep ==
  ASSUME ConnectionsIInv, NEW i \in 1..Newest, protocol.streams[i].wire = "open", Heard(i),
         NEW p, WellHeard(p), protocol' = [p EXCEPT !.stray = @ \/ Stale(i)]
  PROVE  ConnectionsIInv'
<1>1. ~Stale(i)
  BY HeardIsNewest DEF Heard
<1>2. protocol' = [p EXCEPT !.stray = @ \/ FALSE]
  BY <1>1
<1> QED
  BY <1>2, NotStray DEF ConnectionsIInv, WellHeard

(* And an event that is not heard changes nothing. *)
LEMMA WhenHeardStep ==
  ASSUME ConnectionsIInv, NEW i \in 1..Newest, protocol.streams[i].wire = "open",
         NEW p, WellHeard(p), protocol' = WhenHeard(i, p)
  PROVE  ConnectionsIInv'
<1>1. CASE Heard(i)
  <2>1. protocol' = [p EXCEPT !.stray = @ \/ Stale(i)]
    BY <1>1 DEF WhenHeard
  <2> QED
    BY <1>1, <2>1, HeardStep
<1>2. CASE ~Heard(i)
  BY <1>2 DEF WhenHeard, ConnectionsIInv
<1> QED
  BY <1>1, <1>2

(* A connection after its last message sends nothing but its end. *)
LEMMA LoopStep ==
  ASSUME ConnectionsIInv, NEW i \in 1..Newest, StreamLoop(i)
  PROVE  ConnectionsIInv'
<1>1. protocol \in Protocols /\ ~protocol.stray /\ protocol.streams[i] \in Streams
      /\ protocol.streams[i].wire = "open" /\ i \in 1..Len(protocol.streams)
  BY DEF ConnectionsIInv, WellHeard, StreamLoop, Newest, Protocols
<1> DEFINE s == [protocol.streams[i] EXCEPT !.wire = "looped"]
<1>2. PICK looped : looped = [protocol EXCEPT !.streams[i].wire = "looped"]
  OBVIOUS
<1>3. s \in Streams /\ s.over = protocol.streams[i].over /\ s.disabled = protocol.streams[i].disabled /\ s.wire = "looped"
  BY <1>1 DEF Streams
<1>4. looped = [protocol EXCEPT !.streams[i] = s]
  BY <1>2
<1> HIDE DEF s
<1>5. WellHeard(looped)
  BY <1>3, <1>4, WireStep
<1>6. Len(looped.streams) = Len(protocol.streams) /\ looped.streams[i] = s
  BY <1>1, <1>3, <1>4, OneStream
<1>7. CASE protocol' = [looped EXCEPT !.stray = @ \/ (Heard(i) /\ Stale(i))]
  <2>1. ~(Heard(i) /\ Stale(i))
    BY <1>1, HeardIsNewest DEF Heard
  <2>2. protocol' = [looped EXCEPT !.stray = @ \/ FALSE]
    BY <1>7, <2>1
  <2> QED
    BY <1>5, <2>2, NotStray DEF ConnectionsIInv, WellHeard
<1>8. CASE Heard(i) /\ Room(protocol) /\ protocol' = [SendRequest(looped, "bind") EXCEPT !.stray = @ \/ Stale(i)]
  <2>1. i = Newest
    BY <1>1, <1>8, HeardIsNewest DEF Heard
  <2>2. Followable(looped) /\ Room(looped)
    BY <1>3, <1>6, <1>8, <2>1 DEF Followable, Room, Newest
  <2>3. WellHeard(SendRequest(looped, "bind"))
    BY <1>5, <2>2, SendIsWell
  <2> QED
    BY <1>1, <1>8, <2>3, HeardStep
<1> QED
  BY <1>2, <1>7, <1>8 DEF StreamLoop

(* An error is told: the status is set after whatever the session made of it.  *)
LEMMA ErrorStep ==
  ASSUME ConnectionsIInv, ForwardControlResponseError
  PROVE  ConnectionsIInv'
<1>1. PICK q \in Reactions(protocol) : protocol' = ClosedAfter(protocol, q)
  BY DEF ForwardControlResponseError
<1>2. /\ WellHeard(q) /\ Len(protocol.streams) > 0 /\ Len(protocol.streams) \in Nat
      /\ (q = protocol \/ q = Stop(protocol) \/ Len(q.streams) = Len(protocol.streams) + 1)
  BY ReactionsAreWell DEF ConnectionsIInv, ForwardControlResponseError, Newest, WellHeard, Protocols
<1>3. PICK b \in BOOLEAN : b <=> q.cut \/ Len(q.streams) > Len(protocol.streams) \/ q = protocol
  OBVIOUS
<1>4. protocol' = [q EXCEPT !.status = "STREAM_CLOSED", !.cut = b]
  <2>1. protocol' = [q EXCEPT !.status = "STREAM_CLOSED", !.cut = @ \/ Len(q.streams) > Len(protocol.streams) \/ q = protocol]
    BY <1>1 DEF ClosedAfter
  <2>2. CASE b
    BY <1>3, <2>1, <2>2
  <2>3. CASE ~b
    BY <1>3, <2>1, <2>3
  <2> QED
    BY <2>2, <2>3
<1>5. PICK r : r = [q EXCEPT !.status = "STREAM_CLOSED", !.cut = b]
  OBVIOUS
<1>6. r \in Protocols /\ r.streams = q.streams /\ r.stray = q.stray /\ r.cut = b
  BY <1>2, <1>5 DEF WellHeard, Protocols, StreamStatuses
<1>7. b \/ q.streams[Len(q.streams)].over
  <2>1. WellHeard(protocol)
    BY DEF ConnectionsIInv
  <2>2. CASE q = protocol
    BY <1>3, <2>2
  <2>3. CASE q = Stop(protocol)
    BY <1>2, <2>1, <2>3, StopIsWell
  <2>4. CASE Len(q.streams) = Len(protocol.streams) + 1
    BY <1>2, <1>3, <2>4
  <2> QED
    BY <1>2, <2>2, <2>3, <2>4
<1>8. StaleIsDeaf(r) /\ NewestIsMinded(r)
  BY <1>2, <1>6, <1>7 DEF WellHeard, StaleIsDeaf, NewestIsMinded
<1> QED
  BY <1>2, <1>4, <1>5, <1>6, <1>8 DEF ConnectionsIInv, WellHeard

(* A connection ends. *)
LEMMA EndsStep ==
  ASSUME ConnectionsIInv, NEW i \in 1..Newest, ConnectionEnds(i)
  PROVE  ConnectionsIInv'
<1>1. protocol \in Protocols /\ protocol.streams[i] \in Streams /\ i \in 1..Len(protocol.streams)
  BY DEF ConnectionsIInv, WellHeard, Newest, Protocols
<1>2. PICK b \in BOOLEAN : b <=> protocol.streams[i].isInterrupted \/ Minded(i)
  OBVIOUS
<1> DEFINE s == [protocol.streams[i] EXCEPT !.wire = "ended", !.isInterrupted = b]
<1>3. s \in Streams /\ s.over = protocol.streams[i].over /\ s.disabled = protocol.streams[i].disabled /\ s.wire = "ended"
  BY <1>1 DEF Streams
<1>4. protocol' = [protocol EXCEPT !.streams[i] = s]
  <2>1. protocol' = [protocol EXCEPT !.streams[i].wire = "ended", !.streams[i].isInterrupted = b]
    <3>1. CASE b
      BY <1>2, <3>1 DEF ConnectionEnds
    <3>2. CASE ~b
      BY <1>2, <3>2 DEF ConnectionEnds
    <3> QED
      BY <3>1, <3>2
  <2>2. [protocol EXCEPT !.streams[i].wire = "ended", !.streams[i].isInterrupted = b] = [protocol EXCEPT !.streams[i] = s]
    <3>1. PICK t : t = [protocol.streams EXCEPT ![i].wire = "ended", ![i].isInterrupted = b]
      OBVIOUS
    <3>2. protocol.streams \in Seq(Streams)
      BY <1>1 DEF Protocols
    <3>3. t = [protocol.streams EXCEPT ![i] = s]
      <4>1. i \in DOMAIN protocol.streams
        BY <1>1, <3>2
      <4>2. [[protocol.streams EXCEPT ![i].wire = "ended"] EXCEPT ![i].isInterrupted = b] = [protocol.streams EXCEPT ![i] = s]
        BY <4>1
      <4> QED
        BY <3>1, <4>2
    <3> HIDE DEF s
    <3>4. [protocol EXCEPT !.streams[i].wire = "ended", !.streams[i].isInterrupted = b] = [protocol EXCEPT !.streams = t]
      BY <1>1, <3>1 DEF Protocols
    <3>5. [protocol EXCEPT !.streams[i] = s] = [protocol EXCEPT !.streams = [protocol.streams EXCEPT ![i] = s]]
      OBVIOUS
    <3> QED
      BY <3>3, <3>4, <3>5
  <2> QED
    BY <2>1, <2>2
<1> HIDE DEF s
<1>5. WellHeard([protocol EXCEPT !.streams[i] = s])
  BY <1>3, WireStep
<1> QED
  BY <1>4, <1>5 DEF ConnectionsIInv

(* Only the newest connection is minded, whatever the older ones still send. *)
THEOREM ConnectionsInductive == ConnectionsSpec => []ConnectionsIInv
<1>1. ConnectionsInit => ConnectionsIInv
  <2> SUFFICES ASSUME ConnectionsInit PROVE ConnectionsIInv
    OBVIOUS
  <2>1. protocol \in Protocols /\ protocol.streams = << >> /\ ~protocol.stray
    BY DEF ConnectionsInit, Protocols, StreamStatuses
  <2>2. Len(protocol.streams) = 0
    BY <2>1
  <2> QED
    BY <2>1, <2>2, ConnectionsAssumption DEF ConnectionsIInv, WellHeard, StaleIsDeaf, NewestIsMinded
<1>2. ConnectionsIInv /\ [ConnectionsNext]_connectionsVars => ConnectionsIInv'
  <2> SUFFICES ASSUME ConnectionsIInv, [ConnectionsNext]_connectionsVars PROVE ConnectionsIInv'
    OBVIOUS
  <2>0. WellHeard(protocol)
    BY DEF ConnectionsIInv
  <2>1. CASE UNCHANGED connectionsVars
    BY <2>1 DEF connectionsVars, ConnectionsIInv
  <2>2. ASSUME NEW request \in {"open", "bind"}, SessionSends(request) PROVE ConnectionsIInv'
    <3>1. Followable(protocol)
      BY <2>0, <2>2 DEF SessionSends, Followable, WellHeard, StaleIsDeaf, Newest
    <3> QED
      BY <2>0, <2>2, <3>1, SendIsWell DEF SessionSends, ConnectionsIInv
  <2>3. CASE SessionCloses
    BY <2>0, <2>3, StopIsWell DEF SessionCloses, ConnectionsIInv
  <2>4. CASE ForwardControlResponseError
    BY <2>4, ErrorStep
  <2>5. ASSUME NEW i \in 1..Newest, StreamOpens(i) PROVE ConnectionsIInv'
    BY <2>5, OpensStep
  <2>6. ASSUME NEW i \in 1..Newest, StreamMessage(i) PROVE ConnectionsIInv'
    BY <2>0, <2>6, WhenHeardStep DEF StreamMessage
  <2>7. ASSUME NEW i \in 1..Newest, StreamLoop(i) PROVE ConnectionsIInv'
    BY <2>7, LoopStep
  <2>8. ASSUME NEW i \in 1..Newest, ForwardError(i) PROVE ConnectionsIInv'
    BY <2>0, <2>8, ReactionsAreWell, WhenHeardStep DEF ForwardError
  <2>9. ASSUME NEW i \in 1..Newest, IllegalMessage(i) PROVE ConnectionsIInv'
    BY <2>0, <2>9, StopIsWell, HeardStep DEF IllegalMessage
  <2>10. ASSUME NEW i \in 1..Newest, ConnectionEnds(i) PROVE ConnectionsIInv'
    BY <2>10, EndsStep
  <2> QED
    BY <2>1, <2>2, <2>3, <2>4, <2>5, <2>6, <2>7, <2>8, <2>9, <2>10 DEF ConnectionsNext
<1> QED
  BY <1>1, <1>2, PTL DEF ConnectionsSpec

(* However many connections the session opens, it never takes an event of one
   that is not its newest (TextProtocol: stopActive; its stream listeners). *)
THEOREM NewestIsHeard == ConnectionsSpec => []HearsTheNewest
<1>1. ConnectionsIInv => HearsTheNewest
  BY DEF ConnectionsIInv, WellHeard, NewestIsMinded, HearsTheNewest, Newest, Minded
<1> QED
  BY <1>1, ConnectionsInductive, PTL

(* The types of the stream connections. *)
LEMMA ConnectionsTyped == ConnectionsSpec => []ConnectionsTypeOK
<1>1. ConnectionsIInv => ConnectionsTypeOK
  BY DEF ConnectionsIInv, WellHeard, Protocols, ConnectionsTypeOK
<1> QED
  BY <1>1, ConnectionsInductive, PTL

-----------------------------------------------------------------------------
(* The listeners of a future. *)

(* A future has an outcome once it is resolved, the one it is resolved with   *)
(* unless it was aborted, and until then no listener was told of anything.    *)
OutcomeIsKept ==
  /\ future = "NOT_RESOLVED" <=> outcome = "NOT_RESOLVED"
  /\ future \in Resolutions => outcome = future
NoneTold == future = "NOT_RESOLVED" => \A i \in DOMAIN listeners : listeners[i].ran = 0 /\ ~listeners[i].late
FutureIInv == ListenableFutureTypeOK /\ OutcomeIsKept /\ NoneTold /\ ToldOnce

(* The listeners of the outcome run, once; all of them if none asks.          *)
LEMMA RunAllStep ==
  ASSUME FutureIInv, NEW for \in Resolutions, ~hangs, future = "NOT_RESOLVED",
         future' = for, FirstOutcome(for), RunAll(for)
  PROVE  FutureIInv'
<1>1. /\ listeners \in Seq(AListener) /\ DOMAIN listeners = 1..Len(listeners) /\ Len(listeners) <= MaxListeners
      /\ outcome' = for /\ outcome = "NOT_RESOLVED" /\ for \in {"FULFILLED", "REJECTED"}
      /\ \A i \in DOMAIN listeners : listeners[i] \in AListener /\ listeners[i].ran = 0 /\ ~listeners[i].late
  BY DEF FutureIInv, ListenableFutureTypeOK, OutcomeIsKept, NoneTold, FirstOutcome, Resolutions
<1>2. /\ listeners' = [i \in DOMAIN listeners |->
                   IF listeners[i].for = for /\ (\A j \in 1..(i - 1) : j \notin Stops(listeners, for))
                   THEN Ran(listeners[i]) ELSE listeners[i]]
      /\ hangs' = (Stops(listeners, for) # {})
  BY DEF RunAll
<1>3. \A i \in DOMAIN listeners : Ran(listeners[i]) \in AListener /\ Ran(listeners[i]).ran = 1
                                  /\ Ran(listeners[i]).for = listeners[i].for /\ Ran(listeners[i]).late = listeners[i].late
  BY <1>1 DEF Ran, AListener
<1>4. /\ DOMAIN listeners' = DOMAIN listeners
      /\ \A i \in DOMAIN listeners : /\ listeners'[i] \in AListener /\ listeners'[i].for = listeners[i].for
                                     /\ listeners'[i].ran \in {0, 1}
                                     /\ listeners'[i].ran = 1 => listeners'[i].for = for
                                     /\ Stops(listeners, for) = {} /\ listeners'[i].for = for => listeners'[i].ran = 1
  BY <1>1, <1>2, <1>3
<1>5. listeners' \in Seq(AListener) /\ Len(listeners') = Len(listeners)
  <2>1. listeners' = [i \in 1..Len(listeners) |-> listeners'[i]] /\ \A i \in 1..Len(listeners) : listeners'[i] \in AListener
    BY <1>1, <1>2, <1>4
  <2> QED
    BY <1>1, <2>1
<1>6. ListenableFutureTypeOK'
  BY <1>1, <1>2, <1>5 DEF ListenableFutureTypeOK, FutureStates
<1>7. OutcomeIsKept' /\ NoneTold'
  BY <1>1 DEF OutcomeIsKept, NoneTold, Resolutions
<1>8. ToldOnce'
  <2> SUFFICES ASSUME NEW i \in DOMAIN listeners'
               PROVE  /\ listeners'[i].ran <= 1
                      /\ listeners'[i].ran = 1 => listeners'[i].for = outcome'
                      /\ listeners'[i].for = outcome' /\ ~listeners'[i].late /\ ~hangs' => listeners'[i].ran = 1
    BY DEF ToldOnce
  <2>1. listeners'[i].ran \in {0, 1}
    BY <1>4
  <2>2. listeners'[i].ran = 1 => listeners'[i].for = outcome'
    BY <1>1, <1>4
  <2>3. ~hangs' => Stops(listeners, for) = {}
    BY <1>2
  <2>4. listeners'[i].for = outcome' /\ ~hangs' => listeners'[i].ran = 1
    BY <1>1, <1>4, <2>3
  <2> QED
    BY <2>1, <2>2, <2>4
<1> QED
  BY <1>6, <1>7, <1>8 DEF FutureIInv

(* A listener that comes when the outcome is known runs at once. *)
LEMMA ListenStep ==
  ASSUME FutureIInv, NEW for \in Resolutions, NEW asks \in BOOLEAN, Listen(NewListener(for, asks))
  PROVE  FutureIInv'
<1> DEFINE l == IF future = for THEN Ran(NewListener(for, asks)) ELSE NewListener(for, asks)
<1>1. /\ listeners \in Seq(AListener) /\ DOMAIN listeners = 1..Len(listeners) /\ Len(listeners) < MaxListeners
      /\ future \in FutureStates /\ outcome \in FutureStates /\ ~hangs /\ MaxListeners \in Nat
      /\ UNCHANGED <<future, outcome>>
  BY FutureAssumption DEF FutureIInv, ListenableFutureTypeOK, Listen
<1>2. l \in AListener /\ l.for = for /\ (l.late <=> future = "ABORTED") /\ l.ran = (IF future = for THEN 1 ELSE 0)
  <2> DEFINE n == NewListener(for, asks)
  <2>1. n = [for |-> for, asks |-> asks, late |-> future = "ABORTED", ran |-> 0]
    BY DEF NewListener
  <2>2. n \in AListener /\ n.for = for /\ n.ran = 0 /\ (n.late <=> future = "ABORTED")
    <3>1. CASE future = "ABORTED"
      <4>1. n = [for |-> for, asks |-> asks, late |-> TRUE, ran |-> 0]
        BY <2>1, <3>1
      <4> QED
        BY <3>1, <4>1 DEF AListener
    <3>2. CASE future # "ABORTED"
      <4>1. n = [for |-> for, asks |-> asks, late |-> FALSE, ran |-> 0]
        BY <2>1, <3>2
      <4> QED
        BY <3>2, <4>1 DEF AListener
    <3> QED
      BY <3>1, <3>2
  <2>3. Ran(n) = [n EXCEPT !.ran = 1]
    BY <2>2 DEF Ran, AListener
  <2> HIDE DEF n
  <2>4. Ran(n) \in AListener /\ Ran(n).for = for /\ Ran(n).ran = 1 /\ (Ran(n).late <=> future = "ABORTED")
    BY <2>2, <2>3 DEF AListener
  <2> QED
    BY <2>2, <2>4 DEF n
<1>3. listeners' = Append(listeners, l) /\ hangs' \in BOOLEAN
  BY DEF Listen, NewListener
<1> HIDE DEF l
<1>4. /\ listeners' \in Seq(AListener) /\ Len(listeners') = Len(listeners) + 1 /\ DOMAIN listeners' = 1..Len(listeners) + 1
      /\ listeners'[Len(listeners) + 1] = l
      /\ \A i \in 1..Len(listeners) : listeners'[i] = listeners[i]
  BY <1>1, <1>2, <1>3
<1>5. \A i \in DOMAIN listeners' : i \in DOMAIN listeners \/ i = Len(listeners) + 1
  BY <1>1, <1>4
<1>6. ListenableFutureTypeOK'
  BY <1>1, <1>3, <1>4 DEF ListenableFutureTypeOK
<1>7. OutcomeIsKept'
  BY <1>1 DEF FutureIInv, OutcomeIsKept
<1>8. NoneTold'
  BY <1>1, <1>2, <1>4, <1>5 DEF FutureIInv, NoneTold, Resolutions
<1>9. ToldOnce'
  <2> SUFFICES ASSUME NEW i \in DOMAIN listeners'
               PROVE  /\ listeners'[i].ran <= 1
                      /\ listeners'[i].ran = 1 => listeners'[i].for = outcome
                      /\ listeners'[i].for = outcome /\ ~listeners'[i].late => listeners'[i].ran = 1
    BY <1>1 DEF ToldOnce
  <2>1. CASE i \in DOMAIN listeners
    BY <1>1, <1>4, <2>1 DEF FutureIInv, ToldOnce
  <2>2. CASE i = Len(listeners) + 1
    <3>1. listeners'[i] = l
      BY <1>4, <2>2
    <3>2. l.ran = 1 => l.for = outcome
      BY <1>2 DEF FutureIInv, OutcomeIsKept
    <3>3. l.for = outcome /\ ~l.late => l.ran = 1
      <4>1. future = "ABORTED" \/ future = outcome
        BY <1>1 DEF FutureIInv, OutcomeIsKept, FutureStates, Resolutions
      <4> QED
        BY <1>2, <4>1
    <3> QED
      BY <1>2, <3>1, <3>2, <3>3
  <2> QED
    BY <1>5, <2>1, <2>2
<1> QED
  BY <1>6, <1>7, <1>8, <1>9 DEF FutureIInv

(* Until it is resolved a future has told nobody; it then has one outcome. *)
THEOREM FutureInductive == ListenableFutureSpec => []FutureIInv
<1>1. ListenableFutureInit => FutureIInv
  <2> SUFFICES ASSUME ListenableFutureInit PROVE FutureIInv
    OBVIOUS
  <2>1. listeners = << >> /\ outcome = future /\ ~hangs /\ future \in FutureStates /\ hangs \in BOOLEAN
    BY DEF ListenableFutureInit, FutureStates, Resolutions
  <2>2. listeners \in Seq(AListener) /\ Len(listeners) = 0 /\ DOMAIN listeners = {}
    BY <2>1
  <2> QED
    BY <2>1, <2>2, FutureAssumption DEF FutureIInv, ListenableFutureTypeOK, OutcomeIsKept, NoneTold, ToldOnce
<1>2. FutureIInv /\ [ListenableFutureNext]_listenableFutureVars => FutureIInv'
  <2> SUFFICES ASSUME FutureIInv, [ListenableFutureNext]_listenableFutureVars PROVE FutureIInv'
    OBVIOUS
  <2>1. CASE UNCHANGED listenableFutureVars
    BY <2>1 DEF listenableFutureVars, FutureIInv, ListenableFutureTypeOK, OutcomeIsKept, NoneTold, ToldOnce
  <2>2. ASSUME NEW asks \in BOOLEAN, OnFulfilled(asks) \/ OnRejected(asks) PROVE FutureIInv'
    BY <2>2, ListenStep DEF OnFulfilled, OnRejected, Resolutions
  <2>3. CASE Fulfill
    BY <2>3, RunAllStep DEF Fulfill, Resolutions
  <2>4. CASE Reject
    BY <2>4, RunAllStep DEF Reject, Resolutions
  <2>5. CASE AbortFuture
    <3>1. future' = "ABORTED" /\ outcome' \in FutureStates /\ outcome' # "NOT_RESOLVED" /\ UNCHANGED <<listeners, hangs>>
          /\ ((outcome = "NOT_RESOLVED" /\ outcome' = "ABORTED") \/ outcome' = outcome)
      BY <2>5 DEF AbortFuture, FirstOutcome, FutureIInv, ListenableFutureTypeOK, FutureStates
    <3>2. ListenableFutureTypeOK' /\ OutcomeIsKept' /\ NoneTold'
      BY <3>1 DEF FutureIInv, ListenableFutureTypeOK, OutcomeIsKept, NoneTold, FutureStates, Resolutions
    <3>3. ToldOnce'
      <4>1. \A i \in DOMAIN listeners : listeners[i].for \in Resolutions
        <5>1. \A i \in DOMAIN listeners : listeners[i] \in AListener
          BY DEF FutureIInv, ListenableFutureTypeOK
        <5> QED
          BY <5>1 DEF AListener
      <4>2. CASE outcome = "NOT_RESOLVED" /\ outcome' = "ABORTED"
        <5>1. \A i \in DOMAIN listeners : listeners[i].ran = 0 /\ listeners[i].for # "ABORTED"
          BY <4>1, <4>2 DEF FutureIInv, OutcomeIsKept, NoneTold, Resolutions
        <5> QED
          BY <3>1, <4>2, <5>1 DEF ToldOnce
      <4>3. CASE outcome' = outcome
        BY <3>1, <4>3 DEF FutureIInv, ToldOnce
      <4> QED
        BY <3>1, <4>2, <4>3
    <3> QED
      BY <3>2, <3>3 DEF FutureIInv
  <2> QED
    BY <2>1, <2>2, <2>3, <2>4, <2>5 DEF ListenableFutureNext
<1> QED
  BY <1>1, <1>2, PTL DEF ListenableFutureSpec

(* Whatever is added when (onFulfilled, onRejected), a listener of a future hears
   of its outcome, of no other, and once. *)
THEOREM ListenersAreToldOnce == ListenableFutureSpec => []ToldOnce
<1>1. FutureIInv => ToldOnce
  BY DEF FutureIInv
<1> QED
  BY <1>1, FutureInductive, PTL

(* The types of a future. *)
LEMMA FutureTyped == ListenableFutureSpec => []ListenableFutureTypeOK
<1>1. FutureIInv => ListenableFutureTypeOK
  BY DEF FutureIInv
<1> QED
  BY <1>1, FutureInductive, PTL

-----------------------------------------------------------------------------
(* The messages of the stream. *)

(* What an update can bring, the notifications in parts, and the lists of what *)
(* was heard. *)
TokenLists == Updates \cup {<<>>}
Brought == {0} \cup {FieldsOf(tokens, value)[f] : tokens \in TokenLists, value \in Nat, f \in 1..FieldCount}
Shown == [1..FieldCount -> Brought]
Hearings == [counted : Seq(Nat), item : Shown, settled : Nat]

(* An update gives each field something that it can bring. *)
LEMMA UpdateOfBrings ==
  ASSUME NEW item \in Shown, NEW tokens \in TokenLists, NEW value \in Nat
  PROVE  UpdateOf(item, tokens, value) \in Shown
<1> DEFINE fields == FieldsOf(tokens, value)
<1>1. ASSUME NEW f \in 1..FieldCount PROVE fields[f] \in Brought
  BY SMT DEF Brought
<1>2. UpdateOf(item, tokens, value) = [f \in 1..FieldCount |-> IF fields[f] = Unchanged THEN item[f] ELSE fields[f]]
  BY DEF UpdateOf
<1> HIDE DEF fields
<1>3. \A f \in 1..FieldCount : item[f] \in Brought
  BY DEF Shown
<1> QED
  BY <1>1, <1>2, <1>3 DEF Shown

(* The kinds of notifications. *)
LEMMA NotesAre ==
  ASSUME NEW note \in Notes
  PROVE  /\ note.tokens \in TokenLists /\ note.count \in Nat
         /\ note.kind # "message" => note.count = 0
         /\ note.kind \in {"update", "snapshot", "table", "mpn", "conf", "overflow", "message"}
<1>1. note \in [kind : {"update"}, tokens : Updates, count : {0}]
      \/ note \in [kind : {"snapshot", "table", "mpn", "conf", "overflow"}, tokens : {<<>>}, count : {0}]
      \/ note \in [kind : {"message"}, tokens : {<<>>}, count : 1..2]
  BY Zenon DEF Notes
<1> QED
  BY <1>1 DEF TokenLists

(* One notification more. *)
LEMMA HearingIsOne ==
  ASSUME NEW heard \in Hearings, NEW i \in Nat, NEW note \in Notes
  PROVE  Hearing(heard, i, note) \in Hearings
<1>1. heard.counted \in Seq(Nat) /\ heard.item \in Shown /\ heard.settled \in Nat
  BY DEF Hearings
<1>2. (IF note.kind \in {"conf", "overflow"} THEN heard.counted ELSE Append(heard.counted, i)) \in Seq(Nat)
  BY <1>1
<1>3. (IF note.kind = "update" THEN UpdateOf(heard.item, note.tokens, i) ELSE heard.item) \in Shown
  BY <1>1, NotesAre, UpdateOfBrings
<1>4. heard.settled + note.count \in Nat
  BY <1>1, NotesAre
<1> QED
  BY <1>2, <1>3, <1>4 DEF Hearing, Hearings

(* f is what the recursion of HeardOf computes of a log, place by place. *)
HeardStepwise(f, log, n) ==
  /\ f \in [0..n -> Hearings]
  /\ f[0] = NothingHeard
  /\ \A i \in 1..n : f[i] = Hearing(f[i - 1], i, log[i])

(* The recursion of HeardOf defines it. *)
LEMMA HeardDefined ==
  ASSUME NEW log \in Seq(Notes), NEW n \in 0..Len(log)
  PROVE  \E f : HeardStepwise(f, log, n) /\ HeardOf(log, n) = f[n]
<1> DEFINE Body(f) == [i \in 0..n |-> IF i = 0 THEN NothingHeard ELSE Hearing(f[i - 1], i, log[i])]
           G == [p \in Nat \X Hearings |-> IF p[1] \in 1..n THEN Hearing(p[2], p[1], log[p[1]]) ELSE p[2]]
           heard == CHOOSE f : f = Body(f)
<1>0. n \in Nat /\ \A i \in 1..n : log[i] \in Notes /\ i \in Nat /\ i - 1 \in 0..n /\ i \in 0..n /\ i # 0
  OBVIOUS
<1>1. NothingHeard \in Hearings
  <2>1. [f \in 1..FieldCount |-> 0] \in Shown
    BY DEF Shown, Brought
  <2> QED
    BY <2>1 DEF NothingHeard, Hearings
<1>2. G \in [Nat \X Hearings -> Hearings]
  <2>1. ASSUME NEW i \in Nat, NEW h \in Hearings PROVE (IF i \in 1..n THEN Hearing(h, i, log[i]) ELSE h) \in Hearings
    BY <1>0, HearingIsOne
  <2> QED
    BY <2>1
<1>3. PICK f : Recursive(f, n, Hearings, NothingHeard, G)
  <2> HIDE DEF G
  <2> QED
    BY <1>0, <1>1, <1>2, Recursion
<1>4. f \in [0..n -> Hearings] /\ f[0] = NothingHeard /\ \A i \in 1..n : f[i] = Hearing(f[i - 1], i, log[i])
  <2>1. f \in [0..n -> Hearings] /\ f[0] = NothingHeard /\ \A i \in 1..n : f[i] = G[<<i, f[i - 1]>>]
    BY <1>3 DEF Recursive
  <2>2. ASSUME NEW i \in 1..n PROVE G[<<i, f[i - 1]>>] = Hearing(f[i - 1], i, log[i])
    <3>1. <<i, f[i - 1]>> \in Nat \X Hearings
      BY <1>0, <2>1
    <3> QED
      BY <3>1
  <2> HIDE DEF G
  <2> QED
    BY <2>1, <2>2
<1>5. f = Body(f)
  <2>1. \A i \in 0..n : i = 0 \/ i \in 1..n
    BY <1>0
  <2> QED
    BY <1>4, <2>1
<1>6. heard = Body(heard)
  <2> HIDE DEF Body
  <2> QED
    BY <1>5
<1>7. \A g : g = Body(g) => g[0] = NothingHeard /\ \A i \in 1..n : g[i] = Hearing(g[i - 1], i, log[i])
  <2> TAKE g
  <2> HAVE g = Body(g)
  <2>1. 0 \in 0..n
    BY <1>0
  <2>2. \A i \in 0..n : Body(g)[i] = IF i = 0 THEN NothingHeard ELSE Hearing(g[i - 1], i, log[i])
    OBVIOUS
  <2> HIDE DEF Body
  <2> QED
    BY <1>0, <2>1, <2>2
<1>8. HeardOf(log, n) = heard[n]
  BY DEF HeardOf
<1>9. heard[n] = f[n]
  <2> DEFINE P == {m \in Nat : m \in 0..n => heard[m] = f[m]}
  <2> HIDE DEF heard, Body
  <2>1. 0 \in P
    BY <1>4, <1>6, <1>7
  <2>2. ASSUME NEW m \in Nat, m \in P PROVE m + 1 \in P
    <3> SUFFICES ASSUME m + 1 \in 0..n PROVE heard[m + 1] = f[m + 1]
      OBVIOUS
    <3>1. m \in 0..n /\ (m + 1) - 1 = m /\ m + 1 \in 1..n
      BY <1>0
    <3>2. heard[m] = f[m]
      BY <2>2, <3>1
    <3>3. heard[m + 1] = Hearing(heard[(m + 1) - 1], m + 1, log[m + 1])
      BY <1>6, <1>7, <3>1
    <3>4. f[m + 1] = Hearing(f[(m + 1) - 1], m + 1, log[m + 1])
      BY <1>4, <3>1
    <3> QED
      BY <3>1, <3>2, <3>3, <3>4
  <2>3. \A m \in Nat : m \in P
    <3> HIDE DEF P
    <3> QED
      BY <2>1, <2>2, SetInduction
  <2> QED
    BY <1>0, <2>3
<1> QED
  BY <1>4, <1>8, <1>9 DEF HeardStepwise

(* HeardOf does what it says: nothing at first, then one notification more. *)
LEMMA HeardIsHeard ==
  ASSUME NEW log \in Seq(Notes)
  PROVE  /\ HeardOf(log, 0) = NothingHeard
         /\ \A n \in 0..Len(log) : HeardOf(log, n) \in Hearings
         /\ \A n \in 1..Len(log) : HeardOf(log, n) = Hearing(HeardOf(log, n - 1), n, log[n])
<1>0. Len(log) \in Nat
  OBVIOUS
<1>1. ASSUME NEW n \in 0..Len(log) PROVE HeardOf(log, n) \in Hearings
  BY HeardDefined DEF HeardStepwise
<1>2. HeardOf(log, 0) = NothingHeard
  BY <1>0, HeardDefined DEF HeardStepwise
<1>3. ASSUME NEW n \in 1..Len(log) PROVE HeardOf(log, n) = Hearing(HeardOf(log, n - 1), n, log[n])
  <2>0. n \in 0..Len(log) /\ n - 1 \in 0..Len(log)
    BY <1>0
  <2>1. PICK f : HeardStepwise(f, log, n) /\ HeardOf(log, n) = f[n]
    BY <2>0, HeardDefined
  <2>2. PICK g : HeardStepwise(g, log, n - 1) /\ HeardOf(log, n - 1) = g[n - 1]
    BY <2>0, HeardDefined
  <2> DEFINE P == {m \in Nat : m <= n - 1 => f[m] = g[m]}
  <2>3. 0 \in P
    BY <2>1, <2>2 DEF HeardStepwise
  <2>4. ASSUME NEW m \in Nat, m \in P PROVE m + 1 \in P
    <3> SUFFICES ASSUME m + 1 <= n - 1 PROVE f[m + 1] = g[m + 1]
      OBVIOUS
    <3>1. f[m] = g[m] /\ m + 1 \in 1..n /\ m + 1 \in 1..(n - 1) /\ (m + 1) - 1 = m
      BY <2>4
    <3> QED
      BY <2>1, <2>2, <3>1 DEF HeardStepwise
  <2>5. \A m \in Nat : m \in P
    <3> HIDE DEF P
    <3> QED
      BY <2>3, <2>4, SetInduction
  <2>6. f[n - 1] = g[n - 1]
    <3>1. n - 1 \in Nat /\ n - 1 <= n - 1
      BY <1>0
    <3> QED
      BY <2>5, <3>1
  <2> QED
    BY <2>1, <2>2, <2>6 DEF HeardStepwise
<1> QED
  BY <1>1, <1>2, <1>3
(* A prefix has the same elements, as far as it goes. *)
LEMMA PrefixPlaces ==
  ASSUME NEW T, NEW s \in Seq(T), NEW t \in Seq(T)
  PROVE  IsPrefix(s, t) <=> Len(s) <= Len(t) /\ \A i \in 1..Len(s) : s[i] = t[i]
<1>1. ASSUME Len(s) <= Len(t)
      PROVE  /\ Len(SubSeq(s, 1, Len(s))) = Len(s) /\ SubSeq(s, 1, Len(s)) \in Seq(T)
             /\ \A i \in 1..Len(s) : SubSeq(s, 1, Len(s))[i] = s[i]
             /\ Len(SubSeq(t, 1, Len(s))) = Len(s) /\ SubSeq(t, 1, Len(s)) \in Seq(T)
             /\ \A i \in 1..Len(s) : SubSeq(t, 1, Len(s))[i] = t[i]
  BY <1>1
<1> DEFINE a == SubSeq(s, 1, Len(s))  b == SubSeq(t, 1, Len(s))
<1>2. IsPrefix(s, t) <=> Len(s) <= Len(t) /\ a = b
  BY DEF IsPrefix
<1>3. Len(s) <= Len(t) => /\ Len(a) = Len(s) /\ a \in Seq(T) /\ \A i \in 1..Len(s) : a[i] = s[i]
                          /\ Len(b) = Len(s) /\ b \in Seq(T) /\ \A i \in 1..Len(s) : b[i] = t[i]
  BY <1>1
<1> HIDE DEF a, b
<1>4. ASSUME Len(s) <= Len(t), a = b PROVE \A i \in 1..Len(s) : s[i] = t[i]
  BY <1>3, <1>4, SMTT(30)
<1>5. ASSUME Len(s) <= Len(t), \A i \in 1..Len(s) : s[i] = t[i] PROVE a = b
  <2>1. \A i \in 1..Len(a) : a[i] = b[i]
    BY <1>3, <1>5, SMTT(30)
  <2> QED
    BY <1>3, <1>5, <2>1, SeqEqual
<1> QED
  BY <1>2, <1>4, <1>5

(* In parts: what one notification more makes of what was heard before. *)
LEMMA HeardNext ==
  ASSUME NEW log \in Seq(Notes), NEW n \in Nat, n < Len(log)
  PROVE  /\ HeardOf(log, n + 1) \in Hearings /\ HeardOf(log, n) \in Hearings
         /\ HeardOf(log, n + 1) = Hearing(HeardOf(log, n), n + 1, log[n + 1])
         /\ HeardOf(log, n + 1).counted = (IF log[n + 1].kind \in {"conf", "overflow"} THEN HeardOf(log, n).counted
                                         ELSE Append(HeardOf(log, n).counted, n + 1))
         /\ HeardOf(log, n + 1).item = (IF log[n + 1].kind = "update" THEN UpdateOf(HeardOf(log, n).item, log[n + 1].tokens, n + 1)
                                      ELSE HeardOf(log, n).item)
         /\ HeardOf(log, n + 1).settled = HeardOf(log, n).settled + log[n + 1].count
<1>1. n + 1 \in 1..Len(log) /\ n + 1 \in 0..Len(log) /\ n \in 0..Len(log) /\ (n + 1) - 1 = n
  OBVIOUS
<1>2. HeardOf(log, n + 1) = Hearing(HeardOf(log, n), n + 1, log[n + 1])
  BY <1>1, HeardIsHeard
<1>3. HeardOf(log, n + 1) \in Hearings /\ HeardOf(log, n) \in Hearings
  BY <1>1, HeardIsHeard
<1> DEFINE h == HeardOf(log, n)  note == log[n + 1]  g == HeardOf(log, n + 1)
<1> HIDE DEF h, note, g
<1>4. g = Hearing(h, n + 1, note)
  BY <1>2 DEF g, h, note
<1>5. g.counted = IF note.kind \in {"conf", "overflow"} THEN h.counted ELSE Append(h.counted, n + 1)
  BY <1>4 DEF Hearing
<1>6. g.item = IF note.kind = "update" THEN UpdateOf(h.item, note.tokens, n + 1) ELSE h.item
  BY <1>4 DEF Hearing
<1>7. g.settled = h.settled + note.count
  BY <1>4 DEF Hearing
<1> QED
  BY <1>2, <1>3, <1>5, <1>6, <1>7, Zenon DEF g, h, note

(* The parts of what was heard. *)
LEMMA HeardParts ==
  ASSUME NEW log \in Seq(Notes), NEW n \in 0..Len(log)
  PROVE  /\ HeardOf(log, n).counted \in Seq(Nat) /\ HeardOf(log, n).settled \in Nat /\ HeardOf(log, n).item \in Shown
         /\ HeardOf(log, n) = [counted |-> HeardOf(log, n).counted, item |-> HeardOf(log, n).item, settled |-> HeardOf(log, n).settled]
<1>1. HeardOf(log, n) \in Hearings
  BY HeardIsHeard
<1> QED
  BY <1>1 DEF Hearings

(* What counts is heard once, so never more than there is; and what was heard *)
(* comes first in what is heard later, which is the same as long as nothing   *)
(* that counts comes in between. *)
Follows(log, m, n) ==
  /\ IsPrefix(HeardOf(log, m).counted, HeardOf(log, n).counted)
  /\ Len(HeardOf(log, m).counted) = Len(HeardOf(log, n).counted) => HeardOf(log, m) = HeardOf(log, n)
(* One more notification is heard after the others. *)
LEMMA HeardGrows ==
  ASSUME NEW log \in Seq(Notes), NEW m \in 0..Len(log), NEW n \in 0..Len(log), m <= n
  PROVE  Follows(log, m, n) /\ Len(HeardOf(log, n).counted) <= n
<1> DEFINE P == {k \in Nat : k <= Len(log) => Len(HeardOf(log, k).counted) <= k}
           Q == {k \in Nat : m + k <= Len(log) => Follows(log, m, m + k)}
<1>0. Len(log) \in Nat /\ m \in Nat /\ n \in Nat
  OBVIOUS
<1>1. 0 \in P
  BY HeardIsHeard DEF NothingHeard
<1>2. ASSUME NEW k \in Nat, k \in P PROVE k + 1 \in P
  <2> SUFFICES ASSUME k + 1 <= Len(log) PROVE Len(HeardOf(log, k + 1).counted) <= k + 1
    OBVIOUS
  <2>1. k < Len(log) /\ k \in 0..Len(log) /\ Len(HeardOf(log, k).counted) <= k
    BY <1>0, <1>2
  <2>2. HeardOf(log, k).counted \in Seq(Nat)
    BY <2>1, HeardParts
  <2>3. HeardOf(log, k + 1).counted \in {HeardOf(log, k).counted, Append(HeardOf(log, k).counted, k + 1)}
    BY <2>1, HeardNext
  <2> DEFINE c == HeardOf(log, k).counted
  <2> HIDE DEF c
  <2>4. Len(Append(c, k + 1)) = Len(c) + 1 /\ Len(c) \in Nat
    BY <2>2 DEF c
  <2> QED
    BY <2>1, <2>3, <2>4 DEF c
<1>3. \A k \in Nat : k \in P
  <2> HIDE DEF P
  <2> QED
    BY <1>1, <1>2, SetInduction
<1>4. 0 \in Q
  <2>1. HeardOf(log, m).counted \in Seq(Nat)
    BY HeardParts
  <2>2. Follows(log, m, m)
    BY <2>1 DEF Follows, IsPrefix
  <2> QED
    BY <1>0, <2>2
<1>5. ASSUME NEW k \in Nat, k \in Q PROVE k + 1 \in Q
  <2> DEFINE j == m + k
  <2> SUFFICES ASSUME j + 1 <= Len(log) PROVE Follows(log, m, j + 1)
    BY <1>0
  <2>0. j \in Nat /\ j < Len(log) /\ j \in 0..Len(log) /\ j + 1 \in 0..Len(log)
    BY <1>0
  <2>1. Follows(log, m, j)
    BY <1>5, <2>0
  <2> HIDE DEF j
  <2> DEFINE a == HeardOf(log, m).counted  c == HeardOf(log, j).counted  d == HeardOf(log, j + 1).counted
  <2>2. a \in Seq(Nat) /\ c \in Seq(Nat) /\ d \in Seq(Nat)
    BY <2>0, HeardParts
  <2>3. CASE log[j + 1].kind \in {"conf", "overflow"}
    <3>1. log[j + 1] \in Notes
      BY <2>0
    <3>2. log[j + 1].count = 0 /\ log[j + 1].kind # "update"
      BY <2>3, <3>1, NotesAre
    <3>3. d = c /\ HeardOf(log, j + 1).item = HeardOf(log, j).item
      BY <2>0, <2>3, <3>2, HeardNext
    <3>4. HeardOf(log, j + 1).settled = HeardOf(log, j).settled
      <4>1. HeardOf(log, j + 1).settled = HeardOf(log, j).settled + log[j + 1].count /\ HeardOf(log, j).settled \in Nat
        BY <2>0, HeardNext, HeardParts
      <4> QED
        BY <3>2, <4>1
    <3>5. HeardOf(log, j + 1) = HeardOf(log, j)
      BY <2>0, <3>3, <3>4, HeardParts, Zenon
    <3> QED
      BY <2>1, <3>5 DEF Follows
  <2>4. CASE ~(log[j + 1].kind \in {"conf", "overflow"})
    <3>1. d = Append(c, j + 1)
      BY <2>0, <2>4, HeardNext
    <3>2. IsPrefix(a, c)
      BY <2>1 DEF Follows
    <3> HIDE DEF a, c, d
    <3>3. Len(d) = Len(c) + 1 /\ \A i \in 1..Len(c) : d[i] = c[i]
      BY <2>0, <2>2, <3>1
    <3>4. Len(a) <= Len(c) /\ \A i \in 1..Len(a) : a[i] = c[i]
      BY <2>2, <3>2, PrefixPlaces
    <3>5. Len(a) < Len(d) /\ \A i \in 1..Len(a) : a[i] = d[i]
      BY <2>2, <3>3, <3>4
    <3>6. IsPrefix(a, d) /\ Len(a) # Len(d)
      <4>1. Len(a) <= Len(d) /\ Len(a) # Len(d)
        BY <2>2, <3>3, <3>4
      <4> QED
        BY <2>2, <3>5, <4>1, PrefixPlaces, SMTT(30)
    <3> QED
      BY <3>6 DEF Follows, a, d
  <2> QED
    BY <2>3, <2>4
<1>6. \A k \in Nat : k \in Q
  <2> HIDE DEF Q
  <2> QED
    BY <1>4, <1>5, SetInduction
<1>7. n - m \in Nat /\ m + (n - m) = n /\ n <= Len(log)
  BY <1>0
<1>8. Follows(log, m, m + (n - m))
  BY <1>6, <1>7
<1> QED
  BY <1>0, <1>3, <1>7, <1>8

(* What is notified later changes nothing of what was heard. *)
LEMMA HeardOfLonger ==
  ASSUME NEW log \in Seq(Notes), NEW note \in Notes, NEW n \in 0..Len(log)
  PROVE  HeardOf(Append(log, note), n) = HeardOf(log, n)
<1> DEFINE longer == Append(log, note)
           P == {k \in Nat : k <= Len(log) => HeardOf(longer, k) = HeardOf(log, k)}
<1>0. Len(log) \in Nat /\ longer \in Seq(Notes) /\ Len(longer) = Len(log) + 1 /\ \A i \in 1..Len(log) : longer[i] = log[i]
  OBVIOUS
<1> HIDE DEF longer
<1>1. 0 \in P
  BY <1>0, HeardIsHeard
<1>2. ASSUME NEW k \in Nat, k \in P PROVE k + 1 \in P
  <2> SUFFICES ASSUME k + 1 <= Len(log) PROVE HeardOf(longer, k + 1) = HeardOf(log, k + 1)
    OBVIOUS
  <2>1. k < Len(log) /\ k < Len(longer) /\ k + 1 \in 1..Len(log) /\ HeardOf(longer, k) = HeardOf(log, k)
    BY <1>0, <1>2
  <2>2. HeardOf(log, k + 1) = Hearing(HeardOf(log, k), k + 1, log[k + 1])
    BY <2>1, HeardNext
  <2>3. HeardOf(longer, k + 1) = Hearing(HeardOf(longer, k), k + 1, longer[k + 1])
    BY <1>0, <2>1, HeardNext
  <2> QED
    BY <1>0, <2>1, <2>2, <2>3
<1>3. \A k \in Nat : k \in P
  <2> HIDE DEF P
  <2> QED
    BY <1>1, <1>2, SetInduction
<1> QED
  BY <1>0, <1>3 DEF longer
(* The inductive invariant, of a stream where no PROG was ignored that says   *)
(* otherwise: the session has what comes to it from the notifications up to   *)
(* the last that it was passed; what it counted and where the connection is    *)
(* agree, currentProg telling where among the counted ones.                    *)
Seen == Last(<<0>> \o notesPassed)
StreamTypes ==
  /\ noteLog \in Seq(Notes) /\ Len(noteLog) <= MaxNotes
  /\ streamAt \in 0..Len(noteLog)
  /\ notesPassed \in Seq(Nat) /\ notesCounted \in Nat /\ currentProg \in Nat /\ recoveries \in Nat
HasSeen(seen) ==
  /\ notesPassed = HeardOf(noteLog, seen).counted
  /\ itemSeen = HeardOf(noteLog, seen).item
  /\ messagesTold = [i \in 1..HeardOf(noteLog, seen).settled |-> i]
CountsPassed == Seen \in 0..Len(noteLog) /\ notesCounted = Len(notesPassed) /\ HasSeen(Seen)
Placed ==
  /\ streamStatus = "OPENING_STREAM" /\ recoveries = 0 => notesCounted = 0
  /\ streamStatus # "STREAM_CLOSED" /\ currentProg # NoProg => currentProg <= notesCounted
  /\ streamStatus = "READING_STREAM" /\ ~progDue =>
       Len(HeardOf(noteLog, streamAt).counted) = IF currentProg = NoProg THEN notesCounted ELSE currentProg
StreamIInv == StreamTypes /\ (~misplaced => CountsPassed /\ Placed)

(* NoProg is no number of notifications. *)
LEMMA NoProgIsNone == NoProg \in Nat /\ NoProg > MaxNotes
<1>1. MaxNotes \in Nat /\ MaxRecoveries \in Nat
  BY StreamAssumption
<1>2. MaxNotes * (MaxRecoveries + 1) = MaxNotes * MaxRecoveries + MaxNotes /\ MaxNotes * MaxRecoveries \in Nat
  BY <1>1
<1> QED
  BY <1>1, <1>2 DEF NoProg

(* The last one passed is the last of those passed. *)
LEMMA SeenIsLast ==
  ASSUME NEW s \in Seq(Nat), NEW k \in Nat
  PROVE  Last(<<0>> \o Append(s, k)) = k /\ Last(<<0>> \o <<>>) = 0
<1> DEFINE t == Append(s, k)
<1>1. t \in Seq(Nat) /\ Len(t) = Len(s) + 1 /\ Len(s) \in Nat /\ t[Len(s) + 1] = k
  OBVIOUS
<1> HIDE DEF t
<1>2. Len(<<0>> \o t) = Len(s) + 2
  BY <1>1
<1>3. (<<0>> \o t)[Len(s) + 2] = k
  BY <1>1
<1>4. <<0>> \o << >> = <<0>> /\ Len(<<0>>) = 1
  OBVIOUS
<1> QED
  BY <1>2, <1>3, <1>4 DEF Last, t

(* The outcomes of the messages that a notification settles follow those     *)
(* told before. *)
LEMMA DiscardedFollow ==
  ASSUME NEW s \in Nat, NEW c \in Nat
  PROVE  [i \in 1..s |-> i] \o Discarded(s + c, c) = [i \in 1..(s + c) |-> i]
<1> DEFINE a == [i \in 1..s |-> i]  b == Discarded(s + c, c)  d == [i \in 1..(s + c) |-> i]
<1>1. a \in Seq(Nat) /\ Len(a) = s /\ \A i \in 1..s : a[i] = i
  OBVIOUS
<1>2. b = [i \in 1..c |-> s + i]
  <2>1. \A i \in 1..c : (s + c) - c + i = s + i
    OBVIOUS
  <2> QED
    BY <2>1 DEF Discarded
<1>3. b \in Seq(Nat) /\ Len(b) = c /\ \A i \in 1..c : b[i] = s + i
  BY <1>2
<1>4. d \in Seq(Nat) /\ Len(d) = s + c /\ \A i \in 1..(s + c) : d[i] = i
  OBVIOUS
<1> HIDE DEF a, b, d
<1>0. a \in Seq(Nat) /\ b \in Seq(Nat) /\ Len(a) = s /\ Len(b) = c
  BY <1>1, <1>3
<1>5. /\ a \o b \in Seq(Nat) /\ Len(a \o b) = Len(a) + Len(b)
      /\ \A i \in 1..(Len(a) + Len(b)) : (a \o b)[i] = IF i <= Len(a) THEN a[i] ELSE b[i - Len(a)]
  BY <1>0, ConcatProperties
<1>6. ASSUME NEW i \in 1..(s + c) PROVE (a \o b)[i] = i
  <2>1. i \in Nat /\ i \in 1..(Len(a) + Len(b))
    BY <1>1, <1>3
  <2>2. (a \o b)[i] = IF i <= Len(a) THEN a[i] ELSE b[i - Len(a)]
    BY <1>5, <2>1
  <2>3. CASE i <= s
    <3>1. i \in 1..s
      BY <2>1, <2>3
    <3> QED
      BY <1>1, <2>2, <3>1
  <2>4. CASE ~(i <= s)
    <3>1. i - s \in 1..c /\ s + (i - s) = i
      BY <2>1, <2>4
    <3>2. b[i - s] = i
      BY <1>3, <3>1
    <3> QED
      BY <1>1, <2>2, <2>4, <3>2
  <2> QED
    BY <2>3, <2>4
<1>7. a \o b = d
  <2>1. d \in Seq(Nat) /\ a \o b \in Seq(Nat) /\ Len(d) = Len(a \o b)
    BY <1>0, <1>4, <1>5
  <2> DEFINE e == a \o b
  <2>2. \A i \in 1..(s + c) : e[i] = i
    BY <1>6
  <2> HIDE DEF e
  <2>4. \A i \in 1..Len(d) : d[i] = e[i]
    BY <1>4, <2>2
  <2>3. d = e
    BY <2>1, <2>4, SeqEqual DEF e
  <2> QED
    BY <2>3 DEF e
<1> QED
  BY <1>7 DEF a, b, d

(* What was heard up to the last one that was passed is what was heard up to *)
(* where the connection is, if this is new. *)
LEMMA CaughtUp ==
  ASSUME StreamTypes, CountsPassed, Len(HeardOf(noteLog, streamAt).counted) = notesCounted
  PROVE  HasSeen(streamAt)
<1>1. noteLog \in Seq(Notes) /\ streamAt \in 0..Len(noteLog) /\ Seen \in 0..Len(noteLog) /\ Len(noteLog) \in Nat
  BY DEF StreamTypes, CountsPassed
<1>2. Len(HeardOf(noteLog, Seen).counted) = Len(HeardOf(noteLog, streamAt).counted)
  BY DEF CountsPassed, HasSeen
<1>3. CASE Seen <= streamAt
  <2>1. Follows(noteLog, Seen, streamAt)
    BY <1>1, <1>3, HeardGrows
  <2>2. HeardOf(noteLog, Seen) = HeardOf(noteLog, streamAt)
    BY <1>2, <2>1 DEF Follows
  <2> QED
    BY <2>2 DEF CountsPassed, HasSeen
<1>4. CASE streamAt <= Seen
  <2>1. Follows(noteLog, streamAt, Seen)
    BY <1>1, <1>4, HeardGrows
  <2>2. HeardOf(noteLog, Seen) = HeardOf(noteLog, streamAt)
    BY <1>2, <2>1 DEF Follows
  <2> QED
    BY <2>2 DEF CountsPassed, HasSeen
<1> QED
  BY <1>1, <1>3, <1>4

(* A notification that counts is passed on if it is new, and only then.       *)
LEMMA NotePassedStep ==
  ASSUME StreamIInv, ~misplaced, NEW k, Reads(k), PassOn, k \notin {"conf", "overflow"},
         \/ k = "update" /\ itemSeen' = (IF IsNew THEN UpdateOf(itemSeen, NextNote.tokens, streamAt + 1) ELSE itemSeen)
         \/ k # "update" /\ itemSeen' = itemSeen,
         \/ /\ k = "message"
            /\ messagesTold' = (IF IsNew THEN messagesTold \o Discarded(HeardOf(noteLog, streamAt + 1).settled, NextNote.count)
                                ELSE messagesTold)
         \/ k # "message" /\ messagesTold' = messagesTold
  PROVE  StreamIInv'
<1> DEFINE n == streamAt + 1  L == Len(noteLog)  note == NextNote
<1>1. /\ noteLog \in Seq(Notes) /\ L \in Nat /\ L <= MaxNotes /\ streamAt \in Nat /\ streamAt < L
      /\ notesPassed \in Seq(Nat) /\ notesCounted \in Nat /\ currentProg \in Nat /\ recoveries \in Nat
  BY DEF StreamIInv, StreamTypes, Reads
<1>2. CountsPassed /\ Placed /\ StreamTypes
  BY DEF StreamIInv
<1>3. /\ noteLog' = noteLog /\ streamAt' = n /\ misplaced' = misplaced /\ recoveries' = recoveries
      /\ streamStatus' = "READING_STREAM" /\ streamStatus = "READING_STREAM" /\ progDue' = progDue /\ ~progDue
      /\ note = noteLog[n] /\ note.kind = k
  BY DEF Reads, NextNote
<1>4. note \in Notes /\ n \in 0..L /\ n \in Nat
  BY <1>1, <1>3
<1> HIDE DEF L, note
<1> DEFINE before == HeardOf(noteLog, streamAt)  after == HeardOf(noteLog, n)
<1>5. /\ after.counted = Append(before.counted, n)
      /\ after.item = (IF note.kind = "update" THEN UpdateOf(before.item, note.tokens, n) ELSE before.item)
      /\ after.settled = before.settled + note.count
      /\ before.counted \in Seq(Nat) /\ before.settled \in Nat
  <2>1. note.kind \notin {"conf", "overflow"}
    BY <1>3
  <2>2. streamAt \in 0..L
    BY <1>1
  <2>3. before.counted \in Seq(Nat) /\ before.settled \in Nat
    BY <1>1, <2>2, HeardParts DEF L
  <2> QED
    BY <1>1, <1>3, <2>1, <2>3, HeardNext DEF L
<1> HIDE DEF before, after
<1>6. Len(after.counted) = Len(before.counted) + 1 /\ Len(before.counted) \in Nat
  BY <1>4, <1>5
<1>7. Len(after.counted) <= L
  <2>1. Len(after.counted) <= n
    BY <1>1, <1>4, HeardGrows DEF L, after
  <2> QED
    BY <1>1, <2>1, <1>6, <1>4
<1>8. Len(before.counted) = IF currentProg = NoProg THEN notesCounted ELSE currentProg
  BY <1>2, <1>3 DEF Placed, before
<1>9. currentProg # NoProg => currentProg <= notesCounted
  BY <1>2, <1>3 DEF Placed
<1>10. NoProg \in Nat /\ NoProg > MaxNotes /\ MaxNotes \in Nat
  BY NoProgIsNone, StreamAssumption
<1>11. /\ currentProg' = (IF currentProg = NoProg THEN NoProg ELSE currentProg + 1)
       /\ notesCounted' = (IF IsNew THEN notesCounted + 1 ELSE notesCounted)
       /\ notesPassed' = (IF IsNew THEN Append(notesPassed, n) ELSE notesPassed)
  BY DEF PassOn, CountNotification
<1>12. IsNew <=> (currentProg = NoProg \/ currentProg + 1 > notesCounted)
  BY DEF IsNew
<1>13. StreamTypes'
  <2>1. currentProg' \in Nat /\ notesCounted' \in Nat
    BY <1>1, <1>10, <1>11
  <2>2. notesPassed' \in Seq(Nat)
    BY <1>1, <1>4, <1>11
  <2> QED
    BY <1>1, <1>3, <1>4, <2>1, <2>2 DEF StreamTypes, L
<1>14. Placed'
  <2>1. currentProg' # NoProg' => currentProg' <= notesCounted'
    BY <1>1, <1>6, <1>7, <1>8, <1>9, <1>10, <1>11, <1>12 DEF NoProg
  <2>2. Len(after.counted) = IF currentProg' = NoProg' THEN notesCounted' ELSE currentProg'
    BY <1>1, <1>6, <1>7, <1>8, <1>9, <1>10, <1>11, <1>12 DEF NoProg
  <2>3. HeardOf(noteLog', streamAt') = after
    BY <1>3 DEF after
  <2> QED
    BY <1>3, <2>1, <2>2, <2>3, Zenon DEF Placed
<1>15. CASE ~IsNew
  <2>1. UNCHANGED <<notesCounted, notesPassed, itemSeen, messagesTold, noteLog>>
    BY <1>3, <1>11, <1>15
  <2>2. CountsPassed'
    BY <1>2, <2>1 DEF CountsPassed, HasSeen, Seen
  <2> QED
    BY <1>13, <1>14, <2>2 DEF StreamIInv
<1>16. CASE IsNew
  <2>1. Len(before.counted) = notesCounted
    BY <1>1, <1>8, <1>9, <1>12, <1>16
  <2>2. HasSeen(streamAt)
    BY <1>2, <2>1, CaughtUp DEF before
  <2>3. notesPassed' = after.counted
    BY <1>5, <1>11, <1>16, <2>2 DEF HasSeen, before
  <2>4. itemSeen' = after.item
    BY <1>3, <1>5, <1>16, <2>2 DEF HasSeen, before, note
  <2>5. messagesTold' = [i \in 1..after.settled |-> i]
    <3>1. note.count \in Nat /\ (k # "message" => note.count = 0)
      BY <1>3, <1>4, NotesAre
    <3>2. messagesTold = [i \in 1..before.settled |-> i]
      BY <2>2 DEF HasSeen, before
    <3>3. CASE k = "message"
      <4>1. messagesTold' = messagesTold \o Discarded(after.settled, note.count)
        BY <1>16, <3>3 DEF after, note
      <4> QED
        BY <1>5, <3>1, <3>2, <4>1, DiscardedFollow
    <3>4. CASE k # "message"
      <4>1. after.settled = before.settled
        BY <1>5, <3>1, <3>4
      <4> QED
        BY <3>2, <3>4, <4>1
    <3> QED
      BY <3>3, <3>4
  <2>6. Seen' = n
    BY <1>1, <1>4, <1>11, <1>16, SeenIsLast DEF Seen
  <2>8. notesCounted' = Len(notesPassed')
    <3>1. Len(Append(notesPassed, n)) = Len(notesPassed) + 1
      BY <1>1, <1>4
    <3> QED
      BY <1>2, <1>11, <1>16, <3>1 DEF CountsPassed
  <2>9. CountsPassed'
    BY <1>3, <1>4, <2>6, <2>3, <2>4, <2>5, <2>8 DEF CountsPassed, HasSeen, L, after
  <2> QED
    BY <1>13, <1>14, <2>9 DEF StreamIInv
<1> QED
  BY <1>15, <1>16

(* A message that is read. *)
LEMMA ReadTypes ==
  ASSUME StreamTypes, NEW k, Reads(k), PassOn \/ UNCHANGED <<notesCounted, currentProg, notesPassed>>
  PROVE  StreamTypes'
<1>1. /\ noteLog \in Seq(Notes) /\ streamAt \in Nat /\ streamAt < Len(noteLog)
      /\ notesPassed \in Seq(Nat) /\ notesCounted \in Nat /\ currentProg \in Nat /\ NoProg \in Nat
      /\ noteLog' = noteLog /\ streamAt' = streamAt + 1 /\ recoveries' = recoveries
  BY NoProgIsNone DEF StreamTypes, Reads
<1>2. notesCounted' \in Nat /\ currentProg' \in Nat /\ notesPassed' \in Seq(Nat)
  <2>1. CASE PassOn
    BY <1>1, <2>1 DEF PassOn, CountNotification
  <2>2. CASE UNCHANGED <<notesCounted, currentProg, notesPassed>>
    BY <1>1, <2>2
  <2> QED
    BY <2>1, <2>2
<1>3. streamAt' \in 0..Len(noteLog')
  BY <1>1
<1> QED
  BY <1>1, <1>2, <1>3 DEF StreamTypes

(* A message that does not count is passed over. *)
LEMMA IgnoredStep ==
  ASSUME StreamIInv, NEW k, Ignored(k), k \in {"conf", "overflow"}
  PROVE  StreamIInv'
<1>1. StreamTypes'
  BY ReadTypes DEF StreamIInv, Ignored
<1> SUFFICES ASSUME ~misplaced' PROVE CountsPassed' /\ Placed'
  BY <1>1 DEF StreamIInv
<1>2. /\ noteLog' = noteLog /\ streamAt' = streamAt + 1 /\ misplaced' = misplaced /\ recoveries' = recoveries
      /\ streamStatus' = streamStatus /\ streamStatus = "READING_STREAM" /\ progDue' = progDue /\ ~progDue
      /\ noteLog[streamAt + 1].kind = k /\ streamAt < Len(noteLog)
      /\ notesCounted' = notesCounted /\ currentProg' = currentProg
  BY DEF Ignored, Reads, NextNote
<1>3. CountsPassed /\ Placed /\ noteLog \in Seq(Notes) /\ streamAt \in Nat
  BY <1>2 DEF StreamIInv, StreamTypes
<1>4. CountsPassed'
  <2>1. UNCHANGED <<notesCounted, notesPassed, itemSeen, messagesTold, noteLog>>
    BY <1>2 DEF Ignored
  <2> QED
    BY <1>3, <2>1 DEF CountsPassed, HasSeen, Seen
<1>5. HeardOf(noteLog', streamAt').counted = HeardOf(noteLog, streamAt).counted
  BY <1>2, <1>3, HeardNext
<1>6. Placed'
  BY <1>2, <1>3, <1>5, Zenon DEF Placed, NoProg
<1> QED
  BY <1>4, <1>6

(* What the session has stays the same as long as it is passed nothing. *)
LEMMA NothingPassed ==
  ASSUME StreamIInv, ~misplaced, UNCHANGED <<noteLog, notesCounted, notesPassed, itemSeen, messagesTold>>
  PROVE  CountsPassed'
<1>1. CountsPassed
  BY DEF StreamIInv
<1> QED
  BY <1>1 DEF CountsPassed, HasSeen, Seen

(* PROG. *)
LEMMA ProcessPROGStep ==
  ASSUME StreamIInv, ProcessPROG
  PROVE  StreamIInv'
<1>1. /\ UNCHANGED <<noteLog, streamAt, notesCounted, notesPassed, itemSeen, messagesTold, recoveries>>
      /\ streamStatus = "READING_STREAM" /\ progDue' = FALSE
  BY DEF ProcessPROG
<1>2. /\ noteLog \in Seq(Notes) /\ Len(noteLog) <= MaxNotes /\ streamAt \in 0..Len(noteLog) /\ Len(noteLog) \in Nat
      /\ notesPassed \in Seq(Nat) /\ notesCounted \in Nat /\ currentProg \in Nat /\ recoveries \in Nat
      /\ NoProg \in Nat /\ NoProg > MaxNotes /\ MaxNotes \in Nat
  BY NoProgIsNone, StreamAssumption DEF StreamIInv, StreamTypes
<1>3. CASE currentProg = NoProg
  <2>1. /\ currentProg' = streamAt /\ misplaced' = misplaced
        /\ IF streamAt > 0 THEN streamStatus' = "STREAM_CLOSED" ELSE streamStatus' = streamStatus
    BY <1>3 DEF ProcessPROG, SessionEnds
  <2>2. StreamTypes'
    BY <1>1, <1>2, <2>1 DEF StreamTypes
  <2> SUFFICES ASSUME ~misplaced' PROVE CountsPassed' /\ Placed'
    BY <2>2 DEF StreamIInv
  <2>3. CountsPassed'
    BY <1>1, <2>1, NothingPassed
  <2>4. CASE streamAt > 0
    BY <2>1, <2>3, <2>4 DEF Placed
  <2>5. CASE ~(streamAt > 0)
    <3>1. streamAt = 0
      BY <1>2, <2>5
    <3>2. HeardOf(noteLog', streamAt') = NothingHeard
      BY <1>1, <1>2, <3>1, HeardIsHeard
    <3>3. Len(HeardOf(noteLog', streamAt').counted) = 0
      BY <3>2 DEF NothingHeard
    <3>4. currentProg' = 0 /\ currentProg' # NoProg' /\ currentProg' <= notesCounted'
      BY <1>1, <1>2, <2>1, <3>1 DEF NoProg
    <3>5. streamStatus' = "READING_STREAM"
      BY <1>1, <2>1, <2>5
    <3> QED
      BY <2>3, <3>3, <3>4, <3>5 DEF Placed
  <2> QED
    BY <2>4, <2>5
<1>4. CASE currentProg # NoProg
  <2>1. /\ currentProg' = currentProg /\ streamStatus' = streamStatus
        /\ misplaced' = (misplaced \/ Len(HeardOf(noteLog, streamAt).counted) # currentProg)
    BY <1>4 DEF ProcessPROG
  <2>2. StreamTypes'
    BY <1>1, <1>2, <2>1 DEF StreamTypes
  <2> SUFFICES ASSUME ~misplaced' PROVE CountsPassed' /\ Placed'
    BY <2>2 DEF StreamIInv
  <2>3. ~misplaced /\ Len(HeardOf(noteLog, streamAt).counted) = currentProg
    BY <2>1
  <2>4. CountsPassed'
    BY <1>1, <2>3, NothingPassed
  <2>5. Placed
    BY <2>3 DEF StreamIInv
  <2>6. Placed'
    <3>1. HeardOf(noteLog', streamAt') = HeardOf(noteLog, streamAt)
      BY <1>1
    <3> QED
      BY <1>1, <1>4, <2>1, <2>3, <2>5, <3>1, Zenon DEF Placed, NoProg
  <2> QED
    BY <2>4, <2>6
<1> QED
  BY <1>3, <1>4

(* The connection begins, ends and is replaced. *)
LEMMA ConnectionStep ==
  ASSUME StreamIInv,
         ProcessLOOP \/ StreamEnds \/ ProcessEND \/ RecoverStream \/ ProcessCONOK \/ ProcessCONERR
  PROVE  StreamIInv'
<1>1. UNCHANGED <<noteLog, notesCounted, currentProg, notesPassed, itemSeen, messagesTold, misplaced>>
  BY DEF ProcessLOOP, StreamEnds, ProcessEND, RecoverStream, ProcessCONOK, ProcessCONERR
<1>2. noteLog \in Seq(Notes) /\ streamAt \in 0..Len(noteLog) /\ recoveries \in Nat /\ Len(noteLog) \in Nat /\ notesCounted \in Nat
  BY DEF StreamIInv, StreamTypes
<1>3. streamAt' \in 0..Len(noteLog) /\ recoveries' \in Nat
  <2>1. CASE ProcessCONOK
    BY <1>2, <2>1 DEF ProcessCONOK
  <2>2. CASE RecoverStream
    BY <1>2, <2>2 DEF RecoverStream
  <2>3. CASE ProcessLOOP \/ StreamEnds \/ ProcessEND \/ ProcessCONERR
    BY <1>2, <2>3 DEF ProcessLOOP, StreamEnds, ProcessEND, ProcessCONERR
  <2> QED
    BY <2>1, <2>2, <2>3
<1>4. StreamTypes'
  BY <1>1, <1>3 DEF StreamIInv, StreamTypes
<1> SUFFICES ASSUME ~misplaced' PROVE Placed'
  BY <1>1, <1>4, NothingPassed DEF StreamIInv
<1>5. Placed /\ CountsPassed
  BY <1>1 DEF StreamIInv
<1>6. currentProg' # NoProg' /\ streamStatus # "STREAM_CLOSED" => currentProg' <= notesCounted'
  BY <1>1, <1>5, Zenon DEF Placed, NoProg
<1>7. CASE ProcessLOOP \/ ProcessCONERR
  <2>1. streamStatus' = "STREAM_CLOSED"
    BY <1>7 DEF ProcessLOOP, ProcessCONERR, SessionEnds
  <2> QED
    BY <2>1 DEF Placed
<1>8. CASE StreamEnds \/ ProcessEND
  <2>1. UNCHANGED <<streamStatus, streamAt, progDue, recoveries, noteLog, notesCounted, currentProg>>
    BY <1>1, <1>8 DEF StreamEnds, ProcessEND
  <2> QED
    BY <1>5, <2>1, Zenon DEF Placed, NoProg
<1>9. CASE RecoverStream
  <2>1. streamStatus = "READING_STREAM" /\ streamStatus' = "OPENING_STREAM" /\ recoveries' # 0
    BY <1>2, <1>9 DEF RecoverStream
  <2> QED
    BY <1>6, <2>1 DEF Placed
<1>10. CASE ProcessCONOK
  <2>1. /\ streamStatus = "OPENING_STREAM" /\ streamStatus' = "READING_STREAM" /\ streamAt' \in 0..notesCounted
        /\ recoveries' = recoveries
    BY <1>10 DEF ProcessCONOK
  <2>2. progDue' <=> recoveries > 0
    BY <1>10 DEF ProcessCONOK
  <2>3. CASE recoveries = 0
    <3>1. notesCounted = 0
      BY <1>5, <2>1, <2>3 DEF Placed
    <3>2. streamAt' = 0
      BY <2>1, <3>1
    <3>3. HeardOf(noteLog', streamAt') = NothingHeard
      BY <1>1, <1>2, <3>2, HeardIsHeard
    <3>4. Len(HeardOf(noteLog', streamAt').counted) = 0
      BY <3>3 DEF NothingHeard
    <3>5. currentProg' # NoProg' => currentProg' = 0
      <4>1. currentProg \in Nat
        BY DEF StreamIInv, StreamTypes
      <4> QED
        BY <1>1, <1>6, <2>1, <3>1, <4>1
    <3> QED
      BY <1>1, <1>6, <2>1, <3>1, <3>4, <3>5 DEF Placed
  <2>4. CASE recoveries # 0
    <3>1. progDue'
      BY <1>2, <2>2, <2>4
    <3> QED
      BY <1>6, <2>1, <3>1 DEF Placed
  <2> QED
    BY <2>3, <2>4
<1> QED
  BY <1>7, <1>8, <1>9, <1>10

(* The server notifies. *)
LEMMA NotifyStep ==
  ASSUME StreamIInv, NEW note \in Notes, ServerNotifies(note)
  PROVE  StreamIInv'
<1>1. /\ noteLog' = Append(noteLog, note) /\ Len(noteLog) < MaxNotes
      /\ UNCHANGED <<streamStatus, streamAt, progDue, notesCounted, currentProg, notesPassed, itemSeen, messagesTold,
                     misplaced, recoveries>>
  BY DEF ServerNotifies
<1>2. noteLog \in Seq(Notes) /\ streamAt \in 0..Len(noteLog) /\ Len(noteLog) \in Nat /\ MaxNotes \in Nat
  BY StreamAssumption DEF StreamIInv, StreamTypes
<1>3. noteLog' \in Seq(Notes) /\ Len(noteLog') = Len(noteLog) + 1
  BY <1>1, <1>2
<1>4. StreamTypes'
  <2>1. Len(noteLog') <= MaxNotes /\ streamAt' \in 0..Len(noteLog')
    BY <1>1, <1>2, <1>3
  <2> QED
    BY <1>1, <1>3, <2>1 DEF StreamIInv, StreamTypes
<1> SUFFICES ASSUME ~misplaced' PROVE CountsPassed' /\ Placed'
  BY <1>4 DEF StreamIInv
<1>5. Placed /\ CountsPassed
  BY <1>1 DEF StreamIInv
<1>6. HeardOf(noteLog', streamAt') = HeardOf(noteLog, streamAt)
  BY <1>1, <1>2, HeardOfLonger
<1>7. Seen' = Seen /\ Seen \in 0..Len(noteLog)
  BY <1>1, <1>5 DEF Seen, CountsPassed
<1>8. HeardOf(noteLog', Seen') = HeardOf(noteLog, Seen)
  BY <1>1, <1>2, <1>7, HeardOfLonger
<1>9. CountsPassed'
  <2>1. Seen' \in 0..Len(noteLog')
    BY <1>2, <1>3, <1>7
  <2> QED
    BY <1>1, <1>5, <1>8, <2>1 DEF CountsPassed, HasSeen
<1>10. Placed'
  BY <1>1, <1>5, <1>6, Zenon DEF Placed, NoProg
<1> QED
  BY <1>9, <1>10

(* The session has what comes to it from a part of what the server notified,  *)
(* whatever breaks.                                                          *)
THEOREM StreamInductive == StreamSpec => []StreamIInv
<1>1. StreamInit => StreamIInv
  <2> SUFFICES ASSUME StreamInit PROVE StreamIInv
    OBVIOUS
  <2>1. /\ noteLog = << >> /\ streamAt = 0 /\ notesCounted = 0 /\ currentProg = NoProg /\ notesPassed = << >>
        /\ recoveries = 0 /\ streamStatus = "OPENING_STREAM" /\ messagesTold = << >> /\ itemSeen = NothingHeard.item
    BY DEF StreamInit, NothingHeard
  <2>2. StreamTypes
    BY <2>1, NoProgIsNone, StreamAssumption DEF StreamTypes
  <2>3. Seen = 0 /\ Len(noteLog) = 0 /\ Len(notesPassed) = 0
    <3>1. << >> \in Seq(Nat) /\ 0 \in Nat
      OBVIOUS
    <3>2. Last(<<0>> \o << >>) = 0
      BY <3>1, SeenIsLast
    <3> QED
      BY <2>1, <3>2 DEF Seen
  <2>4. HeardOf(noteLog, 0) = NothingHeard
    BY <2>2, HeardIsHeard DEF StreamTypes
  <2>5. NothingHeard.counted = << >> /\ [i \in 1..NothingHeard.settled |-> i] = << >>
    BY DEF NothingHeard
  <2>6. HasSeen(0)
    BY <2>1, <2>4, <2>5, Zenon DEF HasSeen
  <2>7. CountsPassed
    BY <2>1, <2>3, <2>6 DEF CountsPassed
  <2>8. Placed
    BY <2>1 DEF Placed
  <2> QED
    BY <2>2, <2>7, <2>8 DEF StreamIInv
<1>2. StreamIInv /\ [StreamNext]_streamVars => StreamIInv'
  <2> SUFFICES ASSUME StreamIInv, [StreamNext]_streamVars PROVE StreamIInv'
    OBVIOUS
  <2>1. CASE ProcessUpdate \/ ProcessSnapshot \/ ProcessTable \/ ProcessMPN \/ ProcessUserMessage
    <3>1. CASE misplaced
      <4>1. misplaced' /\ StreamTypes'
        BY <2>1, <3>1, ReadTypes
           DEF StreamIInv, ProcessUpdate, ProcessSnapshot, ProcessTable, ProcessMPN, ProcessUserMessage, Reads
      <4> QED
        BY <4>1 DEF StreamIInv
    <3>2. CASE ~misplaced
      <4>1. ASSUME ProcessUpdate PROVE StreamIInv'
        BY <3>2, <4>1, NotePassedStep DEF ProcessUpdate
      <4>2. ASSUME ProcessSnapshot PROVE StreamIInv'
        BY <3>2, <4>2, NotePassedStep DEF ProcessSnapshot
      <4>3. ASSUME ProcessTable PROVE StreamIInv'
        BY <3>2, <4>3, NotePassedStep DEF ProcessTable
      <4>4. ASSUME ProcessMPN PROVE StreamIInv'
        BY <3>2, <4>4, NotePassedStep DEF ProcessMPN
      <4>5. ASSUME ProcessUserMessage PROVE StreamIInv'
        BY <3>2, <4>5, NotePassedStep DEF ProcessUserMessage
      <4> QED
        BY <2>1, <4>1, <4>2, <4>3, <4>4, <4>5
    <3> QED
      BY <3>1, <3>2
  <2>2. CASE ProcessCONF \/ ProcessOV
    BY <2>2, IgnoredStep DEF ProcessCONF, ProcessOV
  <2>3. CASE ProcessPROG
    BY <2>3, ProcessPROGStep
  <2>4. CASE ProcessLOOP \/ StreamEnds \/ ProcessEND \/ RecoverStream \/ ProcessCONOK \/ ProcessCONERR
    BY <2>4, ConnectionStep
  <2>5. CASE \E note \in Notes : ServerNotifies(note)
    BY <2>5, NotifyStep
  <2>6. CASE UNCHANGED streamVars
    BY <2>6 DEF streamVars, StreamIInv, StreamTypes, CountsPassed, HasSeen, Seen, Placed, NoProg
  <2> QED
    BY <2>1, <2>2, <2>3, <2>4, <2>5, <2>6 DEF StreamNext
<1> QED
  BY <1>1, <1>2, PTL DEF StreamSpec

(* Whatever the notifications, and however often the stream breaks and is      *)
(* recovered from where, each counted one is passed to the session once and    *)
(* in its order, the item shows the last of them and each message's outcome is  *)
(* told once, unless a PROG that says otherwise was ignored (TextProtocol:      *)
(* processCountableNotification, processPROG and the handlers that count).     *)
THEOREM NotesArePassedOnce == StreamSpec => []PassedOnceInOrder
<1>1. StreamIInv => PassedOnceInOrder
  <2> SUFFICES ASSUME StreamIInv, ~misplaced PROVE PassedOnceInOrder
    BY DEF PassedOnceInOrder
  <2>1. CountsPassed /\ noteLog \in Seq(Notes) /\ Len(noteLog) \in Nat
    BY DEF StreamIInv, StreamTypes
  <2>2. Seen \in 0..Len(noteLog) /\ HasSeen(Seen) /\ Len(noteLog) \in 0..Len(noteLog) /\ Seen <= Len(noteLog)
    BY <2>1 DEF CountsPassed
  <2>3. Follows(noteLog, Seen, Len(noteLog))
    BY <2>1, <2>2, HeardGrows
  <2>4. IsPrefix(notesPassed, HeardOf(noteLog, Len(noteLog)).counted)
    BY <2>2, <2>3 DEF Follows, HasSeen
  <2> QED
    BY <2>2, <2>4, Zenon DEF PassedOnceInOrder, HasSeen, Seen
<1> QED
  BY <1>1, StreamInductive, PTL

(* The widths of tokens and what comes of them. *)
LEMMA TokensAre ==
  ASSUME NEW t \in Tokens, NEW value \in Nat
  PROVE  /\ t.count \in Nat
         /\ ValuesOf(t, value) \in Seq({Unchanged, value}) /\ Len(ValuesOf(t, value)) = t.count
<1>1. t.count \in Nat
  BY StreamAssumption DEF Tokens, Changed, Run
<1>2. ValuesOf(t, value) = [i \in 1..t.count |-> IF t.is = "value" THEN value ELSE Unchanged]
  BY DEF ValuesOf
<1>3. \A i \in 1..t.count : (IF t.is = "value" THEN value ELSE Unchanged) \in {Unchanged, value}
  OBVIOUS
<1> QED
  BY <1>1, <1>2, <1>3

(* An update has as many fields as there are, each unchanged or with the value. *)
LEMMA FieldsAre ==
  ASSUME NEW tokens \in Updates, NEW value \in Nat
  PROVE  FieldsOf(tokens, value) \in Seq({Unchanged, value}) /\ Len(FieldsOf(tokens, value)) = FieldCount
<1> DEFINE V == Seq({Unchanged, value})
           wide == [p \in Nat \X Tokens |-> p[1] + p[2].count]
           fill == [p \in V \X Tokens |-> p[1] \o ValuesOf(p[2], value)]
<1>1. tokens \in Seq(Tokens) /\ Width(tokens) = FieldCount
  BY StreamAssumption DEF Updates, SeqOf
<1>2. wide \in [Nat \X Tokens -> Nat]
  <2>1. ASSUME NEW n \in Nat, NEW t \in Tokens PROVE n + t.count \in Nat
    <3>1. t.count \in Nat
      BY TokensAre, Zenon
    <3> QED
      BY <3>1
  <2> QED
    BY <2>1
<1>3. fill \in [V \X Tokens -> V] /\ << >> \in V
  <2>1. ASSUME NEW p \in V \X Tokens PROVE p[1] \o ValuesOf(p[2], value) \in V
    <3>1. p[1] \in V /\ p[2] \in Tokens
      BY <2>1
    <3>2. ValuesOf(p[2], value) \in V
      BY <3>1, TokensAre, Zenon
    <3> QED
      BY <3>1, <3>2
  <2>2. << >> \in V
    OBVIOUS
  <2> HIDE DEF V
  <2> QED
    BY <2>1, <2>2
<1>4. PICK w : FoldedStepwise(w, wide, 0, tokens, Nat)
  <2> HIDE DEF wide
  <2> QED
    BY <1>1, <1>2, FoldedDefined
<1>5. /\ w \in [0..Len(tokens) -> Nat] /\ w[Len(tokens)] = FieldCount /\ w[0] = 0
      /\ \A n \in 1..Len(tokens) : w[n] = wide[<<w[n - 1], tokens[n]>>]
  BY <1>1, <1>4 DEF FoldedStepwise, Width
<1> DEFINE P == [n \in Nat |-> {q \in V : n <= Len(tokens) => Len(q) = w[n]}]
<1>6. << >> \in P[0]
  BY <1>3, <1>5
<1>7. ASSUME NEW n \in 1..Len(tokens), NEW q \in V, q \in P[n - 1] PROVE fill[<<q, tokens[n]>>] \in P[n]
  <2> DEFINE t == tokens[n]
  <2>1. t \in Tokens /\ n \in Nat /\ n - 1 \in Nat /\ n - 1 \in 0..Len(tokens) /\ n - 1 <= Len(tokens)
    BY <1>1
  <2>2. Len(q) = w[n - 1] /\ w[n - 1] \in Nat
    BY <1>5, <1>7, <2>1
  <2>3. w[n] = w[n - 1] + t.count
    BY <1>5, <2>1, <2>2
  <2>4. fill[<<q, t>>] = q \o ValuesOf(t, value)
    BY <2>1
  <2> HIDE DEF t, fill
  <2>5. q \o ValuesOf(t, value) \in V /\ Len(q \o ValuesOf(t, value)) = Len(q) + t.count
    BY <2>1, TokensAre
  <2> QED
    BY <2>1, <2>2, <2>3, <2>4, <2>5 DEF t
<1>8. Folded(fill, << >>, tokens) \in V /\ Folded(fill, << >>, tokens) \in P[Len(tokens)]
  <2> HIDE DEF P, fill, V
  <2> QED
    BY <1>1, <1>3, <1>6, <1>7, FoldedInduction
<1>9. FieldsOf(tokens, value) = Folded(fill, << >>, tokens)
  BY DEF FieldsOf
<1>10. Len(tokens) \in Nat /\ P[Len(tokens)] = {q \in V : Len(q) = w[Len(tokens)]}
  BY <1>1
<1> HIDE DEF P, fill
<1> QED
  BY <1>5, <1>8, <1>9, <1>10

(* So an item shows numbers of updates. *)
LEMMA UpdateShows ==
  ASSUME NEW n \in Nat, NEW item \in [1..FieldCount -> 0..n], NEW tokens \in Updates, NEW value \in 1..n
  PROVE  UpdateOf(item, tokens, value) \in [1..FieldCount -> 0..n]
<1> DEFINE fields == FieldsOf(tokens, value)
<1>1. UpdateOf(item, tokens, value) = [f \in 1..FieldCount |-> IF fields[f] = Unchanged THEN item[f] ELSE fields[f]]
  BY DEF UpdateOf
<1>2. fields \in Seq({Unchanged, value}) /\ Len(fields) = FieldCount
  BY FieldsAre
<1> HIDE DEF fields
<1>3. \A f \in 1..FieldCount : fields[f] \in 0..n /\ item[f] \in 0..n
  BY <1>2 DEF Unchanged
<1> QED
  BY <1>1, <1>3

(* How much can be counted: a connection at most the notifications there are. *)
Budget(r) == MaxNotes * (r + 1)
(* Budgets grow by the notifications there are. *)
LEMMA Budgets ==
  /\ MaxNotes \in Nat /\ MaxRecoveries \in Nat /\ NoProg = Budget(MaxRecoveries) + 1
  /\ Budget(0) = MaxNotes
  /\ \A r \in Nat : /\ Budget(r) \in Nat /\ Budget(r + 1) = Budget(r) + MaxNotes
                    /\ MaxNotes <= Budget(r)
                    /\ r <= MaxRecoveries => Budget(r) < NoProg
<1>1. MaxNotes \in Nat /\ MaxRecoveries \in Nat
  BY StreamAssumption
<1>2. NoProg = Budget(MaxRecoveries) + 1
  BY DEF NoProg, Budget
<1>3. ASSUME NEW r \in Nat
      PROVE  Budget(r) \in Nat /\ Budget(r) = MaxNotes * r + MaxNotes /\ Budget(r + 1) = Budget(r) + MaxNotes
             /\ MaxNotes <= Budget(r)
  <2>1. MaxNotes * (r + 1) = MaxNotes * r + MaxNotes /\ MaxNotes * r \in Nat
        /\ MaxNotes * ((r + 1) + 1) = MaxNotes * (r + 1) + MaxNotes
    BY <1>1
  <2> QED
    BY <1>1, <2>1 DEF Budget
<1>4. ASSUME NEW r \in Nat, r <= MaxRecoveries PROVE Budget(r) < NoProg
  <2> DEFINE d == MaxRecoveries - r
  <2>1. d \in Nat /\ MaxRecoveries = r + d
    BY <1>1, <1>4
  <2> HIDE DEF d
  <2>2. MaxNotes * (r + d) = MaxNotes * r + MaxNotes * d /\ MaxNotes * r \in Nat /\ MaxNotes * d \in Nat
    BY <1>1, <2>1
  <2>3. Budget(MaxRecoveries) = MaxNotes * (r + d) + MaxNotes
    BY <1>1, <1>3, <2>1
  <2>4. Budget(r) = MaxNotes * r + MaxNotes
    BY <1>3
  <2>5. ASSUME NEW x \in Nat, NEW y \in Nat, NEW b, b = x + y + MaxNotes PROVE x + MaxNotes < b + 1
    BY <1>1, <2>5
  <2>6. Budget(MaxRecoveries) = MaxNotes * r + MaxNotes * d + MaxNotes
    BY <2>2, <2>3
  <2> HIDE DEF Budget
  <2> QED
    BY <1>2, <2>2, <2>4, <2>5, <2>6
<1>5. Budget(0) = MaxNotes
  BY <1>1 DEF Budget
<1> QED
  BY <1>1, <1>2, <1>3, <1>4, <1>5

(* What was counted and what this connection may still bring. *)
ToCome == IF streamStatus = "OPENING_STREAM" THEN MaxNotes ELSE MaxNotes - streamAt
Fits(n) == n + ToCome <= Budget(recoveries)
CountsFit == streamStatus # "STREAM_CLOSED" => Fits(notesCounted) /\ (currentProg # NoProg => Fits(currentProg))
StreamKnown == StreamTypeOK /\ CountsFit

(* A message that is read takes one of what may come. *)
LEMMA ReadKnown ==
  ASSUME StreamKnown, NEW k, Reads(k), PassOn \/ UNCHANGED <<notesCounted, currentProg, notesPassed>>,
         itemSeen' \in [1..FieldCount -> 0..Len(noteLog)], messagesTold' \in Seq(Nat)
  PROVE  StreamKnown'
<1>1. /\ noteLog \in Seq(Notes) /\ streamAt \in Nat /\ streamAt < Len(noteLog) /\ Len(noteLog) \in Nat /\ Len(noteLog) <= MaxNotes
      /\ notesPassed \in Seq(1..Len(noteLog)) /\ notesCounted \in 0..NoProg /\ currentProg \in 0..NoProg
      /\ noteLog' = noteLog /\ streamAt' = streamAt + 1 /\ recoveries' = recoveries /\ recoveries \in Nat
      /\ recoveries <= MaxRecoveries /\ streamStatus' = "READING_STREAM" /\ streamStatus = "READING_STREAM"
  BY StreamAssumption DEF StreamKnown, StreamTypeOK, Reads
<1>2. /\ Budget(recoveries) \in Nat /\ Budget(recoveries) < NoProg /\ MaxNotes \in Nat /\ NoProg \in Nat
  BY <1>1, Budgets, NoProgIsNone
<1>3. /\ notesCounted + (MaxNotes - streamAt) <= Budget(recoveries)
      /\ currentProg # NoProg => currentProg + (MaxNotes - streamAt) <= Budget(recoveries)
  BY <1>1 DEF StreamKnown, CountsFit, Fits, ToCome
<1>4. /\ notesCounted' \in {notesCounted, notesCounted + 1}
      /\ IF currentProg = NoProg THEN currentProg' = NoProg ELSE currentProg' \in {currentProg, currentProg + 1}
  BY <1>1, Zenon DEF PassOn, CountNotification
<1>5. /\ notesCounted' + (MaxNotes - (streamAt + 1)) <= Budget(recoveries)
      /\ currentProg' # NoProg => currentProg' + (MaxNotes - (streamAt + 1)) <= Budget(recoveries)
  <2> DEFINE b == Budget(recoveries)
  <2>1. ASSUME NEW x \in Nat, NEW y, y = x \/ y = x + 1, x + (MaxNotes - streamAt) <= b
        PROVE  y + (MaxNotes - (streamAt + 1)) <= b /\ y \in Nat
    BY <1>1, <1>2, <2>1
  <2> HIDE DEF b
  <2>2. notesCounted \in Nat /\ currentProg \in Nat
    BY <1>1
  <2>3. notesCounted' + (MaxNotes - (streamAt + 1)) <= b
    BY <1>3, <1>4, <2>1, <2>2 DEF b
  <2>4. currentProg' # NoProg => currentProg' + (MaxNotes - (streamAt + 1)) <= b
    BY <1>3, <1>4, <2>1, <2>2 DEF b
  <2> QED
    BY <2>3, <2>4 DEF b
<1>6. notesCounted' \in 0..NoProg /\ currentProg' \in 0..NoProg
  <2> DEFINE b == Budget(recoveries)
  <2>1. ASSUME NEW x \in Nat, NEW y, y = x \/ y = x + 1, x + (MaxNotes - streamAt) <= b
        PROVE  y \in 0..NoProg
    BY <1>1, <1>2, <2>1
  <2> HIDE DEF b
  <2>2. notesCounted \in Nat /\ currentProg \in Nat /\ NoProg \in 0..NoProg
    BY <1>1, <1>2
  <2> QED
    BY <1>3, <1>4, <2>1, <2>2 DEF b
<1>7. notesPassed' \in Seq(1..Len(noteLog))
  <2>1. notesPassed' \in {notesPassed, Append(notesPassed, streamAt + 1)}
    BY <1>1, Zenon DEF PassOn
  <2>2. streamAt + 1 \in 1..Len(noteLog)
    BY <1>1
  <2>3. ASSUME NEW S, NEW s \in Seq(S), NEW e \in S PROVE Append(s, e) \in Seq(S)
    OBVIOUS
  <2> QED
    BY <1>1, <2>1, <2>2, <2>3, Zenon
<1>8. DOMAIN noteLog = 1..Len(noteLog) /\ streamAt' \in 0..Len(noteLog)
  BY <1>1
<1>9. CountsFit'
  <2>1. ToCome' = MaxNotes - (streamAt + 1)
    BY <1>1 DEF ToCome
  <2> QED
    BY <1>1, <1>5, <2>1 DEF CountsFit, Fits, NoProg, Budget
<1>10. UNCHANGED <<broken, progDue, misplaced>>
  BY DEF Reads
<1>11. streamStatus' \in {"OPENING_STREAM", "READING_STREAM", "STREAM_CLOSED"}
  BY <1>1
<1>12. StreamTypeOK'
  BY <1>1, <1>6, <1>7, <1>8, <1>10, <1>11, Zenon DEF StreamKnown, StreamTypeOK, NoProg
<1> QED
  BY <1>9, <1>12 DEF StreamKnown

(* Whatever the notifications and the recoveries, even once a PROG was         *)
(* ignored that says otherwise: no more is counted than the connections can    *)
(* have brought, an item shows numbers of notifications that were passed on,    *)
(* and messages told have numbers.                                            *)
THEOREM StreamTyped == StreamSpec => []StreamTypeOK
<1>1. StreamInit => StreamKnown
  <2> SUFFICES ASSUME StreamInit PROVE StreamKnown
    OBVIOUS
  <2>1. NoProg \in Nat /\ NoProg \in 0..NoProg /\ 0 \in 0..NoProg
    BY NoProgIsNone
  <2>2. noteLog = << >> /\ Len(noteLog) = 0 /\ DOMAIN noteLog = {} /\ noteLog \in Seq(Notes) /\ << >> \in Seq({}) /\ << >> \in Seq(Nat)
    BY DEF StreamInit
  <2>3. itemSeen \in [1..FieldCount -> 0..Len(noteLog)]
    BY <2>2 DEF StreamInit
  <2>4. Len(noteLog) <= MaxNotes /\ streamAt \in 0..Len(noteLog) /\ recoveries \in 0..MaxRecoveries
    BY <2>2, StreamAssumption DEF StreamInit
  <2>5. StreamTypeOK
    BY <2>1, <2>2, <2>3, <2>4, Zenon DEF StreamInit, StreamTypeOK
  <2>6. CountsFit
    BY Budgets DEF StreamInit, CountsFit, Fits, ToCome
  <2> QED
    BY <2>5, <2>6 DEF StreamKnown
<1>2. StreamKnown /\ [StreamNext]_streamVars => StreamKnown'
  <2> SUFFICES ASSUME StreamKnown, [StreamNext]_streamVars PROVE StreamKnown'
    OBVIOUS
  <2>0. /\ StreamTypeOK /\ CountsFit
        /\ noteLog \in Seq(Notes) /\ Len(noteLog) \in Nat /\ streamAt \in 0..Len(noteLog) /\ Len(noteLog) <= MaxNotes
        /\ recoveries \in Nat /\ recoveries <= MaxRecoveries /\ notesCounted \in 0..NoProg /\ currentProg \in 0..NoProg
        /\ itemSeen \in [1..FieldCount -> 0..Len(noteLog)] /\ messagesTold \in Seq(Nat)
    BY StreamAssumption DEF StreamKnown, StreamTypeOK
  <2>1. CASE ProcessUpdate
    <3>1. Reads("update") /\ PassOn /\ UNCHANGED messagesTold
      BY <2>1 DEF ProcessUpdate
    <3>2. itemSeen' \in [1..FieldCount -> 0..Len(noteLog)]
      <4>1. CASE IsNew
        <5>1. itemSeen' = UpdateOf(itemSeen, NextNote.tokens, streamAt + 1)
          BY <2>1, <4>1 DEF ProcessUpdate
        <5>2. streamAt + 1 \in 1..Len(noteLog) /\ NextNote \in Notes /\ NextNote.kind = "update"
          BY <2>0, <3>1 DEF Reads, NextNote
        <5>3. NextNote.tokens \in Updates
          BY <5>2 DEF Notes
        <5> QED
          BY <2>0, <5>1, <5>2, <5>3, UpdateShows
      <4>2. CASE ~IsNew
        BY <2>0, <2>1, <4>2 DEF ProcessUpdate
      <4> QED
        BY <4>1, <4>2
    <3> QED
      BY <2>0, <3>1, <3>2, ReadKnown
  <2>2. CASE ProcessSnapshot \/ ProcessTable \/ ProcessMPN
    <3>1. /\ PassOn /\ UNCHANGED <<itemSeen, messagesTold>>
          /\ Reads("snapshot") \/ Reads("table") \/ Reads("mpn")
      BY <2>2 DEF ProcessSnapshot, ProcessTable, ProcessMPN
    <3> QED
      BY <2>0, <3>1, ReadKnown
  <2>3. CASE ProcessUserMessage
    <3>1. Reads("message") /\ PassOn /\ UNCHANGED itemSeen
      BY <2>3 DEF ProcessUserMessage
    <3>2. messagesTold' \in Seq(Nat)
      <4>1. CASE IsNew
        <5>1. messagesTold' = messagesTold \o Discarded(HeardOf(noteLog, streamAt + 1).settled, NextNote.count)
          BY <2>3, <4>1 DEF ProcessUserMessage
        <5>2. streamAt \in Nat /\ streamAt < Len(noteLog) /\ streamAt \in 0..Len(noteLog) /\ NextNote \in Notes
          BY <2>0, <3>1 DEF Reads, NextNote
        <5>3. /\ HeardOf(noteLog, streamAt + 1).settled = HeardOf(noteLog, streamAt).settled + NextNote.count
              /\ HeardOf(noteLog, streamAt).settled \in Nat
          BY <2>0, <5>2, HeardNext, HeardParts DEF NextNote
        <5>4. NextNote.count \in Nat
          BY <5>2, NotesAre
        <5> DEFINE s == HeardOf(noteLog, streamAt).settled
                   c == NextNote.count
        <5>5. ASSUME NEW a \in Nat, NEW b \in Nat PROVE Discarded(a + b, b) \in Seq(Nat)
          <6>1. \A i \in 1..b : (a + b) - b + i \in Nat
            OBVIOUS
          <6> QED
            BY <6>1 DEF Discarded
        <5>6. Discarded(s + c, c) \in Seq(Nat)
          BY <5>3, <5>4, <5>5
        <5> QED
          BY <2>0, <5>1, <5>3, <5>6
      <4>2. CASE ~IsNew
        BY <2>0, <2>3, <4>2 DEF ProcessUserMessage
      <4> QED
        BY <4>1, <4>2
    <3> QED
      BY <2>0, <3>1, <3>2, ReadKnown
  <2>4. CASE ProcessCONF \/ ProcessOV
    <3>1. /\ UNCHANGED <<notesCounted, currentProg, notesPassed>> /\ UNCHANGED <<itemSeen, messagesTold>>
          /\ Reads("conf") \/ Reads("overflow")
      BY <2>4 DEF ProcessCONF, ProcessOV, Ignored
    <3> QED
      BY <2>0, <3>1, ReadKnown
  <2>5. CASE ProcessPROG
    <3>1. /\ streamStatus = "READING_STREAM" /\ progDue' = FALSE
          /\ UNCHANGED <<noteLog, streamAt, broken, notesCounted, notesPassed, itemSeen, messagesTold, recoveries>>
      BY <2>5 DEF ProcessPROG
    <3>2. MaxNotes \in Nat /\ Budget(recoveries) \in Nat /\ MaxNotes <= Budget(recoveries) /\ NoProg \in Nat /\ NoProg > MaxNotes
      BY <2>0, Budgets, NoProgIsNone
    <3>3. CASE currentProg = NoProg
      <4>1. /\ currentProg' = streamAt /\ UNCHANGED misplaced
            /\ IF streamAt > 0 THEN streamStatus' = "STREAM_CLOSED" ELSE streamStatus' = streamStatus
        BY <2>5, <3>3 DEF ProcessPROG, SessionEnds
      <4>2. currentProg' \in 0..NoProg /\ streamStatus' \in {"READING_STREAM", "STREAM_CLOSED"}
        BY <2>0, <3>1, <3>2, <4>1
      <4>3. StreamTypeOK'
        BY <2>0, <3>1, <4>1, <4>2, Zenon DEF StreamTypeOK, NoProg
      <4>4. CountsFit'
        <5> SUFFICES ASSUME streamStatus' # "STREAM_CLOSED"
                     PROVE  notesCounted' + ToCome' <= Budget(recoveries') /\ currentProg' + ToCome' <= Budget(recoveries')
          BY DEF CountsFit, Fits, Budget, NoProg
        <5>1. streamAt = 0 /\ streamStatus' = "READING_STREAM" /\ currentProg' = 0
          BY <2>0, <3>1, <4>1
        <5>2. ToCome' = ToCome /\ ToCome = MaxNotes
          BY <3>1, <3>2, <5>1 DEF ToCome
        <5>3. notesCounted + ToCome <= Budget(recoveries)
          BY <2>0, <3>1 DEF CountsFit, Fits
        <5> QED
          BY <3>1, <3>2, <5>1, <5>2, <5>3
      <4> QED
        BY <4>3, <4>4 DEF StreamKnown
    <3>4. CASE currentProg # NoProg
      <4>1. /\ currentProg' = currentProg /\ streamStatus' = streamStatus
            /\ misplaced' = (misplaced \/ Len(HeardOf(noteLog, streamAt).counted) # currentProg)
        BY <2>5, <3>4 DEF ProcessPROG
      <4>2. misplaced' \in BOOLEAN
        BY <4>1
      <4>3. StreamTypeOK'
        BY <2>0, <3>1, <4>1, <4>2, Zenon DEF StreamTypeOK, NoProg
      <4>4. CountsFit'
        BY <2>0, <3>1, <4>1, Zenon DEF CountsFit, Fits, ToCome, Budget, NoProg
      <4> QED
        BY <4>3, <4>4 DEF StreamKnown
    <3> QED
      BY <3>3, <3>4
  <2>6. CASE ProcessLOOP \/ ProcessCONERR
    <3>1. /\ streamStatus' = "STREAM_CLOSED"
          /\ UNCHANGED <<noteLog, streamAt, broken, progDue, notesCounted, currentProg, notesPassed, itemSeen, messagesTold,
                         misplaced, recoveries>>
      BY <2>6 DEF ProcessLOOP, ProcessCONERR, SessionEnds
    <3>2. StreamTypeOK'
      BY <2>0, <3>1, Zenon DEF StreamTypeOK, NoProg
    <3> QED
      BY <3>1, <3>2 DEF StreamKnown, CountsFit
  <2>7. CASE StreamEnds \/ ProcessEND
    <3>1. /\ broken' = TRUE
          /\ UNCHANGED <<noteLog, streamStatus, streamAt, progDue, notesCounted, currentProg, notesPassed, itemSeen, messagesTold,
                         misplaced, recoveries>>
      BY <2>7 DEF StreamEnds, ProcessEND
    <3>2. StreamTypeOK'
      BY <2>0, <3>1, Zenon DEF StreamTypeOK, NoProg
    <3>3. CountsFit'
      BY <2>0, <3>1, Zenon DEF CountsFit, Fits, ToCome, Budget, NoProg
    <3> QED
      BY <3>2, <3>3 DEF StreamKnown
  <2>8. CASE RecoverStream
    <3>1. /\ streamStatus = "READING_STREAM" /\ recoveries < MaxRecoveries /\ recoveries' = recoveries + 1
          /\ streamStatus' = "OPENING_STREAM" /\ broken' = FALSE /\ progDue' = FALSE
          /\ UNCHANGED <<noteLog, streamAt, notesCounted, currentProg, notesPassed, itemSeen, messagesTold, misplaced>>
      BY <2>8 DEF RecoverStream
    <3>2. recoveries' \in 0..MaxRecoveries
      BY <2>0, <3>1, StreamAssumption
    <3>3. StreamTypeOK'
      BY <2>0, <3>1, <3>2, Zenon DEF StreamTypeOK, NoProg
    <3>4. /\ Budget(recoveries') = Budget(recoveries) + MaxNotes /\ Budget(recoveries) \in Nat /\ MaxNotes \in Nat
      BY <2>0, <3>1, Budgets
    <3>5. ToCome' = MaxNotes /\ ToCome = MaxNotes - streamAt
      BY <3>1 DEF ToCome
    <3>6. ASSUME NEW n \in Nat, n + ToCome <= Budget(recoveries) PROVE n + ToCome' <= Budget(recoveries')
      BY <2>0, <3>4, <3>5, <3>6
    <3>7. CountsFit'
      <4>1. Fits(notesCounted) /\ (currentProg # NoProg => Fits(currentProg))
        BY <2>0, <3>1 DEF CountsFit
      <4>2. notesCounted \in Nat /\ currentProg \in Nat
        BY <2>0
      <4>3. notesCounted + ToCome' <= Budget(recoveries') /\ (currentProg # NoProg => currentProg + ToCome' <= Budget(recoveries'))
        BY <3>6, <4>1, <4>2 DEF Fits
      <4> QED
        BY <3>1, <4>3, Zenon DEF CountsFit, Fits, Budget, NoProg
    <3> QED
      BY <3>3, <3>7 DEF StreamKnown
  <2>9. CASE ProcessCONOK
    <3>1. /\ streamStatus = "OPENING_STREAM" /\ streamStatus' = "READING_STREAM"
          /\ streamAt' \in Nat /\ streamAt' <= Len(noteLog)
          /\ UNCHANGED <<noteLog, broken, notesCounted, currentProg, notesPassed, itemSeen, messagesTold, misplaced, recoveries>>
      BY <2>9 DEF ProcessCONOK
    <3>2. progDue' \in BOOLEAN
      BY <2>9 DEF ProcessCONOK
    <3>3. streamAt' \in 0..Len(noteLog)
      BY <2>0, <3>1
    <3>4. StreamTypeOK'
      BY <2>0, <3>1, <3>2, <3>3, Zenon DEF StreamTypeOK, NoProg
    <3>5. /\ Budget(recoveries) \in Nat /\ MaxNotes \in Nat
      BY <2>0, Budgets
    <3>6. ToCome' = MaxNotes - streamAt' /\ ToCome = MaxNotes
      BY <3>1 DEF ToCome
    <3>7. ASSUME NEW n \in Nat, n + ToCome <= Budget(recoveries) PROVE n + ToCome' <= Budget(recoveries)
      BY <3>1, <3>5, <3>6, <3>7
    <3>8. CountsFit'
      <4>1. Fits(notesCounted) /\ (currentProg # NoProg => Fits(currentProg))
        BY <2>0, <3>1 DEF CountsFit
      <4>2. notesCounted \in Nat /\ currentProg \in Nat
        BY <2>0
      <4>3. notesCounted + ToCome' <= Budget(recoveries) /\ (currentProg # NoProg => currentProg + ToCome' <= Budget(recoveries))
        BY <3>7, <4>1, <4>2 DEF Fits
      <4> QED
        BY <3>1, <4>3, Zenon DEF CountsFit, Fits, Budget, NoProg
    <3> QED
      BY <3>4, <3>8 DEF StreamKnown
  <2>10. CASE \E note \in Notes : ServerNotifies(note)
    <3>1. PICK note \in Notes : ServerNotifies(note)
      BY <2>10
    <3>2. /\ noteLog' = Append(noteLog, note) /\ Len(noteLog) < MaxNotes
          /\ UNCHANGED <<streamStatus, streamAt, broken, progDue, notesCounted, currentProg, notesPassed, itemSeen, messagesTold,
                         misplaced, recoveries>>
      BY <3>1 DEF ServerNotifies
    <3>3. noteLog' \in Seq(Notes) /\ Len(noteLog') = Len(noteLog) + 1
      BY <2>0, <3>2
    <3>4. Len(noteLog') <= MaxNotes /\ streamAt \in 0..Len(noteLog')
      BY <2>0, <3>2, <3>3, StreamAssumption
    <3>5. itemSeen \in [1..FieldCount -> 0..Len(noteLog')]
      <4>1. \A f \in 1..FieldCount : itemSeen[f] \in 0..Len(noteLog')
        BY <2>0, <3>3
      <4> QED
        BY <2>0, <4>1
    <3>6. notesPassed \in Seq(DOMAIN noteLog')
      <4>1. notesPassed \in Seq(DOMAIN noteLog) /\ DOMAIN noteLog = 1..Len(noteLog) /\ DOMAIN noteLog' = 1..Len(noteLog')
        BY <2>0, <3>3 DEF StreamTypeOK
      <4>2. DOMAIN noteLog \subseteq DOMAIN noteLog'
        BY <2>0, <3>3, <4>1
      <4>3. ASSUME NEW S, NEW T, S \subseteq T, NEW s \in Seq(S) PROVE s \in Seq(T)
        <5>1. Len(s) \in Nat /\ s \in [1..Len(s) -> T]
          BY <4>3
        <5> QED
          BY <5>1
      <4> QED
        BY <4>1, <4>2, <4>3, Zenon
    <3>7. StreamTypeOK'
      BY <2>0, <3>2, <3>3, <3>4, <3>5, <3>6, Zenon DEF StreamTypeOK, NoProg
    <3>8. CountsFit'
      BY <2>0, <3>2, Zenon DEF CountsFit, Fits, ToCome, Budget, NoProg
    <3> QED
      BY <3>7, <3>8 DEF StreamKnown
  <2>11. CASE UNCHANGED streamVars
    <3>1. StreamTypeOK'
      BY <2>0, <2>11, Zenon DEF StreamTypeOK, streamVars, NoProg
    <3>2. CountsFit'
      BY <2>0, <2>11, Zenon DEF CountsFit, Fits, ToCome, Budget, NoProg, streamVars
    <3> QED
      BY <3>1, <3>2 DEF StreamKnown
  <2> QED
    BY <2>1, <2>2, <2>3, <2>4, <2>5, <2>6, <2>7, <2>8, <2>9, <2>10, <2>11 DEF StreamNext
<1>3. StreamKnown => StreamTypeOK
  BY DEF StreamKnown
<1> QED
  BY <1>1, <1>2, <1>3, PTL DEF StreamSpec

-----------------------------------------------------------------------------
(* The requests that change something. *)

(* Values that never fall along a queue, and that are within two.            *)
Rising(queue) == \A i, j \in 1..Len(queue) : i <= j => queue[i].value <= queue[j].value
Between(queue, low, high) == \A i \in 1..Len(queue) : low <= queue[i].value /\ queue[i].value <= high
(* The inductive invariant, of a session that handed no bandwidth over that   *)
(* is older than the one it recovers with: what waits was asked for after     *)
(* what was sent, and this after what the server has.                         *)
BoxInOrder ==
  /\ Rising(outbox) /\ Between(outbox, server, wanted)
  /\ \A i \in 1..Len(calls) : Between(outbox, calls[i].value, wanted)
CallsInOrder ==
  /\ Rising(calls)
  /\ \A i \in 1..Len(calls) : calls[i].value <= wanted /\ (calls[i].value < server => ~http /\ calls[i].applied)
CarriesTheLast ==
  kind = "bandwidth" /\ phase = "CREATING" =>
    server <= carried /\ Between(outbox, carried, carried) /\ Between(calls, carried, carried)
InOrder == server <= wanted /\ BoxInOrder /\ CallsInOrder /\ CarriesTheLast
ChangeIInv ==
  /\ ChangeTypeOK /\ lastId + due = wanted /\ carried <= wanted
  /\ http => Len(calls) <= 1
  /\ "handed over" \notin lost => InOrder

ChangeCalls == [id : Ids, value : Ids, stream : 1..MaxStreams, timed : BOOLEAN, opened : BOOLEAN, applied : BOOLEAN]

(* The fields of a request, and of what is sent of it. *)
LEMMA ReconfigurationIs ==
  ASSUME NEW r \in Reconfigurations
  PROVE  r.id \in Ids /\ r.value \in Ids /\ r.stream \in 1..MaxStreams /\ r.timed \in BOOLEAN
BY DEF Reconfigurations

(* The fields of a call. *)
LEMMA CallIs ==
  ASSUME NEW c \in ChangeCalls
  PROVE  /\ c.id \in Ids /\ c.value \in Ids /\ c.stream \in 1..MaxStreams
         /\ c.timed \in BOOLEAN /\ c.opened \in BOOLEAN /\ c.applied \in BOOLEAN
BY DEF ChangeCalls

(* A call is made of the request it sends. *)
LEMMA SendingIs ==
  ASSUME NEW r \in Reconfigurations, http \in BOOLEAN
  PROVE  Sending(r) \in ChangeCalls /\ Sending(r).value = r.value
<1>1. PICK o \in BOOLEAN : o <=> ~http
  OBVIOUS
<1>2. Sending(r) = [id |-> r.id, value |-> r.value, stream |-> r.stream, timed |-> r.timed, opened |-> o, applied |-> FALSE]
  BY <1>1 DEF Sending
<1> QED
  BY <1>2, ReconfigurationIs DEF ChangeCalls

(* A new request carries the value wanted. *)
LEMMA ARequestIs ==
  ASSUME ChangeTypeOK, NEW id \in Ids
  PROVE  ARequest(id) \in Reconfigurations /\ ARequest(id).value = wanted
BY DEF ARequest, Reconfigurations, ChangeTypeOK

(* A request that is added is the last of the queue, or all of it; or the     *)
(* queue stays. *)
LEMMA WithRequestIs ==
  ASSUME NEW box \in Boxes, NEW r \in Reconfigurations, NEW overHttp \in BOOLEAN, NEW overDead \in BOOLEAN
  PROVE  /\ WithRequest(box, r, overHttp, overDead) \in Boxes
         /\ \/ overHttp /\ WithRequest(box, r, overHttp, overDead).queue = <<r>>
            \/ ~overHttp /\ WithRequest(box, r, overHttp, overDead).queue = Append(box.queue, r)
            \/ overDead /\ WithRequest(box, r, overHttp, overDead).queue = box.queue
         /\ "handed over" \in WithRequest(box, r, overHttp, overDead).lost <=> "handed over" \in box.lost
<1> DEFINE pending == AfterAbort(box.pending, box.queue[1].id)
           box2 == WithRequest(box, r, overHttp, overDead)
<1>1. box.queue \in Seq(Reconfigurations) /\ box.pending \in Ids /\ box.lost \in SUBSET WaysToLose /\ 0 \in Ids
  BY ChangeAssumption DEF Boxes, Ids
<1>2. box = [queue |-> box.queue, pending |-> box.pending, lost |-> box.lost]
  BY DEF Boxes
<1>3. CASE overHttp /\ box.queue # <<>>
  <2> DEFINE lose == box.lost \cup IF pending # box.pending THEN {"own retransmission"} ELSE {}
  <2>1. pending \in Ids
    BY <1>1 DEF AfterAbort
  <2>2. lose \in SUBSET WaysToLose /\ ("handed over" \in lose <=> "handed over" \in box.lost)
    BY <1>1 DEF WaysToLose
  <2>3. box2 = [queue |-> <<r>>, pending |-> pending, lost |-> lose]
    BY <1>3 DEF WithRequest
  <2>4. <<r>> \in Seq(Reconfigurations)
    OBVIOUS
  <2> HIDE DEF pending, lose, box2
  <2>5. box2 \in Boxes
    BY <2>1, <2>2, <2>3, <2>4 DEF Boxes
  <2>6. box2.queue = <<r>> /\ box2.lost = lose
    BY <2>3
  <2> QED
    BY <1>3, <2>2, <2>5, <2>6 DEF box2
<1>4. CASE ~(overHttp /\ box.queue # <<>>) /\ overDead
  <2> DEFINE lose == box.lost \cup {"dead socket"}
  <2>1. box2 = [queue |-> box.queue, pending |-> box.pending, lost |-> lose]
    BY <1>2, <1>4 DEF WithRequest
  <2>2. lose \in SUBSET WaysToLose /\ ("handed over" \in lose <=> "handed over" \in box.lost)
    BY <1>1 DEF WaysToLose
  <2> HIDE DEF lose, box2
  <2>3. box2 \in Boxes
    BY <1>1, <2>1, <2>2 DEF Boxes
  <2>4. box2.queue = box.queue /\ box2.lost = lose
    BY <2>1
  <2> QED
    BY <1>4, <2>2, <2>3, <2>4 DEF box2
<1>5. CASE ~(overHttp /\ box.queue # <<>>) /\ ~overDead
  <2>1. box2 = [queue |-> Append(box.queue, r), pending |-> box.pending, lost |-> box.lost]
    BY <1>2, <1>5 DEF WithRequest
  <2>2. Append(box.queue, r) \in Seq(Reconfigurations)
    BY <1>1
  <2>3. box.queue = << >> => Append(box.queue, r) = <<r>>
    OBVIOUS
  <2> HIDE DEF box2
  <2>4. box2 \in Boxes
    BY <1>1, <2>1, <2>2 DEF Boxes
  <2>5. box2.queue = Append(box.queue, r) /\ box2.lost = box.lost
    BY <2>1
  <2> QED
    BY <1>5, <2>3, <2>4, <2>5 DEF box2
<1> QED
  BY <1>3, <1>4, <1>5

(* What is being sent, as requests. *)
LEMMA BeingSentIs ==
  ASSUME ChangeTypeOK
  PROVE  /\ BeingSent \in Seq(Reconfigurations)
         /\ ~http => BeingSent = << >>
         /\ http => Len(BeingSent) = Len(calls) /\ \A i \in 1..Len(calls) : BeingSent[i].value = calls[i].value
<1>1. calls \in Seq(ChangeCalls)
  BY DEF ChangeTypeOK, ChangeCalls
<1>2. CASE ~http
  <2>1. BeingSent = << >>
    BY <1>2 DEF BeingSent
  <2> QED
    BY <1>2, <2>1
<1>3. CASE http
  <2> DEFINE Asked(c) == [id |-> c.id, value |-> c.value, stream |-> c.stream, timed |-> c.opened \/ c.timed]
  <2>1. BeingSent = [i \in 1..Len(calls) |-> Asked(calls[i])]
    BY <1>1, <1>3 DEF BeingSent
  <2>2. ASSUME NEW c \in ChangeCalls PROVE Asked(c) \in Reconfigurations /\ Asked(c).value = c.value
    <3>1. PICK t \in BOOLEAN : t <=> c.opened \/ c.timed
      OBVIOUS
    <3>2. Asked(c) = [id |-> c.id, value |-> c.value, stream |-> c.stream, timed |-> t]
      BY <3>1, CallIs
    <3> QED
      BY <3>2, CallIs DEF Reconfigurations
  <2>3. \A i \in 1..Len(calls) : Asked(calls[i]) \in Reconfigurations /\ Asked(calls[i]).value = calls[i].value
    BY <1>1, <2>2
  <2> HIDE DEF Asked
  <2>4. BeingSent \in Seq(Reconfigurations) /\ Len(BeingSent) = Len(calls) /\ \A i \in 1..Len(calls) : BeingSent[i] = Asked(calls[i])
    BY <1>1, <2>1, <2>3
  <2> QED
    BY <1>3, <2>3, <2>4
<1> QED
  BY <1>2, <1>3

(* All requests are handed over, or the last of them. *)
AsHanded(box, reqs, n, overHttp) ==
  /\ box.queue = IF overHttp /\ n # 0 THEN <<reqs[n]>> ELSE SubSeq(reqs, 1, n)
  /\ "handed over" \in box.lost <=> "handed over" \in lost
(* The queue of a box that all were added to is all of them, or the last. *)
LEMMA AddedIs ==
  ASSUME ChangeTypeOK, NEW reqs \in Seq(Reconfigurations), NEW overHttp \in BOOLEAN
  PROVE  Added(reqs, overHttp) \in Boxes /\ AsHanded(Added(reqs, overHttp), reqs, Len(reqs), overHttp)
<1> DEFINE step == [b \in Boxes \X Reconfigurations |-> WithRequest(b[1], b[2], overHttp, FALSE)]
           base == Box(<<>>, pendingChange)
           P == [n \in Nat |-> {box \in Boxes : AsHanded(box, reqs, n, overHttp)}]
<1>1. base \in Boxes /\ base.queue = << >> /\ base.lost = lost
  BY DEF Box, Boxes, ChangeTypeOK
<1>2. step \in [Boxes \X Reconfigurations -> Boxes]
  <2>1. ASSUME NEW box \in Boxes, NEW r \in Reconfigurations PROVE WithRequest(box, r, overHttp, FALSE) \in Boxes
    BY WithRequestIs
  <2> QED
    BY <2>1
<1>3. base \in P[0]
  <2>1. SubSeq(reqs, 1, 0) = << >>
    OBVIOUS
  <2> HIDE DEF base
  <2>2. AsHanded(base, reqs, 0, overHttp)
    BY <1>1, <2>1 DEF AsHanded
  <2> QED
    BY <1>1, <2>2
<1>4. ASSUME NEW n \in 1..Len(reqs), NEW box \in Boxes, box \in P[n - 1]
      PROVE  step[<<box, reqs[n]>>] \in P[n]
  <2> DEFINE r == reqs[n]  next == WithRequest(box, r, overHttp, FALSE)
  <2>1. n \in Nat /\ n - 1 \in Nat /\ r \in Reconfigurations
    OBVIOUS
  <2>2. AsHanded(box, reqs, n - 1, overHttp)
    BY <1>4, <2>1
  <2>3. step[<<box, r>>] = next
    BY <2>1
  <2>4. /\ next \in Boxes /\ ("handed over" \in next.lost <=> "handed over" \in box.lost)
        /\ (overHttp /\ next.queue = <<r>>) \/ (~overHttp /\ next.queue = Append(box.queue, r))
    <3>1. FALSE \in BOOLEAN
      OBVIOUS
    <3> QED
      BY <2>1, <3>1, WithRequestIs, ZenonT(30)
  <2> HIDE DEF next
  <2>5. CASE overHttp
    <3>1. next.queue = <<r>>
      BY <2>4, <2>5, Zenon
    <3>2. n # 0
      OBVIOUS
    <3> QED
      BY <2>1, <2>2, <2>3, <2>4, <2>5, <3>1, <3>2 DEF AsHanded
  <2>6. CASE ~overHttp
    <3>1. SubSeq(reqs, 1, n) = Append(SubSeq(reqs, 1, n - 1), r)
      BY <2>1
    <3> QED
      BY <2>1, <2>2, <2>3, <2>4, <2>6, <3>1 DEF AsHanded
  <2> QED
    BY <2>5, <2>6
<1>5. Added(reqs, overHttp) = Folded(step, base, reqs)
  BY DEF Added
<1>6. Len(reqs) \in Nat
  OBVIOUS
<1> HIDE DEF step, base
<1>7. Folded(step, base, reqs) \in Boxes /\ Folded(step, base, reqs) \in P[Len(reqs)]
  <2> HIDE DEF P
  <2> QED
    BY <1>1, <1>2, <1>3, <1>4, FoldedInduction
<1> QED
  BY <1>5, <1>6, <1>7

(* The types in parts. *)
ChangeFlags == {known, http, dead, unmanaged} \subseteq BOOLEAN
ChangeAmounts ==
  /\ kind \in {"frequency", "bandwidth"} /\ phase \in {"OPEN", "SLEEP", "CREATING", "OFF"}
  /\ wanted \in Ids /\ due \in Ids /\ lastId \in Ids /\ server \in Ids /\ carried \in Ids
  /\ stream \in 1..MaxStreams /\ faults \in 0..MaxFaults
ChangeAnswers == pendingChange \in Ids /\ monitor \in [received : Ids, pending : Ids] /\ lost \subseteq WaysToLose
ChangeWaiting == outbox \in Seq(Reconfigurations)
ChangeSent == calls \in Seq(ChangeCalls) /\ timers \subseteq [id : Ids, stream : 1..MaxStreams]
(* The types are their parts. *)
LEMMA TypesInParts == ChangeTypeOK <=> ChangeFlags /\ ChangeAmounts /\ ChangeAnswers /\ ChangeWaiting /\ ChangeSent
BY Zenon DEF ChangeTypeOK, ChangeFlags, ChangeAmounts, ChangeAnswers, ChangeWaiting, ChangeSent, ChangeCalls

(* And of the next state. *)
LEMMA TypesInPartsNext == ChangeTypeOK' <=> ChangeFlags' /\ ChangeAmounts' /\ ChangeAnswers' /\ ChangeWaiting' /\ ChangeSent'
BY Zenon DEF ChangeTypeOK, ChangeFlags, ChangeAmounts, ChangeAnswers, ChangeWaiting, ChangeSent, ChangeCalls

(* What a handler that may add a request leaves: the queue, or one request    *)
(* more with the value wanted, and never while the session is created with a   *)
(* bandwidth. *)
Asks(queue) ==
  /\ ChangeAnswers' /\ ChangeWaiting'
  /\ "handed over" \in lost' <=> "handed over" \in lost
  /\ \/ outbox' = queue
     \/ /\ ~(kind = "bandwidth" /\ phase = "CREATING")
        /\ \E r \in Reconfigurations : r.value = wanted /\ (outbox' = <<r>> \/ outbox' = Append(queue, r))


(* The flags are Booleans. *)
LEMMA FlagsAre == ASSUME ChangeFlags PROVE http \in BOOLEAN /\ dead \in BOOLEAN
BY DEF ChangeFlags

(* A queue that stays. *)
LEMMA StaysAsks ==
  ASSUME ChangeTypeOK, NEW queue \in Seq(Reconfigurations), Stays(queue), UNCHANGED monitor
  PROVE  Asks(queue)
<1>1. ChangeAnswers
  BY TypesInParts
<1>2. outbox' = queue /\ pendingChange' = pendingChange /\ lost' = lost /\ monitor' = monitor
  BY DEF Stays
<1>3. ChangeAnswers' /\ ChangeWaiting'
  BY <1>1, <1>2 DEF ChangeAnswers, ChangeWaiting
<1> QED
  BY <1>2, <1>3, Zenon DEF Asks

(* A request that is added. *)
LEMMA BecomesAsks ==
  ASSUME ChangeTypeOK, NEW queue \in Seq(Reconfigurations), NEW id \in Ids, NEW pending \in Ids,
         Becomes(WithRequest(Box(queue, pending), ARequest(id), http, dead)),
         monitor' \in [received : Ids, pending : Ids], ~(kind = "bandwidth" /\ phase = "CREATING")
  PROVE  Asks(queue)
<1> DEFINE box == Box(queue, pending)  r == ARequest(id)  after == WithRequest(box, r, http, dead)
<1>1. ChangeAnswers /\ http \in BOOLEAN /\ dead \in BOOLEAN
  BY TypesInParts, FlagsAre
<1>2. box \in Boxes /\ box.queue = queue /\ box.lost = lost
  BY <1>1 DEF Box, Boxes, ChangeAnswers
<1>3. r \in Reconfigurations /\ r.value = wanted
  BY ARequestIs
<1> HIDE DEF box, r
<1>4. /\ after \in Boxes
      /\ "handed over" \in after.lost <=> "handed over" \in box.lost
  BY <1>1, <1>2, <1>3, WithRequestIs, Zenon
<1>5. \/ http /\ after.queue = <<r>>
      \/ ~http /\ after.queue = Append(box.queue, r)
      \/ dead /\ after.queue = box.queue
  BY <1>1, <1>2, <1>3, WithRequestIs, Zenon
<1> HIDE DEF after
<1>6. outbox' = after.queue /\ pendingChange' = after.pending /\ lost' = after.lost
  BY DEF Becomes, after, box, r
<1>7. after.queue \in Seq(Reconfigurations) /\ after.pending \in Ids /\ after.lost \subseteq WaysToLose
  BY <1>4 DEF Boxes
<1>8. ChangeAnswers' /\ ChangeWaiting'
  BY <1>6, <1>7 DEF ChangeAnswers, ChangeWaiting
<1> QED
  BY <1>2, <1>3, <1>4, <1>5, <1>6, <1>8, Zenon DEF Asks

(* SubscriptionManager.changeFrequency. *)
LEMMA ChangeFrequencyAsks ==
  ASSUME ChangeTypeOK, NEW queue \in Seq(Reconfigurations), NEW id \in Ids, ChangeFrequency(queue, id), kind = "frequency"
  PROVE  Asks(queue)
<1>1. ChangeAnswers /\ monitor' = monitor
  BY TypesInParts DEF ChangeFrequency
<1>2. monitor' \in [received : Ids, pending : Ids]
  BY <1>1 DEF ChangeAnswers
<1>3. CASE phase = "OFF"
  <2>1. Becomes(Box(queue, id))
    BY <1>3 DEF ChangeFrequency
  <2>2. outbox' = queue /\ pendingChange' = id /\ lost' = lost
    BY <2>1 DEF Becomes, Box
  <2>3. ChangeAnswers' /\ ChangeWaiting'
    BY <1>1, <1>2, <2>2 DEF ChangeAnswers, ChangeWaiting
  <2> QED
    BY <2>2, <2>3, Zenon DEF Asks
<1>4. CASE phase # "OFF"
  <2>1. Becomes(WithRequest(Box(queue, id), ARequest(id), http, dead))
    BY <1>4 DEF ChangeFrequency
  <2>2. kind # "bandwidth"
    OBVIOUS
  <2> QED
    BY <1>2, <2>1, <2>2, BecomesAsks
<1> QED
  BY <1>3, <1>4

(* Session.sendConstrain. *)
LEMMA SendConstrainAsks ==
  ASSUME ChangeTypeOK, NEW queue \in Seq(Reconfigurations), NEW id \in Ids, SendConstrain(queue, id)
  PROVE  Asks(queue)
<1>1. ChangeAnswers
  BY TypesInParts
<1>2. CASE Stays(queue) /\ UNCHANGED monitor
  BY <1>2, StaysAsks
<1>3. CASE /\ outbox' = queue /\ lost' = lost \cup IF wanted # carried THEN {"creating"} ELSE {}
           /\ UNCHANGED <<pendingChange, monitor>>
  <2>1. ChangeAnswers' /\ ChangeWaiting'
    BY <1>1, <1>3 DEF ChangeAnswers, ChangeWaiting, WaysToLose
  <2>2. "handed over" \in lost' <=> "handed over" \in lost
    BY <1>3
  <2> QED
    BY <1>3, <2>1, <2>2, Zenon DEF Asks
<1>4. CASE /\ phase = "OPEN" /\ monitor' = [monitor EXCEPT !.pending = id]
           /\ Becomes(WithRequest(Box(queue, pendingChange), ARequest(id), http, dead))
  <2>1. monitor' \in [received : Ids, pending : Ids] /\ pendingChange \in Ids
    BY <1>1, <1>4 DEF ChangeAnswers
  <2>2. phase # "CREATING"
    BY <1>4
  <2> QED
    BY <1>4, <2>1, <2>2, BecomesAsks
<1> QED
  BY <1>2, <1>3, <1>4, Zenon DEF SendConstrain

(* And the recovery of a tutor. *)
LEMMA RepeatAsks ==
  ASSUME ChangeTypeOK, NEW queue \in Seq(Reconfigurations), NEW id \in Ids, Repeat(queue, id)
  PROVE  Asks(queue)
<1>1. CASE kind = "bandwidth"
  BY <1>1, SendConstrainAsks DEF Repeat, RepeatConstrain
<1>2. CASE kind # "bandwidth"
  <2>1. kind = "frequency"
    BY <1>2 DEF ChangeTypeOK
  <2>2. CASE ChangeFrequency(queue, id)
    BY <2>1, <2>2, ChangeFrequencyAsks
  <2>3. CASE Stays(queue) /\ UNCHANGED monitor
    BY <2>3, StaysAsks
  <2> QED
    BY <1>2, <2>2, <2>3, Zenon DEF Repeat, RepeatChange
<1> QED
  BY <1>1, <1>2

(* A value that is not below those of a queue keeps it in order.             *)
LEMMA OneMore ==
  ASSUME NEW q \in Seq(Reconfigurations), NEW r \in Reconfigurations, NEW next \in {q, <<r>>, Append(q, r)},
         NEW low \in Nat, low <= r.value, Between(q, low, r.value)
  PROVE  Between(next, low, r.value) /\ (Rising(q) => Rising(next))
<1>1. r.value \in Nat /\ Len(q) \in Nat /\ \A i \in 1..Len(q) : q[i] \in Reconfigurations /\ q[i].value \in Nat
  BY ReconfigurationIs DEF Ids
<1>2. CASE next = q
  BY <1>2
<1>3. CASE next = <<r>>
  <2>1. Len(next) = 1 /\ next[1] = r
    BY <1>3
  <2> QED
    BY <1>1, <2>1 DEF Between, Rising
<1>4. CASE next = Append(q, r)
  <2>1. Len(next) = Len(q) + 1 /\ next[Len(q) + 1] = r /\ \A i \in 1..Len(q) : next[i] = q[i]
    BY <1>1, <1>4
  <2>2. \A i \in 1..Len(next) : i = Len(q) + 1 \/ i \in 1..Len(q)
    BY <1>1, <2>1
  <2>3. Between(next, low, r.value)
    BY <1>1, <2>1, <2>2 DEF Between
  <2>4. ASSUME Rising(q), NEW i \in 1..Len(next), NEW j \in 1..Len(next), i <= j PROVE next[i].value <= next[j].value
    <3>1. CASE j \in 1..Len(q)
      <4>1. i \in 1..Len(q)
        BY <1>1, <2>2, <2>4, <3>1
      <4> QED
        BY <2>1, <2>4, <3>1, <4>1 DEF Rising
    <3>2. CASE j = Len(q) + 1
      BY <2>1, <2>3, <3>2 DEF Between
    <3> QED
      BY <2>2, <3>1, <3>2
  <2> QED
    BY <2>3, <2>4 DEF Rising
<1> QED
  BY <1>2, <1>3, <1>4

(* A queue with the same values is in the same order. *)
SameValues(q, s) == Len(q) = Len(s) /\ \A i \in 1..Len(s) : q[i].value = s[i].value
(* A queue with the same values is in the same order. *)
LEMMA SameOrder ==
  ASSUME NEW q, NEW s, SameValues(q, s)
  PROVE  /\ Rising(s) => Rising(q)
         /\ \A low, high : Between(s, low, high) => Between(q, low, high)
BY DEF SameValues, Rising, Between

(* Numbers that are compared. *)
LEMMA ValuesAre ==
  ASSUME ChangeTypeOK
  PROVE  /\ wanted \in Nat /\ server \in Nat /\ carried \in Nat /\ due \in Nat /\ lastId \in Nat
         /\ outbox \in Seq(Reconfigurations) /\ calls \in Seq(ChangeCalls) /\ Len(calls) \in Nat /\ Len(outbox) \in Nat
         /\ \A i \in 1..Len(calls) : calls[i] \in ChangeCalls /\ calls[i].value \in Nat
         /\ \A i \in 1..Len(outbox) : outbox[i] \in Reconfigurations /\ outbox[i].value \in Nat
<1>1. outbox \in Seq(Reconfigurations) /\ calls \in Seq(ChangeCalls)
  BY DEF ChangeTypeOK, ChangeCalls
<1>2. wanted \in Nat /\ server \in Nat /\ carried \in Nat /\ due \in Nat /\ lastId \in Nat
  BY DEF ChangeTypeOK, Ids
<1>3. \A i \in 1..Len(calls) : calls[i] \in ChangeCalls /\ calls[i].value \in Nat
  BY <1>1, CallIs DEF Ids
<1>4. \A i \in 1..Len(outbox) : outbox[i] \in Reconfigurations /\ outbox[i].value \in Nat
  BY <1>1, ReconfigurationIs DEF Ids
<1>5. Len(calls) \in Nat /\ Len(outbox) \in Nat
  BY <1>1
<1> QED
  BY <1>1, <1>2, <1>3, <1>4, <1>5

(* A request that a handler adds, and calls that are forgotten, leave the     *)
(* order. *)
LEMMA AskStep ==
  ASSUME ChangeIInv, NEW queue \in Seq(Reconfigurations), SameValues(queue, outbox), Asks(queue),
         ChangeFlags', ChangeAmounts', ChangeSent', lastId' + due' = wanted', calls' \in {calls, << >>},
         UNCHANGED <<kind, wanted, server, carried, http, phase>>
  PROVE  ChangeIInv'
<1>1. ChangeTypeOK'
  BY TypesInPartsNext DEF Asks
<1>2. ChangeTypeOK /\ lastId + due = wanted /\ carried <= wanted /\ (http => Len(calls) <= 1)
  BY DEF ChangeIInv
<1>3. carried' <= wanted'
  BY <1>2
<1>4. http' => Len(calls') <= 1
  BY <1>2
<1>5. ASSUME "handed over" \notin lost' PROVE InOrder'
  <2>1. InOrder
    BY <1>5 DEF ChangeIInv, Asks
  <2>2. PICK r \in Reconfigurations : outbox' = queue \/ (r.value = wanted /\ ~(kind = "bandwidth" /\ phase = "CREATING")
                                                        /\ outbox' \in {queue, <<r>>, Append(queue, r)})
    <3>1. ARequest(0) \in Reconfigurations
      BY <1>2, ARequestIs, ChangeAssumption DEF Ids
    <3> QED
      BY <3>1, Zenon DEF Asks
  <2>3. ASSUME NEW low \in Nat, low <= wanted, Between(outbox, low, wanted) PROVE Between(outbox', low, wanted)
    <3>1. Between(queue, low, wanted)
      BY <2>3, SameOrder
    <3> QED
      BY <2>2, <2>3, <3>1, OneMore
  <2>4. Rising(outbox')
    <3>1. Rising(queue) /\ Between(queue, server, wanted)
      BY <2>1, SameOrder DEF InOrder, BoxInOrder
    <3>2. server \in Nat /\ server <= wanted
      BY <1>2, <2>1, ValuesAre DEF InOrder
    <3>3. CASE outbox' = queue
      BY <3>1, <3>3
    <3>4. CASE r.value = wanted /\ outbox' \in {queue, <<r>>, Append(queue, r)}
      BY <3>1, <3>2, <3>4, OneMore
    <3> QED
      BY <2>2, <3>3, <3>4
  <2>5. Between(outbox', server, wanted)
    BY <1>2, <2>1, <2>3, ValuesAre DEF InOrder, BoxInOrder
  <2>6. \A i \in 1..Len(calls) : Between(outbox', calls[i].value, wanted)
    BY <1>2, <2>1, <2>3, ValuesAre DEF InOrder, BoxInOrder, CallsInOrder
  <2>7. BoxInOrder'
    BY <2>4, <2>5, <2>6 DEF BoxInOrder
  <2>8. CallsInOrder'
    <3>1. CASE calls' = calls
      BY <2>1, <3>1 DEF InOrder, CallsInOrder
    <3>2. CASE calls' = << >>
      BY <3>2 DEF CallsInOrder, Rising
    <3> QED
      BY <3>1, <3>2
  <2>9. CarriesTheLast'
    <3> SUFFICES ASSUME kind = "bandwidth", phase = "CREATING"
                 PROVE  server <= carried /\ Between(outbox', carried, carried) /\ Between(calls', carried, carried)
      BY DEF CarriesTheLast
    <3>1. server <= carried /\ Between(outbox, carried, carried) /\ Between(calls, carried, carried)
      BY <2>1 DEF InOrder, CarriesTheLast
    <3>2. outbox' = queue
      BY <2>2
    <3>3. Between(outbox', carried, carried)
      BY <3>1, <3>2, SameOrder
    <3>4. Between(calls', carried, carried)
      BY <3>1 DEF Between
    <3> QED
      BY <3>1, <3>3, <3>4
  <2> QED
    BY <2>1, <2>7, <2>8, <2>9 DEF InOrder
<1> QED
  BY <1>1, <1>2, <1>3, <1>4, <1>5 DEF ChangeIInv

(* The steps that touch none of what the order is about, or let it be more.  *)
LEMMA LooseStep ==
  ASSUME ChangeIInv, SetValue \/ Forget \/ ServerSentBandwidth \/ FallAsleep \/ UNCHANGED changeVars
  PROVE  ChangeIInv'
<1>1. /\ UNCHANGED <<kind, lastId, pendingChange, monitor, carried, stream, http, dead, outbox, calls, timers, lost, server, faults>>
      /\ wanted' - wanted = due' - due /\ wanted' >= wanted /\ wanted' \in Ids /\ due' \in Ids
      /\ phase' = phase \/ phase' = "SLEEP"
  <2>0. wanted \in Ids /\ due \in Ids /\ wanted \in Nat /\ due \in Nat /\ MaxValues \in Nat
        /\ lastId + due = wanted /\ lastId \in Nat
    BY ValuesAre, ChangeAssumption DEF ChangeIInv, ChangeTypeOK
  <2>1. CASE SetValue
    <3>1. wanted' = wanted + 1 /\ due' = due + 1 /\ wanted < MaxValues
      BY <2>1 DEF SetValue
    <3>2. wanted' - wanted = due' - due /\ wanted' >= wanted /\ wanted' \in Ids /\ due' \in Ids
      BY <2>0, <3>1 DEF Ids
    <3> QED
      BY <2>1, <3>2 DEF SetValue, tables, connection, traffic
  <2>2. CASE Forget \/ ServerSentBandwidth \/ FallAsleep \/ UNCHANGED changeVars
    <3>1. wanted' = wanted /\ due' = due
      BY <2>2 DEF Forget, ServerSentBandwidth, FallAsleep, changeVars
    <3>2. wanted' - wanted = due' - due /\ wanted' >= wanted
      BY <2>0, <3>1
    <3> QED
      BY <2>0, <2>2, <3>1, <3>2 DEF Forget, ServerSentBandwidth, FallAsleep, changeVars, tables, connection, traffic
  <2> QED
    BY <2>1, <2>2
<1>2. ChangeTypeOK /\ lastId + due = wanted /\ carried <= wanted /\ (http => Len(calls) <= 1)
  BY DEF ChangeIInv
<1>3. ChangeFlags'
  BY <1>2, TypesInParts DEF ChangeFlags, SetValue, Forget, ServerSentBandwidth, FallAsleep, changeVars, tables, connection, traffic
<1>4. ChangeAmounts'
  BY <1>1, <1>2, TypesInParts DEF ChangeAmounts
<1>5. ChangeAnswers' /\ ChangeWaiting' /\ ChangeSent'
  BY <1>1, <1>2, TypesInParts DEF ChangeAnswers, ChangeWaiting, ChangeSent
<1>6. ChangeTypeOK'
  BY <1>3, <1>4, <1>5, TypesInPartsNext
<1>7. /\ wanted \in Nat /\ server \in Nat /\ carried \in Nat /\ due \in Nat /\ lastId \in Nat
      /\ \A i \in 1..Len(calls) : calls[i].value \in Nat
      /\ \A i \in 1..Len(outbox) : outbox[i].value \in Nat
  BY <1>2, ValuesAre
<1>8. wanted' \in Nat /\ due' \in Nat
  BY <1>1 DEF Ids
<1>9. lastId' + due' = wanted' /\ carried' <= wanted'
  <2>1. wanted' - wanted = due' - due /\ wanted' >= wanted
    BY <1>1
  <2>2. ASSUME NEW w \in Nat, NEW d \in Nat, w - wanted = d - due, w >= wanted
        PROVE  lastId + d = w /\ carried <= w
    <3>1. lastId + due = wanted /\ carried <= wanted
      BY <1>2
    <3>2. lastId \in Nat /\ due \in Nat /\ wanted \in Nat /\ carried \in Nat
      BY <1>7
    <3> QED
      BY <2>2, <3>1, <3>2
  <2>3. lastId + due' = wanted' /\ carried <= wanted'
    BY <1>8, <2>1, <2>2
  <2> QED
    BY <1>1, <2>3
<1>10. ASSUME "handed over" \notin lost' PROVE InOrder'
  <2>1. server <= wanted /\ BoxInOrder /\ CallsInOrder /\ CarriesTheLast
    BY <1>1, <1>10 DEF ChangeIInv, InOrder
  <2>2. ASSUME NEW low \in Nat, Between(outbox, low, wanted) PROVE Between(outbox, low, wanted')
    BY <1>1, <1>7, <1>8, <2>2, SMTT(30) DEF Between
  <2>3. Between(outbox, server, wanted') /\ \A i \in 1..Len(calls) : Between(outbox, calls[i].value, wanted')
    BY <1>7, <2>1, <2>2 DEF BoxInOrder
  <2>4. BoxInOrder'
    BY <1>1, <2>1, <2>3 DEF BoxInOrder
  <2>5. \A i \in 1..Len(calls) : calls[i].value <= wanted'
    BY <1>1, <1>7, <1>8, <2>1 DEF CallsInOrder
  <2>6. CallsInOrder'
    BY <1>1, <2>1, <2>5 DEF CallsInOrder
  <2>7. CarriesTheLast'
    BY <1>1, <2>1 DEF CarriesTheLast
  <2>8. server' <= wanted'
    <3>1. server' = server /\ wanted' >= wanted
      BY <1>1
    <3> QED
      BY <1>7, <1>8, <2>1, <3>1
  <2> QED
    BY <2>4, <2>6, <2>7, <2>8 DEF InOrder
<1> QED
  BY <1>1, <1>2, <1>6, <1>9, <1>10 DEF ChangeIInv

(* HandleChange, CallBreaks and the timeouts. *)
LEMMA HandleChangeStep ==
  ASSUME ChangeIInv, HandleChange
  PROVE  ChangeIInv'
<1>1. ChangeTypeOK /\ lastId + due = wanted
  BY DEF ChangeIInv
<1>2. /\ due > 0 /\ due' = due - 1 /\ lastId' = lastId + 1
      /\ UNCHANGED <<kind, wanted, known, unmanaged, phase, carried, stream, http, dead, calls, timers, server, faults>>
  BY DEF HandleChange, connection
<1>3. due \in Nat /\ lastId \in Nat /\ wanted \in Nat /\ wanted <= MaxValues /\ MaxValues \in Nat
  BY <1>1, ValuesAre, ChangeAssumption DEF ChangeTypeOK, Ids
<1>4. lastId' \in Ids /\ due' \in Ids /\ lastId' + due' = wanted'
  BY <1>1, <1>2, <1>3 DEF Ids
<1>5. Asks(outbox)
  <2>1. lastId + 1 \in Ids /\ outbox \in Seq(Reconfigurations)
    BY <1>1, <1>2, <1>4, ValuesAre
  <2>2. CASE kind = "bandwidth" /\ SendConstrain(outbox, lastId + 1)
    BY <1>1, <2>1, <2>2, SendConstrainAsks
  <2>3. CASE kind = "frequency" /\ ChangeFrequency(outbox, lastId + 1)
    BY <1>1, <2>1, <2>3, ChangeFrequencyAsks
  <2> QED
    BY <2>2, <2>3 DEF HandleChange
<1>6. ChangeFlags' /\ ChangeSent'
  BY <1>1, <1>2, TypesInParts DEF ChangeFlags, ChangeSent
<1>7. ChangeAmounts'
  BY <1>1, <1>2, <1>4, TypesInParts DEF ChangeAmounts
<1>8. SameValues(outbox, outbox) /\ outbox \in Seq(Reconfigurations)
  BY <1>1, ValuesAre DEF SameValues
<1> QED
  BY <1>2, <1>4, <1>5, <1>6, <1>7, <1>8, AskStep

(* A call that breaks. *)
LEMMA CallBreaksStep ==
  ASSUME ChangeIInv, CallBreaks
  PROVE  ChangeIInv'
<1>1. ChangeTypeOK /\ lastId + due = wanted
  BY DEF ChangeIInv
<1>2. /\ calls # <<>> /\ calls' = << >> /\ faults < MaxFaults /\ faults' = faults + 1
      /\ UNCHANGED <<kind, wanted, due, lastId, known, unmanaged, phase, carried, stream, http, dead, timers, server>>
  BY DEF CallBreaks, connection
<1>3. outbox \in Seq(Reconfigurations) /\ SameValues(outbox, outbox) /\ calls[1] \in ChangeCalls
  BY <1>1, <1>2, ValuesAre DEF SameValues
<1>4. calls[1].id \in Ids
  BY <1>3, CallIs
<1>5. Asks(outbox)
  <2>1. CASE Stays(outbox) /\ UNCHANGED monitor
    BY <1>1, <1>3, <2>1, StaysAsks
  <2>2. CASE Repeat(outbox, calls[1].id)
    BY <1>1, <1>3, <1>4, <2>2, RepeatAsks
  <2> QED
    BY <2>1, <2>2 DEF CallBreaks
<1>6. ChangeFlags'
  BY <1>1, <1>2, TypesInParts DEF ChangeFlags
<1>7. ChangeAmounts'
  BY <1>1, <1>2, TypesInParts, ChangeAssumption DEF ChangeAmounts
<1>8. ChangeSent'
  BY <1>1, <1>2, TypesInParts DEF ChangeSent
<1> QED
  BY <1>1, <1>2, <1>3, <1>5, <1>6, <1>7, <1>8, AskStep

(* The timeout of a tutor: what waits is marked, with the values it has. *)
LEMMA TutorTimeoutStep ==
  ASSUME ChangeIInv, NEW t \in timers, TutorTimeout(t)
  PROVE  ChangeIInv'
<1>1. ChangeTypeOK /\ lastId + due = wanted
  BY DEF ChangeIInv
<1>2. /\ timers' = timers \ {t}
      /\ UNCHANGED <<kind, wanted, due, lastId, known, unmanaged, phase, carried, stream, http, dead, calls, server, faults>>
  BY DEF TutorTimeout, connection
<1> DEFINE Untimed(r) == IF r.id = t.id /\ r.stream = t.stream THEN [r EXCEPT !.timed = FALSE] ELSE r
           untimed == [i \in DOMAIN outbox |-> IF outbox[i].id = t.id /\ outbox[i].stream = t.stream
                                               THEN [outbox[i] EXCEPT !.timed = FALSE] ELSE outbox[i]]
<1>3. outbox \in Seq(Reconfigurations) /\ t.id \in Ids
  BY <1>1, ValuesAre DEF ChangeTypeOK
<1>4. ASSUME NEW r \in Reconfigurations PROVE Untimed(r) \in Reconfigurations /\ Untimed(r).value = r.value
  <2>1. [r EXCEPT !.timed = FALSE] \in Reconfigurations /\ [r EXCEPT !.timed = FALSE].value = r.value
    BY DEF Reconfigurations
  <2> QED
    BY <2>1
<1>5. untimed = [i \in 1..Len(outbox) |-> Untimed(outbox[i])]
  BY <1>3
<1>6. untimed \in Seq(Reconfigurations) /\ SameValues(untimed, outbox)
  <2>1. \A i \in 1..Len(outbox) : Untimed(outbox[i]) \in Reconfigurations /\ Untimed(outbox[i]).value = outbox[i].value
    BY <1>3, <1>4
  <2> HIDE DEF Untimed, untimed
  <2>2. untimed \in Seq(Reconfigurations) /\ Len(untimed) = Len(outbox) /\ \A i \in 1..Len(outbox) : untimed[i] = Untimed(outbox[i])
    BY <1>3, <1>5, <2>1
  <2> QED
    BY <2>1, <2>2 DEF SameValues
<1>7. IF VerifySuccess(t.id) \/ phase = "OFF" THEN Stays(untimed) /\ UNCHANGED monitor ELSE Repeat(untimed, t.id)
  BY DEF TutorTimeout
<1> HIDE DEF untimed
<1>8. Asks(untimed)
  <2>1. CASE Stays(untimed) /\ UNCHANGED monitor
    BY <1>1, <1>6, <2>1, StaysAsks
  <2>2. CASE Repeat(untimed, t.id)
    BY <1>1, <1>3, <1>6, <2>2, RepeatAsks
  <2> QED
    BY <1>7, <2>1, <2>2
<1>9. ChangeFlags'
  BY <1>1, <1>2, TypesInParts DEF ChangeFlags
<1>10. ChangeAmounts' /\ ChangeSent'
  BY <1>1, <1>2, TypesInParts DEF ChangeAmounts, ChangeSent
<1> QED
  BY <1>1, <1>2, <1>6, <1>8, <1>9, <1>10, AskStep

(* The first request that waits is sent, or dropped. *)
LEMMA SendOrder ==
  ASSUME ChangeTypeOK, InOrder, outbox # << >>, NEW c \in ChangeCalls, c.value = outbox[1].value,
         calls' \in {calls, Append(calls, c)}, outbox' = Tail(outbox),
         UNCHANGED <<kind, wanted, server, carried, http, phase>>
  PROVE  InOrder'
<1>1. /\ wanted \in Nat /\ server \in Nat /\ carried \in Nat /\ c.value \in Nat
      /\ outbox \in Seq(Reconfigurations) /\ calls \in Seq(ChangeCalls) /\ Len(calls) \in Nat /\ Len(outbox) \in Nat
      /\ \A i \in 1..Len(calls) : calls[i].value \in Nat
      /\ \A i \in 1..Len(outbox) : outbox[i].value \in Nat
  BY ValuesAre, CallIs DEF Ids
<1>2. server <= wanted /\ BoxInOrder /\ CallsInOrder /\ CarriesTheLast
  BY DEF InOrder
<1>3. /\ Len(outbox') = Len(outbox) - 1 /\ 1 \in 1..Len(outbox)
      /\ \A i \in 1..Len(outbox') : i + 1 \in 1..Len(outbox) /\ outbox'[i] = outbox[i + 1]
  BY <1>1
<1>4. ASSUME NEW low, NEW high, Between(outbox, low, high) PROVE Between(outbox', low, high)
  BY <1>3, <1>4 DEF Between
<1>5. Rising(outbox')
  <2>1. ASSUME NEW i \in 1..Len(outbox'), NEW j \in 1..Len(outbox'), i <= j PROVE outbox'[i].value <= outbox'[j].value
    <3>1. i + 1 <= j + 1
      BY <1>1, <1>3, <2>1
    <3> QED
      BY <1>2, <1>3, <3>1 DEF BoxInOrder, Rising
  <2> QED
    BY <2>1 DEF Rising
<1>6. Between(outbox', c.value, wanted)
  <2>1. ASSUME NEW j \in 1..Len(outbox) PROVE c.value <= outbox[j].value /\ outbox[j].value <= wanted
    <3>1. 1 <= j
      OBVIOUS
    <3>2. outbox[1].value <= outbox[j].value
      BY <1>2, <1>3, <3>1 DEF BoxInOrder, Rising
    <3> QED
      BY <1>2, <3>2 DEF BoxInOrder, Between
  <2>2. Between(outbox, c.value, wanted)
    BY <2>1 DEF Between
  <2> QED
    BY <1>4, <2>2
<1>7. server <= c.value /\ c.value <= wanted /\ \A i \in 1..Len(calls) : calls[i].value <= c.value
  BY <1>2, <1>3 DEF BoxInOrder, Between
<1>8. Between(outbox', server, wanted) /\ \A i \in 1..Len(calls) : Between(outbox', calls[i].value, wanted)
  BY <1>2, <1>4 DEF BoxInOrder
<1>9. CASE calls' = calls
  <2>1. BoxInOrder'
    BY <1>5, <1>8, <1>9 DEF BoxInOrder
  <2>2. CallsInOrder'
    BY <1>2, <1>9 DEF CallsInOrder
  <2>3. CarriesTheLast'
    BY <1>2, <1>4, <1>9 DEF CarriesTheLast
  <2> QED
    BY <1>2, <2>1, <2>2, <2>3 DEF InOrder
<1>10. CASE calls' = Append(calls, c)
  <2>1. /\ Len(calls') = Len(calls) + 1 /\ calls'[Len(calls) + 1] = c
        /\ \A i \in 1..Len(calls) : calls'[i] = calls[i]
        /\ \A i \in 1..Len(calls') : i = Len(calls) + 1 \/ i \in 1..Len(calls)
    BY <1>1, <1>10
  <2>2. \A i \in 1..Len(calls') : Between(outbox', calls'[i].value, wanted)
    BY <1>6, <1>8, <2>1
  <2>3. BoxInOrder'
    BY <1>5, <1>8, <2>2 DEF BoxInOrder
  <2>4. ASSUME NEW i \in 1..Len(calls'), NEW j \in 1..Len(calls'), i <= j PROVE calls'[i].value <= calls'[j].value
    <3>1. CASE j \in 1..Len(calls)
      <4>1. i \in 1..Len(calls)
        BY <1>1, <2>1, <2>4, <3>1
      <4> QED
        BY <1>2, <2>1, <2>4, <3>1, <4>1 DEF CallsInOrder, Rising
    <3>2. CASE j = Len(calls) + 1
      <4>1. calls'[j] = c
        BY <2>1, <3>2
      <4>2. calls'[i].value <= c.value
        <5>1. CASE i \in 1..Len(calls)
          BY <1>7, <2>1, <5>1
        <5>2. CASE i = Len(calls) + 1
          <6>1. calls'[i] = c
            BY <2>1, <5>2
          <6> QED
            BY <1>1, <6>1
        <5> QED
          BY <2>1, <5>1, <5>2
      <4> QED
        BY <4>1, <4>2
    <3> QED
      BY <2>1, <3>1, <3>2
  <2>5. ASSUME NEW i \in 1..Len(calls')
        PROVE  calls'[i].value <= wanted /\ (calls'[i].value < server => ~http /\ calls'[i].applied)
    <3>1. CASE i \in 1..Len(calls)
      BY <1>2, <2>1, <3>1 DEF CallsInOrder
    <3>2. CASE i = Len(calls) + 1
      <4>1. calls'[i] = c
        BY <2>1, <3>2
      <4> QED
        BY <1>1, <1>7, <4>1
    <3> QED
      BY <2>1, <3>1, <3>2
  <2>6. CallsInOrder'
    BY <2>4, <2>5 DEF CallsInOrder, Rising
  <2>7. CarriesTheLast'
    <3> SUFFICES ASSUME kind = "bandwidth", phase = "CREATING"
                 PROVE  server <= carried /\ Between(outbox', carried, carried) /\ Between(calls', carried, carried)
      BY DEF CarriesTheLast
    <3>1. server <= carried /\ Between(outbox, carried, carried) /\ Between(calls, carried, carried)
      BY <1>2 DEF CarriesTheLast
    <3>2. carried <= c.value /\ c.value <= carried
      BY <1>3, <3>1 DEF Between
    <3> QED
      BY <1>4, <2>1, <3>1, <3>2 DEF Between
  <2> QED
    BY <1>2, <2>3, <2>6, <2>7 DEF InOrder
<1> QED
  BY <1>9, <1>10

(* What is watched has a number and a stream connection. *)
LEMMA WatchingIs ==
  ASSUME ChangeTypeOK, NEW r, r.id \in Ids, r.stream \in 1..MaxStreams
  PROVE  Watching(r) \subseteq [id : Ids, stream : 1..MaxStreams]
<1>1. timers \subseteq [id : Ids, stream : 1..MaxStreams]
  BY DEF ChangeTypeOK
<1> QED
  BY <1>1 DEF Watching

(* The managers send. *)
LEMMA SendHttpStep ==
  ASSUME ChangeIInv, SendHttp
  PROVE  ChangeIInv'
<1>1. ChangeTypeOK /\ lastId + due = wanted /\ carried <= wanted
  BY DEF ChangeIInv
<1>2. /\ http /\ outbox # << >> /\ calls = << >> /\ outbox' = Tail(outbox)
      /\ UNCHANGED <<kind, wanted, due, lastId, known, monitor, unmanaged, phase, carried, stream, http, dead, timers, lost, server, faults>>
  BY DEF SendHttp, connection
<1>3. outbox \in Seq(Reconfigurations) /\ Head(outbox) \in Reconfigurations /\ Head(outbox) = outbox[1] /\ Tail(outbox) \in Seq(Reconfigurations)
  BY <1>1, <1>2, ValuesAre
<1> DEFINE c == Sending(Head(outbox))
<1>4. c \in ChangeCalls /\ c.value = outbox[1].value
  <2>1. http \in BOOLEAN
    BY <1>1, TypesInParts, FlagsAre
  <2> QED
    BY <1>3, <2>1, SendingIs
<1> HIDE DEF c
<1>5. calls' = <<c>> \/ calls' = << >>
  BY <1>2 DEF SendHttp, c
<1>6. pendingChange' \in Ids
  <2>1. pendingChange \in Ids /\ 0 \in Ids
    BY <1>1, ChangeAssumption DEF ChangeTypeOK, Ids
  <2>2. pendingChange' \in {pendingChange, 0}
    BY DEF SendHttp, AfterAbort
  <2> QED
    BY <2>1, <2>2
<1>7. ChangeFlags'
  BY <1>1, <1>2, TypesInParts DEF ChangeFlags
<1>8. ChangeAmounts'
  BY <1>1, <1>2, TypesInParts DEF ChangeAmounts
<1>9. ChangeAnswers' /\ ChangeWaiting'
  BY <1>1, <1>2, <1>3, <1>6, TypesInParts DEF ChangeAnswers, ChangeWaiting
<1>10. ChangeSent' /\ Len(calls') <= 1
  <2>1. calls' \in Seq(ChangeCalls) /\ Len(calls') <= 1
    <3>1. <<c>> \in Seq(ChangeCalls) /\ Len(<<c>>) = 1
      BY <1>4
    <3>2. << >> \in Seq(ChangeCalls) /\ Len(<< >>) = 0
      OBVIOUS
    <3>3. CASE calls' = <<c>>
      BY <3>1, <3>3
    <3>4. CASE calls' = << >>
      BY <3>2, <3>4
    <3> QED
      BY <1>5, <3>3, <3>4
  <2> QED
    BY <1>1, <1>2, <2>1, TypesInParts DEF ChangeSent
<1>11. ChangeTypeOK'
  BY <1>7, <1>8, <1>9, <1>10, TypesInPartsNext
<1>12. calls' \in {calls, Append(calls, c)}
  <2>1. Append(<< >>, c) = <<c>>
    OBVIOUS
  <2> QED
    BY <1>2, <1>5, <2>1
<1>13. ASSUME "handed over" \notin lost' PROVE InOrder'
  <2>1. InOrder
    BY <1>2, <1>13 DEF ChangeIInv
  <2> QED
    BY <1>1, <1>2, <1>4, <1>12, <2>1, SendOrder
<1> QED
  BY <1>1, <1>2, <1>10, <1>11, <1>13 DEF ChangeIInv

(* Over a WebSocket. *)
LEMMA SendWsStep ==
  ASSUME ChangeIInv, SendWs
  PROVE  ChangeIInv'
<1>1. ChangeTypeOK /\ lastId + due = wanted /\ carried <= wanted
  BY DEF ChangeIInv
<1>2. /\ ~http /\ outbox # << >> /\ outbox' = Tail(outbox)
      /\ UNCHANGED <<kind, wanted, due, lastId, pendingChange, known, monitor, unmanaged, phase, carried, stream, http, dead, lost, server, faults>>
  BY DEF SendWs, connection, tables
<1>3. outbox \in Seq(Reconfigurations) /\ Head(outbox) \in Reconfigurations /\ Head(outbox) = outbox[1] /\ Tail(outbox) \in Seq(Reconfigurations)
  BY <1>1, <1>2, ValuesAre
<1> DEFINE c == Sending(Head(outbox))
<1>4. c \in ChangeCalls /\ c.value = outbox[1].value
  <2>1. http \in BOOLEAN
    BY <1>1, TypesInParts, FlagsAre
  <2> QED
    BY <1>3, <2>1, SendingIs
<1> HIDE DEF c
<1>5. calls' = Append(calls, c)
  BY DEF SendWs, c
<1>6. timers' \subseteq [id : Ids, stream : 1..MaxStreams]
  <2>1. timers' = Watching(Head(outbox))
    BY DEF SendWs
  <2>2. Head(outbox).id \in Ids /\ Head(outbox).stream \in 1..MaxStreams
    BY <1>3, ReconfigurationIs
  <2> QED
    BY <1>1, <2>1, <2>2, WatchingIs
<1>7. ChangeFlags'
  BY <1>1, <1>2, TypesInParts DEF ChangeFlags
<1>8. ChangeAmounts'
  BY <1>1, <1>2, TypesInParts DEF ChangeAmounts
<1>9. ChangeAnswers' /\ ChangeWaiting'
  BY <1>1, <1>2, <1>3, TypesInParts DEF ChangeAnswers, ChangeWaiting
<1>10. ChangeSent'
  <2>1. calls' \in Seq(ChangeCalls)
    BY <1>1, <1>4, <1>5, ValuesAre
  <2> QED
    BY <1>6, <2>1 DEF ChangeSent
<1>11. ChangeTypeOK'
  BY <1>7, <1>8, <1>9, <1>10, TypesInPartsNext
<1>12. calls' \in {calls, Append(calls, c)}
  BY <1>5
<1>13. ASSUME "handed over" \notin lost' PROVE InOrder'
  <2>1. InOrder
    BY <1>2, <1>13 DEF ChangeIInv
  <2> QED
    BY <1>1, <1>2, <1>4, <1>12, <2>1, SendOrder
<1>14. ~http'
  BY <1>2
<1> QED
  BY <1>1, <1>2, <1>11, <1>13, <1>14 DEF ChangeIInv

(* A call opens: it is the same otherwise. *)
LEMMA CallOpensStep ==
  ASSUME ChangeIInv, CallOpens
  PROVE  ChangeIInv'
<1>1. ChangeTypeOK /\ lastId + due = wanted /\ carried <= wanted /\ (http => Len(calls) <= 1)
  BY DEF ChangeIInv
<1>2. /\ http /\ calls # << >> /\ calls' = [calls EXCEPT ![1].opened = TRUE] /\ timers' = Watching(calls[1])
      /\ UNCHANGED <<kind, wanted, due, lastId, pendingChange, known, monitor, unmanaged, phase, carried, stream, http, dead, outbox, lost, server, faults>>
  BY DEF CallOpens, connection, tables
<1>3. calls \in Seq(ChangeCalls) /\ calls[1] \in ChangeCalls /\ 1 \in 1..Len(calls)
  BY <1>1, <1>2, ValuesAre
<1> DEFINE c == [calls[1] EXCEPT !.opened = TRUE]
<1>4. c \in ChangeCalls /\ c.value = calls[1].value /\ c.applied = calls[1].applied
  BY <1>3 DEF ChangeCalls
<1>5. calls' = [calls EXCEPT ![1] = c]
  BY <1>2, <1>3
<1> HIDE DEF c
<1>6. calls' \in Seq(ChangeCalls) /\ Len(calls') = Len(calls) /\ \A i \in 1..Len(calls) : calls'[i] = IF i = 1 THEN c ELSE calls[i]
  BY <1>3, <1>4, <1>5
<1>7. \A i \in 1..Len(calls) : calls'[i].value = calls[i].value /\ calls'[i].applied = calls[i].applied
  BY <1>4, <1>6
<1>8. ChangeFlags' /\ ChangeAmounts'
  BY <1>1, <1>2, TypesInParts DEF ChangeFlags, ChangeAmounts
<1>9. ChangeAnswers' /\ ChangeWaiting'
  BY <1>1, <1>2, TypesInParts DEF ChangeAnswers, ChangeWaiting
<1>10. ChangeSent'
  <2>1. calls[1].id \in Ids /\ calls[1].stream \in 1..MaxStreams
    BY <1>3, CallIs
  <2>2. timers' \subseteq [id : Ids, stream : 1..MaxStreams]
    BY <1>1, <1>2, <2>1, WatchingIs
  <2> QED
    BY <1>6, <2>2 DEF ChangeSent
<1>11. ChangeTypeOK'
  BY <1>8, <1>9, <1>10, TypesInPartsNext
<1>12. ASSUME "handed over" \notin lost' PROVE InOrder'
  <2>1. server <= wanted /\ BoxInOrder /\ CallsInOrder /\ CarriesTheLast
    BY <1>2, <1>12 DEF ChangeIInv, InOrder
  <2>2. BoxInOrder'
    BY <1>2, <1>6, <1>7, <2>1 DEF BoxInOrder
  <2>3. CallsInOrder'
    BY <1>2, <1>6, <1>7, <2>1 DEF CallsInOrder, Rising
  <2>4. CarriesTheLast'
    BY <1>2, <1>6, <1>7, <2>1 DEF CarriesTheLast, Between
  <2> QED
    BY <1>2, <2>1, <2>2, <2>3, <2>4 DEF InOrder
<1> QED
  BY <1>1, <1>2, <1>6, <1>11, <1>12 DEF ChangeIInv

(* The server applies the next call: none that it has not applied is older.  *)
LEMMA ApplyStep ==
  ASSUME ChangeIInv, Apply
  PROVE  ChangeIInv' /\ (server' >= server \/ "handed over" \in lost)
<1>1. ChangeTypeOK /\ lastId + due = wanted /\ carried <= wanted /\ (http => Len(calls) <= 1)
  BY DEF ChangeIInv
<1>2. UNCHANGED <<kind, wanted, due, lastId, pendingChange, known, monitor, unmanaged, phase, carried, stream, http, dead, outbox, timers, lost, faults>>
  BY DEF Apply, connection, tables
<1>3. PICK n \in DOMAIN calls : /\ ~calls[n].applied /\ (\A j \in 1..(n - 1) : calls[j].applied)
                               /\ calls' = [calls EXCEPT ![n].applied = TRUE] /\ server' = calls[n].value
  BY DEF Apply
<1>4. /\ calls \in Seq(ChangeCalls) /\ n \in 1..Len(calls) /\ calls[n] \in ChangeCalls /\ server \in Nat /\ Len(calls) \in Nat
      /\ wanted \in Nat /\ carried \in Nat
      /\ \A i \in 1..Len(calls) : calls[i].value \in Nat
      /\ \A i \in 1..Len(outbox) : outbox[i].value \in Nat
  BY <1>1, <1>3, ValuesAre
<1> DEFINE c == [calls[n] EXCEPT !.applied = TRUE]
<1>5. c \in ChangeCalls /\ c.value = calls[n].value /\ c.applied
  BY <1>4 DEF ChangeCalls
<1>6. calls' = [calls EXCEPT ![n] = c]
  BY <1>3, <1>4
<1> HIDE DEF c
<1>7. calls' \in Seq(ChangeCalls) /\ Len(calls') = Len(calls) /\ \A i \in 1..Len(calls) : calls'[i] = IF i = n THEN c ELSE calls[i]
  BY <1>4, <1>5, <1>6
<1>8. \A i \in 1..Len(calls) : calls'[i].value = calls[i].value
  BY <1>5, <1>7
<1>9. server' \in Ids /\ server' \in Nat
  BY <1>3, <1>4, CallIs DEF Ids
<1>10. ChangeFlags' /\ ChangeAmounts'
  BY <1>1, <1>2, <1>9, TypesInParts DEF ChangeFlags, ChangeAmounts
<1>11. ChangeAnswers' /\ ChangeWaiting'
  BY <1>1, <1>2, TypesInParts DEF ChangeAnswers, ChangeWaiting
<1>12. ChangeSent'
  BY <1>1, <1>2, <1>7, TypesInParts DEF ChangeSent
<1>13. ChangeTypeOK'
  BY <1>10, <1>11, <1>12, TypesInPartsNext
<1>15. ASSUME "handed over" \notin lost PROVE InOrder' /\ server' >= server
  <2>1. BoxInOrder /\ CallsInOrder /\ CarriesTheLast
    BY <1>15 DEF ChangeIInv, InOrder
  <2>2. server' >= server
    BY <1>3, <1>4, <2>1 DEF CallsInOrder
  <2>3. BoxInOrder'
    BY <1>2, <1>3, <1>4, <1>7, <1>8, <2>1 DEF BoxInOrder
  <2>4. ASSUME NEW i \in 1..Len(calls), calls[i].value < server' PROVE ~http /\ calls'[i].applied
    <3>1. i < n
      <4>1. CASE i > n
        BY <1>3, <1>4, <2>1, <2>4, <4>1 DEF CallsInOrder, Rising
      <4>2. CASE i = n
        BY <1>3, <1>4, <2>4, <4>2
      <4> QED
        BY <1>4, <4>1, <4>2
    <3>2. calls[i].applied /\ i # n
      BY <1>3, <1>4, <3>1
    <3>3. ~http
      BY <1>1, <1>4, <3>1
    <3> QED
      BY <1>7, <3>2, <3>3
  <2>5. CallsInOrder'
    BY <1>2, <1>7, <1>8, <2>1, <2>4 DEF CallsInOrder, Rising
  <2>7. server' <= wanted
    BY <1>3, <1>4, <2>1 DEF CallsInOrder
  <2>6. CarriesTheLast'
    BY <1>2, <1>3, <1>4, <1>7, <1>8, <2>1 DEF CarriesTheLast, Between
  <2> QED
    BY <1>2, <2>2, <2>3, <2>5, <2>6, <2>7 DEF InOrder
<1> QED
  BY <1>1, <1>2, <1>7, <1>13, <1>15 DEF ChangeIInv

(* ChangeCalls that are answered, or forgotten. *)
LEMMA FewerCalls ==
  ASSUME ChangeTypeOK, InOrder, calls # << >>, calls' \in {Tail(calls), << >>},
         UNCHANGED <<kind, wanted, server, carried, http, phase, outbox>>
  PROVE  InOrder'
<1>1. calls \in Seq(ChangeCalls) /\ Len(calls) \in Nat
  BY ValuesAre
<1>2. server <= wanted /\ BoxInOrder /\ CallsInOrder /\ CarriesTheLast
  BY DEF InOrder
<1> DEFINE k == Len(calls) - Len(calls')
<1>3. k \in Nat /\ Len(calls') \in Nat /\ \A i \in 1..Len(calls') : i + k \in 1..Len(calls) /\ calls'[i] = calls[i + k]
  <2>1. CASE calls' = Tail(calls)
    <3>1. Len(calls') = Len(calls) - 1 /\ \A i \in 1..Len(calls') : calls'[i] = calls[i + 1]
      BY <1>1, <2>1
    <3>2. k = 1
      BY <1>1, <3>1
    <3> QED
      BY <1>1, <3>1, <3>2
  <2>2. CASE calls' = << >>
    BY <1>1, <2>2
  <2> QED
    BY <2>1, <2>2
<1> HIDE DEF k
<1>4. BoxInOrder'
  BY <1>2, <1>3 DEF BoxInOrder
<1>5. Rising(calls')
  <2>1. ASSUME NEW i \in 1..Len(calls'), NEW j \in 1..Len(calls'), i <= j PROVE calls'[i].value <= calls'[j].value
    <3>1. i + k <= j + k
      BY <1>3, <2>1
    <3> QED
      BY <1>2, <1>3, <3>1 DEF CallsInOrder, Rising
  <2> QED
    BY <2>1 DEF Rising
<1>6. CallsInOrder'
  BY <1>2, <1>3, <1>5 DEF CallsInOrder
<1>7. CarriesTheLast'
  BY <1>2, <1>3 DEF CarriesTheLast, Between
<1> QED
  BY <1>2, <1>4, <1>6, <1>7 DEF InOrder

(* The answer of the first call. *)
LEMMA AnswerArrivesStep ==
  ASSUME ChangeIInv, AnswerArrives
  PROVE  ChangeIInv'
<1>1. ChangeTypeOK /\ lastId + due = wanted /\ carried <= wanted /\ (http => Len(calls) <= 1)
  BY DEF ChangeIInv
<1>2. /\ calls # << >> /\ calls' = Tail(calls)
      /\ UNCHANGED <<kind, wanted, due, lastId, known, unmanaged, phase, carried, stream, http, dead, outbox, timers, lost, server, faults>>
  BY DEF AnswerArrives, connection
<1>3. calls \in Seq(ChangeCalls) /\ calls[1] \in ChangeCalls /\ Tail(calls) \in Seq(ChangeCalls) /\ Len(Tail(calls)) = Len(calls) - 1 /\ Len(calls) \in Nat
  BY <1>1, <1>2, ValuesAre
<1>4. calls[1].id \in Ids /\ 0 \in Ids
  BY <1>3, CallIs, ChangeAssumption DEF Ids
<1>5. ChangeAnswers'
  <2>1. ChangeAnswers
    BY <1>1, TypesInParts
  <2>2. CASE kind = "frequency"
    <3>1. pendingChange' \in {0, pendingChange} /\ monitor' = monitor
      BY <2>2 DEF AnswerArrives, OnConstrainResponse
    <3> QED
      BY <1>2, <1>4, <2>1, <3>1 DEF ChangeAnswers
  <2>3. CASE kind # "frequency"
    <3>1. pendingChange' = pendingChange /\ monitor' = [monitor EXCEPT !.received = IF calls[1].id > @ THEN calls[1].id ELSE @]
      BY <2>3 DEF AnswerArrives, OnConstrainResponse, ReceivedResponse
    <3>2. monitor' \in [received : Ids, pending : Ids]
      <4>1. (IF calls[1].id > monitor.received THEN calls[1].id ELSE monitor.received) \in Ids
        BY <1>4, <2>1 DEF ChangeAnswers
      <4> QED
        BY <2>1, <3>1, <4>1 DEF ChangeAnswers
    <3> QED
      BY <1>2, <2>1, <3>1, <3>2 DEF ChangeAnswers
  <2> QED
    BY <2>2, <2>3
<1>6. ChangeFlags' /\ ChangeAmounts'
  BY <1>1, <1>2, TypesInParts DEF ChangeFlags, ChangeAmounts
<1>7. ChangeWaiting' /\ ChangeSent'
  BY <1>1, <1>2, <1>3, TypesInParts DEF ChangeWaiting, ChangeSent
<1>8. ChangeTypeOK'
  BY <1>5, <1>6, <1>7, TypesInPartsNext
<1>9. ASSUME "handed over" \notin lost' PROVE InOrder'
  BY <1>1, <1>2, <1>9, FewerCalls DEF ChangeIInv
<1>10. http' => Len(calls') <= 1
  <2>1. Len(calls') = Len(calls) - 1
    BY <1>2, <1>3
  <2> QED
    BY <1>1, <1>2, <1>3, <2>1
<1> QED
  BY <1>1, <1>2, <1>8, <1>9, <1>10 DEF ChangeIInv

(* A socket dies, the session is created or closed. *)
LEMMA SocketDiesStep ==
  ASSUME ChangeIInv, SocketDies
  PROVE  ChangeIInv'
<1>1. ChangeTypeOK /\ lastId + due = wanted /\ carried <= wanted
  BY DEF ChangeIInv
<1>2. /\ calls' = << >> /\ dead' = TRUE
      /\ UNCHANGED <<kind, wanted, due, lastId, pendingChange, known, monitor, unmanaged, phase, carried, stream, http, outbox, timers, lost, server, faults>>
  BY DEF SocketDies, tables
<1>3. ChangeFlags'
  BY <1>1, <1>2, TypesInParts DEF ChangeFlags
<1>4. ChangeAmounts' /\ ChangeAnswers' /\ ChangeWaiting' /\ ChangeSent'
  BY <1>1, <1>2, TypesInParts DEF ChangeAmounts, ChangeAnswers, ChangeWaiting, ChangeSent
<1>5. ChangeTypeOK'
  BY <1>3, <1>4, TypesInPartsNext
<1>6. ASSUME "handed over" \notin lost' PROVE InOrder'
  <2>1. InOrder
    BY <1>2, <1>6 DEF ChangeIInv
  <2>2. CASE calls = << >>
    BY <1>2, <2>1, <2>2 DEF InOrder, BoxInOrder, CallsInOrder, CarriesTheLast
  <2>3. CASE calls # << >>
    BY <1>1, <1>2, <2>1, <2>3, FewerCalls
  <2> QED
    BY <2>2, <2>3
<1>7. Len(calls') <= 1
  BY <1>2
<1> QED
  BY <1>1, <1>2, <1>5, <1>6, <1>7 DEF ChangeIInv

(* The session that is created has the last value of those that were handed over. *)
LEMMA SessionCreatedStep ==
  ASSUME ChangeIInv, SessionCreated
  PROVE  ChangeIInv' /\ (server' >= server \/ "handed over" \in lost)
<1>1. ChangeTypeOK /\ lastId + due = wanted /\ carried <= wanted /\ (http => Len(calls) <= 1)
  BY DEF ChangeIInv
<1>2. /\ phase = "CREATING" /\ phase' = "OPEN" /\ server' = (IF kind = "bandwidth" THEN carried ELSE server)
      /\ UNCHANGED <<kind, wanted, due, lastId, pendingChange, known, monitor, unmanaged, carried, stream, http, dead, outbox, calls, timers, lost, faults>>
  BY DEF SessionCreated, tables, traffic
<1>3. ChangeFlags'
  BY <1>1, <1>2, TypesInParts DEF ChangeFlags
<1>4. ChangeAmounts' /\ ChangeAnswers' /\ ChangeWaiting' /\ ChangeSent'
  BY <1>1, <1>2, TypesInParts DEF ChangeAmounts, ChangeAnswers, ChangeWaiting, ChangeSent
<1>5. ChangeTypeOK'
  BY <1>3, <1>4, TypesInPartsNext
<1>6. /\ wanted \in Nat /\ server \in Nat /\ carried \in Nat
      /\ \A i \in 1..Len(calls) : calls[i].value \in Nat
      /\ \A i \in 1..Len(outbox) : outbox[i].value \in Nat
  BY <1>1, ValuesAre
<1>7. ASSUME "handed over" \notin lost PROVE InOrder' /\ server' >= server
  <2>1. server <= wanted /\ BoxInOrder /\ CallsInOrder /\ CarriesTheLast
    BY <1>7 DEF ChangeIInv, InOrder
  <2>2. CarriesTheLast'
    BY <1>2 DEF CarriesTheLast
  <2>3. CASE kind # "bandwidth"
    <3>1. server' = server
      BY <1>2, <2>3
    <3>2. BoxInOrder' /\ CallsInOrder'
      BY <1>2, <2>1, <3>1 DEF BoxInOrder, CallsInOrder
    <3> QED
      BY <1>2, <1>6, <2>1, <2>2, <3>1, <3>2 DEF InOrder
  <2>4. CASE kind = "bandwidth"
    <3>1. server' = carried /\ server <= carried /\ Between(outbox, carried, carried) /\ Between(calls, carried, carried)
      BY <1>2, <2>1, <2>4 DEF CarriesTheLast
    <3>2. Between(outbox, server', wanted)
      BY <2>1, <3>1 DEF BoxInOrder, Between
    <3>3. BoxInOrder'
      BY <1>2, <2>1, <3>2 DEF BoxInOrder
    <3>4. \A i \in 1..Len(calls) : ~(calls[i].value < server')
      BY <1>6, <3>1 DEF Between
    <3>5. CallsInOrder'
      BY <1>2, <2>1, <3>4 DEF CallsInOrder
    <3> QED
      BY <1>1, <1>2, <2>2, <3>1, <3>3, <3>5 DEF InOrder
  <2> QED
    BY <2>3, <2>4
<1> QED
  BY <1>1, <1>2, <1>5, <1>7 DEF ChangeIInv

(* A session that is closed has nothing that waits. *)
LEMMA CloseSessionStep ==
  ASSUME ChangeIInv, CloseSession
  PROVE  ChangeIInv'
<1>1. ChangeTypeOK /\ lastId + due = wanted /\ carried <= wanted
  BY DEF ChangeIInv
<1>2. /\ phase' = "OFF" /\ pendingChange' = 0 /\ outbox' = << >> /\ calls' = << >>
      /\ UNCHANGED <<kind, wanted, due, lastId, known, monitor, unmanaged, carried, stream, http, dead, timers, lost, server, faults>>
  BY DEF CloseSession
<1>3. 0 \in Ids
  BY ChangeAssumption DEF Ids
<1>4. ChangeFlags' /\ ChangeAmounts'
  BY <1>1, <1>2, TypesInParts DEF ChangeFlags, ChangeAmounts
<1>5. ChangeAnswers' /\ ChangeWaiting' /\ ChangeSent'
  BY <1>1, <1>2, <1>3, TypesInParts DEF ChangeAnswers, ChangeWaiting, ChangeSent
<1>6. ChangeTypeOK'
  BY <1>4, <1>5, TypesInPartsNext
<1>7. ASSUME "handed over" \notin lost' PROVE InOrder'
  <2>1. server <= wanted
    BY <1>2, <1>7 DEF ChangeIInv, InOrder
  <2>2. Len(outbox') = 0 /\ Len(calls') = 0
    BY <1>2
  <2>3. BoxInOrder' /\ CallsInOrder'
    BY <2>2 DEF BoxInOrder, CallsInOrder, Rising, Between
  <2>4. CarriesTheLast'
    BY <1>2 DEF CarriesTheLast
  <2> QED
    BY <1>2, <2>1, <2>3, <2>4 DEF InOrder
<1>8. Len(calls') <= 1
  BY <1>2
<1> QED
  BY <1>1, <1>2, <1>6, <1>7, <1>8 DEF ChangeIInv

(* What is handed over, backwards or not, is one queue in the order in which    *)
(* it was asked for, and the new queue is all of it or its last. *)
Left == BeingSent \o outbox
(* It is what is being sent and then what waits. *)
LEMMA LeftIs ==
  ASSUME ChangeTypeOK
  PROVE  /\ Left \in Seq(Reconfigurations) /\ BeingSent \in Seq(Reconfigurations) /\ outbox \in Seq(Reconfigurations)
         /\ Len(Left) = Len(BeingSent) + Len(outbox) /\ Len(Left) \in Nat /\ Len(BeingSent) \in Nat
         /\ \A i \in 1..Len(Left) :
              /\ i \in 1..Len(BeingSent) \/ i - Len(BeingSent) \in 1..Len(outbox)
              /\ Left[i] = IF i \in 1..Len(BeingSent) THEN BeingSent[i] ELSE outbox[i - Len(BeingSent)]
<1>1. BeingSent \in Seq(Reconfigurations) /\ outbox \in Seq(Reconfigurations)
  BY BeingSentIs, ValuesAre
<1> DEFINE q == BeingSent
<1> HIDE DEF q
<1>2. ASSUME NEW s \in Seq(Reconfigurations), NEW o \in Seq(Reconfigurations)
      PROVE  /\ s \o o \in Seq(Reconfigurations) /\ Len(s \o o) = Len(s) + Len(o) /\ Len(s) \in Nat /\ Len(o) \in Nat
             /\ \A i \in 1..Len(s \o o) :
                  /\ i \in 1..Len(s) \/ i - Len(s) \in 1..Len(o)
                  /\ (s \o o)[i] = IF i \in 1..Len(s) THEN s[i] ELSE o[i - Len(s)]
  <2>1. s \o o \in Seq(Reconfigurations) /\ Len(s \o o) = Len(s) + Len(o) /\ Len(s) \in Nat /\ Len(o) \in Nat
    OBVIOUS
  <2>2. ASSUME NEW i \in 1..Len(s \o o)
        PROVE  /\ i \in 1..Len(s) \/ i - Len(s) \in 1..Len(o)
               /\ (s \o o)[i] = IF i \in 1..Len(s) THEN s[i] ELSE o[i - Len(s)]
    <3>1. CASE i \in 1..Len(s)
      <4>1. (s \o o)[i] = s[i]
        BY <2>1, <3>1
      <4> QED
        BY <3>1, <4>1
    <3>2. CASE ~(i \in 1..Len(s))
      <4>1. i - Len(s) \in 1..Len(o) /\ i > Len(s)
        BY <2>1, <3>2
      <4>2. (s \o o)[i] = o[i - Len(s)]
        BY <2>1, <4>1
      <4> QED
        BY <3>2, <4>1, <4>2
    <3> QED
      BY <3>1, <3>2
  <2> QED
    BY <2>1, <2>2
<1> QED
  BY <1>1, <1>2 DEF Left

(* The order of what is left. *)
LEMMA LeftInOrder ==
  ASSUME ChangeTypeOK, http => Len(calls) <= 1, InOrder
  PROVE  Rising(Left) /\ Between(Left, server, wanted)
<1>1. /\ server <= wanted /\ Rising(outbox) /\ Between(outbox, server, wanted)
      /\ \A i \in 1..Len(calls) : Between(outbox, calls[i].value, wanted)
      /\ \A i \in 1..Len(calls) : calls[i].value <= wanted /\ (calls[i].value < server => ~http)
  BY DEF InOrder, BoxInOrder, CallsInOrder
<1> DEFINE s == BeingSent
<1>2. /\ s \in Seq(Reconfigurations) /\ http \in BOOLEAN
      /\ ~http => s = << >>
      /\ http => Len(s) = Len(calls) /\ \A i \in 1..Len(calls) : s[i].value = calls[i].value
  BY BeingSentIs, TypesInParts, FlagsAre
<1>3. /\ wanted \in Nat /\ server \in Nat
      /\ \A i \in 1..Len(calls) : calls[i].value \in Nat
      /\ \A i \in 1..Len(outbox) : outbox[i].value \in Nat
      /\ Len(outbox) \in Nat /\ Len(calls) \in Nat
  BY ValuesAre
<1> HIDE DEF s
<1>4. Len(s) \in Nat /\ Len(s) <= 1 /\ \A i \in 1..Len(s) : i = 1
  <2>1. Len(s) \in Nat /\ Len(s) <= 1
    BY <1>2, <1>3
  <2> QED
    BY <2>1
<1>5. ASSUME NEW i \in 1..Len(s)
      PROVE  server <= s[i].value /\ s[i].value <= wanted /\ s[i].value \in Nat /\ Between(outbox, s[i].value, wanted)
  <2>1. i \in 1..Len(calls) /\ s[i].value = calls[i].value /\ http
    BY <1>2
  <2> QED
    BY <1>1, <1>3, <2>1
<1>6. /\ Len(Left) \in Nat
      /\ \A i \in 1..Len(Left) :
           /\ i \in 1..Len(s) \/ i - Len(s) \in 1..Len(outbox)
           /\ Left[i] = IF i \in 1..Len(s) THEN s[i] ELSE outbox[i - Len(s)]
  BY LeftIs DEF s
<1>7. Between(Left, server, wanted)
  BY <1>1, <1>5, <1>6 DEF Between
<1>8. ASSUME NEW i \in 1..Len(Left), NEW j \in 1..Len(Left), i <= j PROVE Left[i].value <= Left[j].value
  <2>1. CASE i \in 1..Len(s) /\ j \in 1..Len(s)
    BY <1>4, <1>5, <1>6, <2>1
  <2>2. CASE i \in 1..Len(s) /\ ~(j \in 1..Len(s))
    BY <1>5, <1>6, <2>2 DEF Between
  <2>3. CASE ~(i \in 1..Len(s)) /\ ~(j \in 1..Len(s))
    <3>1. i - Len(s) \in 1..Len(outbox) /\ j - Len(s) \in 1..Len(outbox) /\ i - Len(s) <= j - Len(s)
      BY <1>4, <1>6, <1>8, <2>3
    <3> QED
      BY <1>1, <1>6, <2>3, <3>1 DEF Rising
  <2>4. CASE ~(i \in 1..Len(s)) /\ j \in 1..Len(s)
    BY <1>4, <1>6, <1>8, <2>4
  <2> QED
    BY <2>1, <2>2, <2>3, <2>4
<1> QED
  BY <1>7, <1>8 DEF Rising

(* The new queue. *)
LEMMA HandedIs ==
  ASSUME ChangeTypeOK, NEW overHttp \in BOOLEAN
  PROVE  /\ Handed(overHttp) \in Boxes
         /\ Handed(overHttp).queue = Left \/ (Len(Left) # 0 /\ Handed(overHttp).queue = <<Left[Len(Left)]>>)
         /\ "handed over" \in Handed(overHttp).lost <=> "handed over" \in lost
<1>1. Left \in Seq(Reconfigurations) /\ SubSeq(Left, 1, Len(Left)) = Left
  <2>1. Left \in Seq(Reconfigurations)
    BY LeftIs
  <2> QED
    BY <2>1
<1>2. Handed(overHttp) = Added(Left, overHttp)
  BY DEF Handed, Left
<1>3. Added(Left, overHttp) \in Boxes /\ AsHanded(Added(Left, overHttp), Left, Len(Left), overHttp)
  BY <1>1, AddedIs
<1> QED
  BY <1>1, <1>2, <1>3 DEF AsHanded

(* It is in order too. *)
LEMMA HandedInOrder ==
  ASSUME NEW all \in Seq(Reconfigurations), Rising(all), NEW low, NEW high, Between(all, low, high),
         NEW q, q = all \/ (Len(all) # 0 /\ q = <<all[Len(all)]>>)
  PROVE  Rising(q) /\ Between(q, low, high)
<1>1. CASE q = all
  BY <1>1
<1>2. CASE Len(all) # 0 /\ q = <<all[Len(all)]>>
  <2>1. Len(all) \in 1..Len(all) /\ Len(q) = 1 /\ q[1] = all[Len(all)] /\ \A i \in 1..Len(q) : i = 1
    BY <1>2
  <2>2. all[Len(all)].value \in Nat
    BY <2>1, ReconfigurationIs DEF Ids
  <2>3. Between(q, low, high)
    BY <2>1 DEF Between
  <2>4. Rising(q)
    BY <2>1, <2>2 DEF Rising
  <2> QED
    BY <2>3, <2>4
<1> QED
  BY <1>1, <1>2

(* The next stream connection takes over. *)
LEMMA NextStreamStep ==
  ASSUME ChangeIInv, NextStream
  PROVE  ChangeIInv'
<1>1. ChangeTypeOK /\ lastId + due = wanted /\ carried <= wanted /\ (http => Len(calls) <= 1)
  BY DEF ChangeIInv
<1>2. /\ stream' = stream + 1 /\ stream < MaxStreams /\ http' \in BOOLEAN /\ dead' = FALSE /\ calls' = << >> /\ monitor' = FreshMonitor
      /\ UNCHANGED <<kind, wanted, due, lastId, known, unmanaged, timers, server, faults>>
  BY DEF NextStream
<1>3. /\ wanted \in Nat /\ server \in Nat /\ carried \in Nat /\ 0 \in Ids
  BY <1>1, ValuesAre, ChangeAssumption DEF Ids
<1> DEFINE Lost(over) == Handed(over).lost \cup IF Outrun(Handed(over).queue) THEN {"handed over"} ELSE {}
<1>4. PICK over \in BOOLEAN :
        /\ outbox' = Handed(over).queue /\ pendingChange' = Handed(over).pending
        /\ \/ phase = "OPEN" /\ phase' = "OPEN" /\ carried' = carried /\ lost' = Handed(over).lost
           \/ phase' = "CREATING" /\ carried' = wanted /\ lost' = Lost(over)
  <2>1. CASE phase = "OPEN" /\ UNCHANGED <<phase, carried>> /\ Becomes(Handed(http'))
    BY <1>2, <2>1 DEF Becomes
  <2>2. CASE /\ phase = "SLEEP" /\ http' /\ phase' = "CREATING" /\ carried' = wanted
             /\ Becomes([Handed(TRUE) EXCEPT !.lost = @ \cup IF Outrun(Handed(TRUE).queue) THEN {"handed over"} ELSE {}])
    <3>1. Handed(TRUE) \in Boxes
      <4>1. TRUE \in BOOLEAN
        OBVIOUS
      <4> QED
        BY <1>1, <4>1, HandedIs
    <3> DEFINE box == Handed(TRUE)
    <3>2. Becomes([box EXCEPT !.lost = @ \cup IF Outrun(box.queue) THEN {"handed over"} ELSE {}])
      BY <2>2
    <3> HIDE DEF box
    <3>3. outbox' = box.queue /\ pendingChange' = box.pending /\ lost' = box.lost \cup IF Outrun(box.queue) THEN {"handed over"} ELSE {}
      BY <3>1, <3>2 DEF Becomes, Boxes, box
    <3>4. TRUE \in BOOLEAN /\ outbox' = Handed(TRUE).queue /\ pendingChange' = Handed(TRUE).pending /\ lost' = Lost(TRUE)
      BY <3>3 DEF box
    <3> QED
      BY <2>2, <3>4, Zenon
  <2> QED
    BY <2>1, <2>2, Zenon DEF NextStream
<1>5. /\ Handed(over) \in Boxes
      /\ outbox' = Left \/ (Len(Left) # 0 /\ outbox' = <<Left[Len(Left)]>>)
      /\ "handed over" \in Handed(over).lost <=> "handed over" \in lost
  BY <1>1, <1>4, HandedIs
<1>6. outbox' \in Seq(Reconfigurations) /\ pendingChange' \in Ids /\ Handed(over).lost \subseteq WaysToLose
  BY <1>4, <1>5 DEF Boxes
<1>7. ChangeFlags'
  BY <1>1, <1>2, TypesInParts DEF ChangeFlags
<1>8. ChangeAmounts'
  <2>1. stream' \in 1..MaxStreams
    BY <1>1, <1>2, ChangeAssumption DEF ChangeTypeOK
  <2>2. carried' \in Ids /\ phase' \in {"OPEN", "SLEEP", "CREATING", "OFF"}
    BY <1>1, <1>4 DEF ChangeTypeOK
  <2> QED
    BY <1>1, <1>2, <2>1, <2>2, TypesInParts DEF ChangeAmounts
<1>9. ChangeAnswers' /\ ChangeWaiting' /\ ChangeSent'
  <2>1. lost' \subseteq WaysToLose
    BY <1>4, <1>6 DEF WaysToLose
  <2>2. monitor' \in [received : Ids, pending : Ids]
    BY <1>2, <1>3 DEF FreshMonitor
  <2>3. ChangeAnswers' /\ ChangeWaiting'
    BY <1>6, <2>1, <2>2 DEF ChangeAnswers, ChangeWaiting
  <2>4. ChangeSent'
    BY <1>1, <1>2, TypesInParts DEF ChangeSent
  <2> QED
    BY <2>3, <2>4
<1>10. ChangeTypeOK'
  BY <1>7, <1>8, <1>9, TypesInPartsNext
<1>11. ASSUME "handed over" \notin lost' PROVE InOrder'
  <2>1. "handed over" \notin Handed(over).lost
    BY <1>4, <1>11
  <2>2. InOrder /\ Left \in Seq(Reconfigurations)
    BY <1>1, <1>5, <2>1, LeftIs DEF ChangeIInv
  <2>3. Rising(outbox') /\ Between(outbox', server, wanted)
    <3>1. Rising(Left) /\ Between(Left, server, wanted)
      BY <1>1, <2>2, LeftInOrder
    <3> QED
      BY <1>5, <2>2, <3>1, HandedInOrder
  <2>4. Len(calls') = 0
    BY <1>2
  <2>5. BoxInOrder' /\ CallsInOrder'
    BY <1>2, <2>3, <2>4 DEF BoxInOrder, CallsInOrder, Rising, Between
  <2>6. server <= wanted
    BY <2>2 DEF InOrder
  <2>7. ASSUME kind = "bandwidth", phase' = "CREATING" PROVE server <= carried' /\ Between(outbox', carried', carried')
    <3>1. carried' = wanted /\ lost' = Lost(over)
      BY <1>4, <2>7
    <3>2. ~Outrun(outbox')
      BY <1>4, <1>11, <3>1
    <3>3. outbox' \in Seq(Reconfigurations) /\ \A i \in 1..Len(outbox') : outbox'[i].value \in Nat
      BY <1>6, ReconfigurationIs DEF Ids
    <3>4. ASSUME NEW i \in 1..Len(outbox') PROVE outbox'[i].value = wanted
      <4>1. ~(outbox'[i].value < wanted)
        BY <2>7, <3>2, <3>3 DEF Outrun
      <4>2. outbox'[i].value <= wanted
        BY <2>3 DEF Between
      <4> QED
        BY <1>3, <3>3, <4>1, <4>2
    <3>5. Between(outbox', wanted, wanted)
      BY <1>3, <3>4 DEF Between
    <3> QED
      BY <2>6, <3>1, <3>5
  <2>8. CarriesTheLast'
    BY <1>2, <2>4, <2>7 DEF CarriesTheLast, Between
  <2> QED
    BY <1>2, <2>5, <2>6, <2>8 DEF InOrder
<1>12. carried' <= wanted' /\ Len(calls') <= 1
  <2>1. carried' \in {carried, wanted} /\ wanted' = wanted /\ Len(calls') = 0
    BY <1>2, <1>4
  <2> QED
    BY <1>1, <1>3, <2>1
<1> QED
  BY <1>1, <1>2, <1>10, <1>11, <1>12 DEF ChangeIInv

(* The invariant holds at first. *)
LEMMA ChangeInitIIs ==
  ASSUME ChangeInit
  PROVE  ChangeIInv
<1>1. 0 \in Ids /\ 1 \in 1..MaxStreams /\ 0 \in 0..MaxFaults
  BY ChangeAssumption DEF Ids
<1>2. /\ kind \in {"frequency", "bandwidth"} /\ http \in BOOLEAN
      /\ phase \in {"OPEN", "CREATING"} /\ wanted = 0 /\ due = 0 /\ lastId = 0 /\ server = 0 /\ carried = 0 /\ pendingChange = 0
      /\ known = TRUE /\ monitor = FreshMonitor /\ unmanaged = FALSE /\ stream = 1 /\ dead = FALSE /\ outbox = << >> /\ calls = << >>
      /\ timers = {} /\ faults = 0 /\ lost = {}
  BY DEF ChangeInit
<1>3. ChangeFlags
  BY <1>2 DEF ChangeFlags
<1>4. ChangeAmounts
  BY <1>1, <1>2 DEF ChangeAmounts
<1>5. ChangeAnswers /\ ChangeWaiting /\ ChangeSent
  BY <1>1, <1>2 DEF ChangeAnswers, ChangeWaiting, ChangeSent, FreshMonitor
<1>6. ChangeTypeOK
  BY <1>3, <1>4, <1>5, TypesInParts
<1>7. InOrder
  BY <1>2 DEF InOrder, BoxInOrder, CallsInOrder, CarriesTheLast, Rising, Between
<1> QED
  BY <1>2, <1>6, <1>7 DEF ChangeIInv

(* Every step keeps it, and no step but those of the known way has the server  *)
(* go back. *)
LEMMA ChangeStep ==
  ASSUME ChangeIInv, [ChangeNext]_changeVars
  PROVE  ChangeIInv' /\ (server' >= server \/ "handed over" \in lost)
<1>1. server \in Nat
  BY ValuesAre DEF ChangeIInv
<1>2. CASE SetValue \/ Forget \/ ServerSentBandwidth \/ FallAsleep \/ UNCHANGED changeVars
  <2>1. server' = server
    BY <1>2 DEF SetValue, Forget, ServerSentBandwidth, FallAsleep, changeVars
  <2> QED
    BY <1>1, <1>2, <2>1, LooseStep
<1>3. CASE HandleChange
  <2>1. server' = server
    BY <1>3 DEF HandleChange
  <2> QED
    BY <1>1, <1>3, <2>1, HandleChangeStep
<1>4. CASE SendHttp
  <2>1. server' = server
    BY <1>4 DEF SendHttp
  <2> QED
    BY <1>1, <1>4, <2>1, SendHttpStep
<1>5. CASE SendWs
  <2>1. server' = server
    BY <1>5 DEF SendWs
  <2> QED
    BY <1>1, <1>5, <2>1, SendWsStep
<1>6. CASE CallOpens
  <2>1. server' = server
    BY <1>6 DEF CallOpens
  <2> QED
    BY <1>1, <1>6, <2>1, CallOpensStep
<1>7. CASE Apply
  BY <1>7, ApplyStep
<1>8. CASE AnswerArrives
  <2>1. server' = server
    BY <1>8 DEF AnswerArrives
  <2> QED
    BY <1>1, <1>8, <2>1, AnswerArrivesStep
<1>9. CASE CallBreaks
  <2>1. server' = server
    BY <1>9 DEF CallBreaks
  <2> QED
    BY <1>1, <1>9, <2>1, CallBreaksStep
<1>10. CASE Timeouts
  <2>1. PICK t \in timers : TutorTimeout(t)
    BY <1>10 DEF Timeouts
  <2>2. server' = server
    BY <2>1 DEF TutorTimeout
  <2> QED
    BY <1>1, <2>1, <2>2, TutorTimeoutStep
<1>11. CASE NextStream
  <2>1. server' = server
    BY <1>11 DEF NextStream
  <2> QED
    BY <1>1, <1>11, <2>1, NextStreamStep
<1>12. CASE SocketDies
  <2>1. server' = server
    BY <1>12 DEF SocketDies
  <2> QED
    BY <1>1, <1>12, <2>1, SocketDiesStep
<1>13. CASE SessionCreated
  BY <1>13, SessionCreatedStep
<1>14. CASE CloseSession
  <2>1. server' = server
    BY <1>14 DEF CloseSession
  <2> QED
    BY <1>1, <1>14, <2>1, CloseSessionStep
<1> QED
  BY <1>2, <1>3, <1>4, <1>5, <1>6, <1>7, <1>8, <1>9, <1>10, <1>11, <1>12, <1>13, <1>14, Zenon DEF ChangeNext

(* The requests that wait, the calls and the value of the server are in the    *)
(* order in which the values were asked for, through every repetition and every *)
(* change of the stream connection (changeFrequency, sendConstrain,            *)
(* copyPendingRequests). *)
THEOREM ChangeInductive == ChangeInit /\ [][ChangeNext]_changeVars => []ChangeIInv
<1>1. ChangeInit => ChangeIInv
  BY ChangeInitIIs
<1>2. ChangeIInv /\ [ChangeNext]_changeVars => ChangeIInv'
  BY ChangeStep
<1> QED
  BY <1>1, <1>2, PTL

(* The server never goes back to an older value, but for a bandwidth that was   *)
(* handed over to a session that recovers with a newer one. *)
THEOREM NeverAnOldValue == ChangeInit /\ [][ChangeNext]_changeVars => NoOldValue
<1>1. ChangeIInv /\ [ChangeNext]_changeVars => [server' >= server \/ "handed over" \in lost]_changeVars
  BY ChangeStep
<1> QED
  BY <1>1, ChangeInductive, PTL DEF NoOldValue

(* The types of the requests that change something. *)
LEMMA ChangeTyped == ChangeInit /\ [][ChangeNext]_changeVars => []ChangeTypeOK
<1>1. ChangeIInv => ChangeTypeOK
  BY DEF ChangeIInv
<1> QED
  BY <1>1, ChangeInductive, PTL
==============================================================================
