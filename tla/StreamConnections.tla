--------------------------- MODULE StreamConnections ---------------------------
(***************************************************************************)
(* The stream connections of one TextProtocol: the session sends a request  *)
(* to create, recover or bind, closes itself, and may do both over while     *)
(* the protocol is telling it of an error; each connection has a listener    *)
(* of its own, whose events may come when it is not minded any more.         *)
(*                                                                          *)
(* A protocol serves its session object through all its retries.  The        *)
(* answers of control requests, which may close the session too, come at     *)
(* any time.  onProtocolMessage leaves most messages to be completed; each   *)
(* is taken to its handler in both states of an open stream.  Nothing sets   *)
(* READING_STREAM, and interruptSession tells the session nothing.           *)
(***************************************************************************)
EXTENDS Naturals, Sequences

CONSTANT MaxConnections   (* bound: stream connections *)

ASSUME ConnectionsAssumption == MaxConnections \in Nat

VARIABLE protocol   (* the protocol, its connections and, for the properties, *)
                    (* whether a stale one was minded or the newest is not    *)
connectionsVars == <<protocol>>

Streams == [request : {"open", "bind"},                          (* its listener's class             *)
            wire    : {"connecting", "open", "looped", "ended"}, (* looped: it sent its last message *)
            over    : BOOLEAN,                                   (* the session closed it            *)
            disabled      : BOOLEAN,                             (* of its listener, as the others   *)
            isOpen        : BOOLEAN,
            isInterrupted : BOOLEAN]

(* READING_STREAM is a status no protocol comes to. *)
StreamStatuses == {"NO_STREAM", "OPENING_STREAM", "STREAM_CLOSED"}
ConnectionsTypeOK ==
  /\ Len(protocol.streams) <= MaxConnections
  /\ protocol \in [status  : StreamStatuses,
                   streams : Seq(Streams),
                   stray   : BOOLEAN,   (* an event of a stale connection took effect           *)
                   cut     : BOOLEAN]   (* the newest was sent, or kept, while an error was told *)
-----------------------------------------------------------------------------
(* activeListener and activeConnection. *)
Newest == Len(protocol.streams)
NewStream(request) ==
  [request |-> request, wire |-> "connecting", over |-> FALSE, disabled |-> FALSE, isOpen |-> FALSE, isInterrupted |-> FALSE]

(* Mutant: the listener of the closed connection is not disabled. *)
StopActiveEnabled(p) ==
  [p EXCEPT !.streams = [i \in DOMAIN @ |-> [@[i] EXCEPT !.over = TRUE]]]
(* stopActive: of the listeners only the newest is disabled. *)
StoppedStream(stream, newest) == [stream EXCEPT !.over = TRUE, !.disabled = @ \/ newest]
StopActive(p) == [p EXCEPT !.streams = [i \in DOMAIN @ |-> StoppedStream(@[i], i = Len(p.streams))]]

SetStatus(p, status) ==
  IF status \in {"STREAM_CLOSED", "NO_STREAM"} THEN StopActive([p EXCEPT !.status = status])
  ELSE [p EXCEPT !.status = status]
Stop(p) == SetStatus(p, "STREAM_CLOSED")

(* Mutant: the status of a closed protocol stays. *)
SendRequestInStatus(p, request) ==
  [p EXCEPT !.streams = Append(@, NewStream(request)), !.cut = FALSE]
(* sendCreateRequest, sendRecoveryRequest, sendBindRequest. *)
SendRequest(p, request) ==
  [SetStatus(p, "OPENING_STREAM") EXCEPT !.streams = Append(@, NewStream(request)), !.cut = FALSE]

Room(p) == Len(p.streams) < MaxConnections
(* What the session makes of an error: it minds it not, closes itself, or     *)
(* closes itself and creates anew at once. *)
Reactions(p) == {p, Stop(p)} \cup (IF Room(p) THEN {SendRequest(Stop(p), "open")} ELSE {})
-----------------------------------------------------------------------------
(* The session on its own account: a stream is bound first, or when the last *)
(* one sent its LOOP, and created when the session was closed. *)
SessionSends(request) ==
  /\ Room(protocol)
  /\ IF request = "bind"
     THEN Newest > 0 => protocol.streams[Newest].wire \in {"looped", "ended"} /\ ~protocol.streams[Newest].over
     ELSE Newest > 0 => protocol.streams[Newest].over
  /\ protocol' = SendRequest(protocol, request)

SessionCloses ==
  /\ protocol.status # "NO_STREAM"
  /\ protocol' = Stop(protocol)
-----------------------------------------------------------------------------
(* The events of the i-th connection.                                        *)

Stale(i) == i # Newest \/ protocol.streams[i].over
Minded(i) == ~protocol.streams[i].disabled

(* onOpen: that of a bind starts the reverse heartbeats (ReverseHeartbeatTimer). *)
StreamOpens(i) ==
  /\ protocol.streams[i].wire = "connecting"
  /\ LET opened == [protocol EXCEPT !.streams[i].wire = "open"]
     IN  protocol' = IF Minded(i) THEN [opened EXCEPT !.streams[i].isOpen = TRUE, !.stray = @ \/ Stale(i)] ELSE opened

(* onMessage and onProtocolMessage: what is heard goes to its handler. *)
Heard(i) == Minded(i) /\ protocol.status = "OPENING_STREAM"
WhenHeard(i, then) ==
  IF Heard(i) THEN [then EXCEPT !.stray = @ \/ Stale(i)] ELSE protocol

StreamMessage(i) ==
  /\ protocol.streams[i].wire = "open"
  /\ protocol' = WhenHeard(i, protocol)

(* LOOP: the session binds at once, or after a pause. *)
StreamLoop(i) ==
  /\ protocol.streams[i].wire = "open"
  /\ LET looped == [protocol EXCEPT !.streams[i].wire = "looped"]
         heard  == Heard(i) /\ Room(protocol)
     IN  \/ protocol' = [looped EXCEPT !.stray = @ \/ (Heard(i) /\ Stale(i))]
         \/ heard /\ protocol' = [SendRequest(looped, "bind") EXCEPT !.stray = @ \/ Stale(i)]

(* CONERR: forwardError. *)
ForwardError(i) ==
  /\ protocol.streams[i].wire = "open"
  /\ \E p \in Reactions(protocol) : protocol' = WhenHeard(i, p)

(* The status is set after the session was told, whatever it did then. *)
ClosedAfter(p, q) ==
  [q EXCEPT !.status = "STREAM_CLOSED", !.cut = @ \/ Len(q.streams) > Len(p.streams) \/ q = p]

(* forwardControlResponseError, for a message of the stream or the answer of *)
(* a control request: the session is out of sync.  Any other error that it   *)
(* minds closes the session. *)
ForwardControlResponseError ==
  /\ Newest > 0
  /\ \E p \in Reactions(protocol) : protocol' = ClosedAfter(protocol, p)

IllegalMessage(i) ==
  /\ protocol.streams[i].wire = "open" /\ Heard(i)
  /\ protocol' = [Stop(protocol) EXCEPT !.stray = @ \/ Stale(i)]

(* onClosed and onBroken: interruptSession. *)
ConnectionEnds(i) ==
  /\ protocol.streams[i].wire # "ended"
  /\ protocol' = [protocol EXCEPT !.streams[i].wire = "ended",
                                  !.streams[i].isInterrupted = @ \/ Minded(i)]
-----------------------------------------------------------------------------
ConnectionsInit ==
  protocol = [status |-> "NO_STREAM", streams |-> <<>>, stray |-> FALSE, cut |-> FALSE]

ConnectionsNext ==
  \/ \E request \in {"open", "bind"} : SessionSends(request)
  \/ SessionCloses \/ ForwardControlResponseError
  \/ \E i \in 1..Newest : \/ StreamOpens(i) \/ StreamMessage(i) \/ StreamLoop(i)
                          \/ ForwardError(i) \/ IllegalMessage(i) \/ ConnectionEnds(i)
ConnectionsSpec == ConnectionsInit /\ [][ConnectionsNext]_connectionsVars
-----------------------------------------------------------------------------
(* Properties.                                                             *)

(* The session hears its newest stream connection and no other: a connection *)
(* that it closed, or that was replaced, has no effect on it any more, and    *)
(* the one it opened last is listened to, unless it was opened, or kept,      *)
(* while an error of a control request was being told: then the status that  *)
(* is set afterwards closes it.                                              *)
HearsTheNewest ==
  /\ ~protocol.stray
  /\ Newest > 0 /\ ~protocol.streams[Newest].over /\ ~protocol.cut =>
       protocol.status = "OPENING_STREAM" /\ Minded(Newest)
===============================================================================
