---------------------------- MODULE SessionAddress ----------------------------
(***************************************************************************)
(* Which server the requests of a session go to.  The configured address is  *)
(* read when a session is created; the answer may name a control link to go  *)
(* on with; the user may change the address and the option to ignore links    *)
(* at any time.  The session writes the address into each request when it     *)
(* makes it, the request waits in the queue of a manager, is handed over when *)
(* the session moves to another transport, and goes to the address of the     *)
(* first of its batch over HTTP, or wherever the WebSocket was opened to.      *)
(*                                                                          *)
(* The server names the same link, or none, in each answer of one session.   *)
(* A creation held back while offline reads the same address later.          *)
(***************************************************************************)
EXTENDS Naturals, FiniteSets

CONSTANTS
  Addresses,   (* of servers                          *)
  MaxIds       (* bound: sessions the server creates  *)

ASSUME AddressAssumption == MaxIds \in Nat

VARIABLES
  serverAddress,  (* ConnectionDetails.serverAddress                          *)
  ignored,        (* ConnectionOptions.serverInstanceAddressIgnored           *)
  stage,          (* "off", "creating", "recovering" or "open"                *)
  session,        (* the addresses of the Session, and its sessionId          *)
  overHttp,       (* is its transport HTTP                                    *)
  controlLink,    (* SessionWS.StateMachine.controlLink                       *)
  socket,         (* the address the WebSocket was opened to                  *)
  serversLink,    (* the link the server names for this session               *)
  waiting,         (* requests that wait in the manager, with their address    *)
  reached,        (* the servers that requests of each session went to        *)
  tainted         (* sessions that shared their Session object with another   *)

addressVars == <<serverAddress, ignored, stage, session, overHttp, controlLink, socket, serversLink, waiting, reached, tainted>>
configured == <<serverAddress, ignored>>

NoAddress == "none"
Links == Addresses \cup {NoAddress}
SessionIds == 1..MaxIds
NoId == 0

AddressTypeOK ==
  /\ serverAddress \in Addresses /\ ignored \in BOOLEAN
  /\ stage \in {"off", "creating", "recovering", "open"}
  /\ session \in [cache : Links, own : Links, ignore : BOOLEAN, id : SessionIds \cup {NoId}]
  /\ overHttp \in BOOLEAN /\ controlLink \in Links /\ socket \in Links /\ serversLink \in Links
  /\ waiting \subseteq (SessionIds \X Addresses) /\ reached \in [SessionIds -> SUBSET Addresses] /\ tainted \subseteq SessionIds
-----------------------------------------------------------------------------
Or(link, address) == IF link = NoAddress THEN address ELSE link
PushServerAddress(s) == Or(s.own, s.cache)

Goes(requests, address) ==
  reached' = [id \in SessionIds |-> reached[id] \cup {address : r \in {q \in requests : q[1] = id}}]

(* The user sets the server's address, or the option, for sessions to come. *)
Configure ==
  /\ \/ serverAddress' \in Addresses \ {serverAddress} /\ UNCHANGED ignored
     \/ ignored' = ~ignored /\ UNCHANGED serverAddress
  /\ UNCHANGED <<stage, session, overHttp, controlLink, socket, serversLink, waiting, reached, tainted>>

(* Session.createSession with reset, on a new Session object or, as the       *)
(* manager retries, on the one of the session before; the WebSocket may be    *)
(* opened with it. *)
CreateSession ==
  /\ stage = "off" /\ session.id < MaxIds
  /\ stage' = "creating"
  /\ session' = [cache |-> serverAddress, own |-> NoAddress, ignore |-> ignored, id |-> session.id]
  /\ serversLink' = NoAddress
  /\ \E fresh \in BOOLEAN :
       IF fresh \/ session.id = NoId
       THEN /\ overHttp' \in BOOLEAN /\ controlLink' = NoAddress
            /\ waiting' = {} /\ UNCHANGED tainted
       ELSE /\ UNCHANGED <<overHttp, controlLink, waiting>>
            /\ tainted' = tainted \cup (IF overHttp THEN {} ELSE {session.id, session.id + 1})
  /\ socket' \in {NoAddress} \cup (IF overHttp' THEN {} ELSE {Or(controlLink', PushServerAddress(session'))})
  /\ UNCHANGED <<configured, reached>>

(* onOKReceived while CREATING: the address to use from here on, and, when   *)
(* it differs, changeControlLink. *)
AddressToUse(link) == IF link # NoAddress /\ ~session.ignore THEN link ELSE PushServerAddress(session)
OnOKReceived ==
  /\ stage \in {"creating", "recovering"}
  /\ \E link \in (IF stage = "creating" THEN Links ELSE {serversLink, NoAddress}) :
       /\ serversLink' = (IF stage = "creating" THEN link ELSE serversLink)
       /\ session' = [session EXCEPT !.own = AddressToUse(link), !.id = IF stage = "creating" THEN @ + 1 ELSE @]
       /\ LET changed == ~overHttp /\ PushServerAddress(session) # AddressToUse(link)
          IN  /\ controlLink' = (IF changed THEN AddressToUse(link) ELSE controlLink)
              /\ socket' = (IF changed /\ socket # NoAddress THEN AddressToUse(link) ELSE socket)
  /\ stage' = "open"
  /\ UNCHANGED <<configured, overHttp, waiting, reached, tainted>>

(* Mutant: the link of the answer to a bind is used even if it is ignored. *)
OnBoundUnignored ==
  /\ stage = "open"
  /\ \E link \in {serversLink, NoAddress} : session' = [session EXCEPT !.own = Or(link, PushServerAddress(session))]
  /\ UNCHANGED <<configured, stage, overHttp, controlLink, socket, serversLink, waiting, reached, tainted>>

(* onOKReceived while binding. *)
OnBound ==
  /\ stage = "open"
  /\ \E link \in {serversLink, NoAddress} : session' = [session EXCEPT !.own = AddressToUse(link)]
  /\ UNCHANGED <<configured, stage, overHttp, controlLink, socket, serversLink, waiting, reached, tainted>>

(* sendSubscription, sendUnsubscription, sendSubscriptionChange, sendMessage, *)
(* sendReverseHeartbeat and sendConstrain: the request waits in the manager. *)
MakeRequest ==
  /\ stage = "open"
  /\ waiting' = waiting \cup {<<session.id, PushServerAddress(session)>>}
  /\ UNCHANGED <<configured, stage, session, overHttp, controlLink, socket, serversLink, reached, tainted>>

(* sendForceRebind goes over HTTP whatever the transport. *)
ForceRebind ==
  /\ stage = "open"
  /\ Goes({<<session.id, NoAddress>>}, PushServerAddress(session))
  /\ UNCHANGED <<configured, stage, session, overHttp, controlLink, socket, serversLink, waiting, tainted>>

(* sendBatch sends a batch to the server of its first request; a WebSocket    *)
(* takes what there is. *)
SendQueued ==
  /\ stage = "open" /\ waiting # {}
  /\ overHttp \/ socket # NoAddress
  /\ \E first \in waiting : Goes(waiting, IF overHttp THEN first[2] ELSE socket)
  /\ waiting' = {}
  /\ UNCHANGED <<configured, stage, session, overHttp, controlLink, socket, serversLink, tainted>>

(* bindSessionExecution, with openWS when no socket was opened. *)
BindAtAddress ==
  /\ stage = "open"
  /\ socket' = (IF overHttp THEN socket ELSE Or(socket, Or(controlLink, PushServerAddress(session))))
  /\ Goes({<<session.id, NoAddress>>}, IF overHttp THEN PushServerAddress(session) ELSE socket')
  /\ UNCHANGED <<configured, stage, session, overHttp, controlLink, serversLink, waiting, tainted>>

(* The constructor of the Session that takes over from this one, to bind or   *)
(* to recover: the addresses and the queue go with it. *)
TakeOver ==
  /\ stage = "open"
  /\ overHttp' \in BOOLEAN /\ controlLink' = NoAddress /\ socket' = NoAddress
  /\ \/ stage' = "open" /\ UNCHANGED reached
     \/ stage' = "recovering" /\ Goes({<<session.id, NoAddress>>}, PushServerAddress(session))
  /\ UNCHANGED <<configured, session, serversLink, waiting, tainted>>

(* closeSession: a WebSocket is sent the request to destroy the session; its  *)
(* manager keeps what it had not sent. *)
CloseAtAddress ==
  /\ stage # "off"
  /\ stage' = "off"
  /\ Goes(IF stage = "open" /\ ~overHttp /\ socket # NoAddress THEN {<<session.id, NoAddress>>} ELSE {}, socket)
  /\ waiting' = IF overHttp THEN {} ELSE waiting
  /\ UNCHANGED <<configured, session, overHttp, controlLink, socket, serversLink, tainted>>
-----------------------------------------------------------------------------
AddressInit ==
  /\ serverAddress \in Addresses /\ ignored = FALSE /\ stage = "off"
  /\ session = [cache |-> NoAddress, own |-> NoAddress, ignore |-> FALSE, id |-> NoId]
  /\ overHttp = TRUE /\ controlLink = NoAddress /\ socket = NoAddress /\ serversLink = NoAddress
  /\ waiting = {} /\ reached = [id \in SessionIds |-> {}] /\ tainted = {}

AddressNext ==
  \/ Configure \/ CreateSession \/ OnOKReceived \/ OnBound \/ MakeRequest \/ ForceRebind
  \/ SendQueued \/ BindAtAddress \/ TakeOver \/ CloseAtAddress
AddressSpec == AddressInit /\ [][AddressNext]_addressVars
-----------------------------------------------------------------------------
(* Properties.                                                             *)

(* All requests of a session go to one server, the only one that knows it,   *)
(* however the configuration changes and the session moves between            *)
(* transports; unless it was created over a WebSocket on the object of a      *)
(* closed session, whose link and queue are still there.                      *)
OneServerPerSession ==
  \A id \in SessionIds \ tainted : Cardinality(reached[id]) <= 1
===============================================================================
