------------------------------- MODULE Session -------------------------------
(***************************************************************************)
(* client/session: SessionManager, the current Session (SessionHTTP or      *)
(* SessionWS), its RecoveryBean and OfflineCheck, the ServerSession, and    *)
(* the calls of LightstreamerEngine that drive them.                        *)
(*                                                                          *)
(* The handlers call each other back and forth: the manager creates,        *)
(* switches and closes the session, and the session tells the manager to    *)
(* retry, recover or bind anew.  A handler is one atomic action, and each   *)
(* function of the code that handlers share is an operator from the state   *)
(* of the client to the state after it.                                     *)
(*                                                                          *)
(* Two counters of the code only ever tell whether something is stale, and  *)
(* are modelled by what they tell.  Session.handlerPhase against            *)
(* SessionManager.statusPhase is "heeded"; Session.phaseCount against the   *)
(* count a timer captured is "timers", which counts those still to be       *)
(* minded, up to "two or more".  A timer runs when it likes: that covers    *)
(* the sleeping thread launchTimeout starts as well as a caller kept        *)
(* waiting by the future it drops.                                          *)
(*                                                                          *)
(* SessionManager.createSession leaves the creation of its Session object   *)
(* to a comment (SessionManager.hpp:441) and uses the public field session: *)
(* the model starts with the object that call would have put there, and     *)
(* then calls createSession on it again and again as the code does.         *)
(* Assertions are taken as compiled out.                                    *)
(***************************************************************************)
EXTENDS Integers

CONSTANTS
  Transports,     (* values of ConnectionOptions.ForcedTransport tried      *)
  EarlyWSOpen     (* InternalConnectionOptions.EarlyWSOpenEnabled           *)

(* An unset ForcedTransport, then the five the setter accepts. *)
AnyTransport == "none"
ASSUME OptionsAssumption ==
  /\ Transports \subseteq {AnyTransport, "WS", "HTTP", "WS-STREAMING", "HTTP-STREAMING",
                           "WS-POLLING", "HTTP-POLLING"}
  /\ EarlyWSOpen \in BOOLEAN

(* Bound of a count: two or more timeouts. *)
Many == 2

VARIABLE client
vars == <<client>>

(* SessionManager.Status: OFF, one of four transports, or the switch to it. *)
Off                      == [mode |-> "OFF", polling |-> FALSE, http |-> FALSE]
Stable(polling, http)    == [mode |-> "ON", polling |-> polling, http |-> http]
Switching(polling, http) == [mode |-> "SWITCHING", polling |-> polling, http |-> http]
Statuses == [mode : {"ON", "SWITCHING"}, polling : BOOLEAN, http : BOOLEAN] \cup {Off}

(* The phases a session comes to: nothing sets PAUSE, BINDING, RECEIVING,     *)
(* STALLING and STALLED. *)
SessionStates == {"OFF", "CREATING", "CREATED", "FIRST_PAUSE", "FIRST_BINDING", "SLEEP"}
WsStates == {"NOT_CONNECTED", "CONNECTING", "CONNECTED", "BROKEN"}

Clients ==
  [option         : Transports,      (* ForcedTransport                               *)
   callbacks      : BOOLEAN,         (* the Runnables of Session and SessionWS are    *)
                                     (* attached to their futures (here: they are not)*)
   wsDisabled     : BOOLEAN,         (* WebSocket::isDisabled()                       *)
   offline        : BOOLEAN,         (* OfflineStatus::isOffline                      *)
   status         : Statuses,        (* SessionManager.status                         *)
   frozen         : BOOLEAN,         (* SessionManager.isFrozen                       *)
   switchTimer    : BOOLEAN,         (* a switchTimeout whose phase is still current  *)
   serverOpen     : BOOLEAN,         (* ServerSession.state is OPEN                   *)
   heeded         : BOOLEAN,         (* Session.handlerPhase = statusPhase            *)
   phase          : SessionStates,
   polling        : BOOLEAN,         (* Session.isPolling                             *)
   http           : BOOLEAN,         (* a SessionHTTP, or a SessionWS                 *)
   forced         : BOOLEAN,         (* Session.isForced                              *)
   earlyOpen      : BOOLEAN,         (* SessionWS.earlyOpen                           *)
   recovery       : BOOLEAN,         (* RecoveryBean.recovery                         *)
   switchRequired : BOOLEAN,
   slowRequired   : BOOLEAN,
   switchForced   : BOOLEAN,
   toWebSocket    : BOOLEAN,         (* Session.switchToWebSocket                     *)
   timers         : [BOOLEAN -> 0..Many],  (* timeouts of this phase by startRecovery *)
   offlineTask    : BOOLEAN,         (* a delayed createSessionExecution of this phase*)
   maybeOnline    : BOOLEAN,         (* OfflineCheck.maybeOnline > 0                  *)
   stream         : {"none", "sent", "open"},  (* the protocol's stream connection    *)
   binding        : BOOLEAN,         (* a bind request whose future is not fulfilled  *)
   ws             : WsStates]

TypeOK == client \in Clients
-----------------------------------------------------------------------------
(* SessionManager: its status.                                             *)

(* Mutant: the timeout of a switch survives the change of status. *)
ChangeStatusKeepingTimeout(c, status) == [c EXCEPT !.status = status, !.heeded = FALSE]
ChangeStatus(c, status) ==
  [c EXCEPT !.status = status, !.heeded = FALSE, !.switchTimer = FALSE]

IsAlive(c) == c.status.mode # "OFF"

(* Mutant: the frozen transport is not looked at. *)
NextSensePhaseOfAny(c) ==
  LET s == c.status
  IN  IF s.mode # "ON" THEN s
      ELSE IF s.polling THEN Switching(FALSE, FALSE)
      ELSE Switching(s.http, TRUE)
(* getNextSensePhase: streaming falls back to polling or to HTTP, polling   *)
(* tries to stream again, unless the transport is frozen. *)
NextSensePhase(c) ==
  LET s == c.status
  IN  IF s.mode # "ON" THEN s
      ELSE IF s.polling THEN IF s.http /\ c.frozen THEN Switching(TRUE, TRUE) ELSE Switching(FALSE, FALSE)
      ELSE IF s.http THEN Switching(TRUE, TRUE)
      ELSE Switching(FALSE, ~c.frozen)

(* getNextSlowPhase; Off stands for ERROR. *)
NextSlowPhase(c) ==
  CASE c.status = Stable(FALSE, FALSE)                               -> Switching(TRUE, FALSE)
    [] c.status \in {Stable(FALSE, TRUE), Switching(FALSE, TRUE), Switching(TRUE, TRUE)}
                                                                     -> Switching(TRUE, TRUE)
    [] OTHER                                                         -> Off

(* getHighLevelStatus, the part connect looks at. *)
Busy(c) == c.phase \in {"CREATED", "FIRST_PAUSE", "FIRST_BINDING"}
           \/ (c.phase = "CREATING" /\ ~c.recovery)
-----------------------------------------------------------------------------
(* Session: phases, timeouts, the end of a session.                        *)

NoTimers == [startRecovery \in BOOLEAN |-> 0]

(* changePhaseType.  The listener's thread is told: nothing changes here. *)
ChangePhase(c, phase) ==
  IF c.phase = phase THEN c
  ELSE [c EXCEPT !.phase = phase, !.timers = NoTimers, !.offlineTask = FALSE]

LaunchTimeout(c, startRecovery) ==
  [c EXCEPT !.timers[startRecovery] = IF @ = Many THEN Many ELSE @ + 1]

Reset(c) == [c EXCEPT !.switchRequired = FALSE, !.switchForced = FALSE, !.slowRequired = FALSE]

(* Mutant: the pending switch survives the end of the session. *)
ShutdownKeepingSwitch(c, goToSleep) ==
  [ChangePhase(c, IF goToSleep THEN "SLEEP" ELSE "OFF") EXCEPT !.stream = "none"]
(* Mutant: the protocol of a session that goes to sleep is not stopped. *)
ShutdownStreaming(c, goToSleep) ==
  [ChangePhase(Reset(c), IF goToSleep THEN "SLEEP" ELSE "OFF")
     EXCEPT !.stream = IF goToSleep THEN @ ELSE "none"]
(* shutdown, with the stop of the protocol. *)
Shutdown(c, goToSleep) ==
  [ChangePhase(Reset(c), IF goToSleep THEN "SLEEP" ELSE "OFF") EXCEPT !.stream = "none"]

(* SessionManager.onSessionClose hands out a new phase, but a session of a  *)
(* past phase is closed without the manager's status changing. *)
OnSessionClose(c, noRecovery) ==
  IF c.heeded
  THEN [ChangeStatus(c, IF noRecovery THEN Off ELSE c.status) EXCEPT !.heeded = TRUE]
  ELSE c

(* Session.closeSession and SessionManager.closeSession. *)
CloseSession(c, noRecovery) == Shutdown(OnSessionClose(c, noRecovery), ~noRecovery)
ManagerClose(c, noRecovery) ==
  LET d == IF noRecovery THEN [c EXCEPT !.serverOpen = FALSE] ELSE c
  IN  IF IsAlive(d) THEN CloseSession(d, noRecovery) ELSE d

(* SessionWS.createSent: the socket is opened early.  Only the first call   *)
(* on an object finds NOT_CONNECTED; "Should not happen" is an assertion. *)
OpenEarly(c) ==
  IF ~c.http /\ c.ws = "NOT_CONNECTED" /\ c.earlyOpen
  THEN [c EXCEPT !.ws = "CONNECTING"] ELSE c

(* Mutant: no timeout for the answer. *)
CreateSentUntimed(c) == OpenEarly(ChangePhase(c, "CREATING"))
CreateSent(c) ==
  IF c.phase \notin {"OFF", "SLEEP"} THEN OpenEarly(Shutdown(c, FALSE))
  ELSE OpenEarly(LaunchTimeout(ChangePhase(c, "CREATING"), FALSE))

(* createSessionExecution with OfflineCheck.shouldDelay: while offline one  *)
(* attempt is allowed, then none until MAYBE_ONLINE_TIMEOUT is over. *)
Delayed(c)    == c.offline /\ ~c.maybeOnline
SendCreate(c) ==
  IF Delayed(c) THEN [c EXCEPT !.offlineTask = TRUE]
  ELSE [c EXCEPT !.stream = "sent", !.maybeOnline = @ /\ ~c.offline]

(* Session.createSession. *)
SessionCreate(c) ==
  LET d == IF c.phase \in {"OFF", "SLEEP"} THEN c ELSE CloseSession(c, FALSE)
      e == SendCreate(Reset(d))
  IN  IF Delayed(d) THEN e ELSE CreateSent(e)
-----------------------------------------------------------------------------
(* SessionManager and Session calling each other.                          *)

(* createSession, the branch that starts anew. *)
CreateNew(c, polling, http) ==
  SessionCreate(ChangeStatus(ManagerClose(c, FALSE), Stable(polling, http)))

(* streamSense and retry: only the session of the current phase is minded. *)
StreamSense(c) ==
  IF ~c.heeded \/ NextSensePhase(c) = Off THEN c
  ELSE CreateNew(c, NextSensePhase(c).polling, NextSensePhase(c).http)

(* While the manager is switching, the session is retried as HTTP polling. *)
Retry(c) ==
  IF ~c.heeded THEN c
  ELSE CreateNew(c, c.status.mode # "ON" \/ c.status.polling, c.status.mode # "ON" \/ c.status.http)

(* The constructor of SessionWS: is its socket to be opened early. *)
OpensEarly(c) == EarlyWSOpen /\ ~c.wsDisabled

(* The RecoveryBean made from the previous one, and the constructor of the  *)
(* Session that takes over the identity of the previous one. *)
BeanRecovery(startRecovery, old) == (old /\ startRecovery) \/ (~old /\ startRecovery)
NewObject(c, polling, http, forced, startRecovery) ==
  [c EXCEPT !.heeded = TRUE, !.phase = "OFF", !.polling = polling, !.http = http,
            !.forced = forced, !.recovery = BeanRecovery(startRecovery, c.recovery),
            !.earlyOpen = OpensEarly(c),
            !.switchRequired = FALSE, !.slowRequired = FALSE, !.switchForced = FALSE,
            !.toWebSocket = FALSE, !.timers = NoTimers, !.offlineTask = FALSE, !.maybeOnline = TRUE,
            !.stream = "none", !.binding = FALSE, !.ws = "NOT_CONNECTED"]

(* prepareNewSessionInstance over a previous session, which is shut down    *)
(* and, being of a past phase, has nothing more to say. *)
NewSession(c, polling, http, forced, startRecovery) ==
  NewObject(Shutdown(c, FALSE), polling, http, forced, startRecovery)

(* bindSessionExecution: the request, and a future that tells it was sent. *)
BindSessionExecution(c) == [c EXCEPT !.stream = "sent", !.binding = TRUE]

(* Session.bindSession, on an object that is OFF or in its first pause. *)
SessionBind(c) ==
  IF c.phase \notin {"OFF", "FIRST_PAUSE"} THEN Shutdown(c, FALSE)
  ELSE BindSessionExecution(ChangePhase(c, "FIRST_PAUSE"))

(* bindSession, switchReady and slowReady of the manager. *)
BindSession(c, forced, polling, http, startRecovery) ==
  SessionBind(NewSession(ChangeStatus(c, Stable(polling, http)), polling, http, forced, startRecovery))
SwitchReady(c, forced, startRecovery) ==
  IF ~c.heeded \/ c.status.mode # "SWITCHING" THEN c
  ELSE BindSession(c, forced, c.status.polling, c.status.http, startRecovery)
SlowReady(c) == SwitchReady(c, FALSE, FALSE)

(* Session.recoverSession sends its request and waits for the answer. *)
SessionRecover(c) == CreateSent([c EXCEPT !.stream = "sent"])

(* SessionManager.recoverSession: a new object whose first request is the   *)
(* recovery.  A manager that is switching recovers over HTTP polling. *)
Recover(c) ==
  IF ~c.heeded THEN c
  ELSE LET polling == c.status.mode # "ON" \/ c.status.polling
           http    == c.status.mode # "ON" \/ c.status.http
       IN  SessionRecover(NewSession(ChangeStatus(c, Stable(polling, http)), polling, http, c.forced, TRUE))

(* Mutant: the session keeps the phase it had. *)
RequestSwitchUnheeded(c, forced, startRecovery) ==
  IF c.switchRequired THEN c
  ELSE [c EXCEPT !.slowRequired = FALSE, !.switchRequired = TRUE, !.switchForced = forced]
(* Session.requestSwitch. *)
RequestSwitch(c, forced, startRecovery) ==
  LET d == [c EXCEPT !.heeded = TRUE]
      e == [d EXCEPT !.slowRequired = FALSE]
  IN  CASE d.switchRequired                        -> d
        [] ~d.switchRequired /\ d.phase \in {"CREATING", "SLEEP", "OFF"} -> StreamSense(e)
        [] ~d.switchRequired /\ d.phase = "FIRST_PAUSE" -> SwitchReady(e, forced, startRecovery)
        [] OTHER -> [e EXCEPT !.switchRequired = TRUE, !.switchForced = forced]

(* createSession, the branch that switches a live session.  It starts no    *)
(* switch timeout: that call is left to a comment (SessionManager.hpp:433). *)
SwitchTo(c, polling, http, forced, startRecovery) ==
  RequestSwitch(ChangeStatus(c, Switching(polling, http)), forced, startRecovery)

(* SessionManager.createSession. *)
Create(c, frozen, comboForced, polling, http, startRecovery) ==
  LET d == [c EXCEPT !.frozen = frozen]
  IN  IF IsAlive(d) THEN SwitchTo(d, polling, http, comboForced, startRecovery)
      ELSE CreateNew(d, polling, http)

(* streamSenseSwitch: WebSocket is given up when its first binding fails. *)
StreamSenseSwitch(c) ==
  LET next == NextSensePhase(c)
      d    == IF c.phase = "FIRST_BINDING" /\ c.status = Stable(FALSE, FALSE) /\ next = Switching(FALSE, TRUE)
              THEN [c EXCEPT !.wsDisabled = TRUE] ELSE c
  IN  IF ~c.heeded \/ next = Off THEN c
      ELSE RequestSwitch([ChangeStatus(d, next) EXCEPT !.switchTimer = TRUE], FALSE, c.recovery)

(* Session.requestSlow. *)
RequestSlow(c) ==
  LET d == [c EXCEPT !.heeded = TRUE]
  IN  IF d.slowRequired THEN d
      ELSE IF d.phase \in {"CREATING", "SLEEP", "OFF"} THEN Shutdown(d, FALSE)
      ELSE IF d.phase = "FIRST_PAUSE" THEN SlowReady(d)
      ELSE [d EXCEPT !.slowRequired = TRUE]

(* onSlowRequired. *)
SlowRequired(c) ==
  IF ~c.heeded \/ NextSlowPhase(c) = Off THEN c
  ELSE RequestSlow([ChangeStatus(c, NextSlowPhase(c)) EXCEPT !.switchTimer = TRUE])
-----------------------------------------------------------------------------
(* What the application asks for: LightstreamerEngine.                     *)

(* How connect reads the ForcedTransport. *)
TransportForced(option) == option \in {"WS", "HTTP"}
ComboForced(option)     == option \notin {AnyTransport, "WS", "HTTP"}
ByPolling(option)       == option \in {"WS-POLLING", "HTTP-POLLING"}
ByHttp(option)          == option \in {"HTTP", "HTTP-STREAMING", "HTTP-POLLING"}

(* connect.  Its task reads "forced" through a reference to a parameter     *)
(* that is gone when it runs, so the test of the status may be passed over. *)
Connect ==
  /\ \E forced \in BOOLEAN : forced \/ ~Busy(client)
  /\ LET option == client.option
     IN  client' = Create(client, TransportForced(option), ComboForced(option), ByPolling(option),
                          ByHttp(option) \/ (option = AnyTransport /\ client.wsDisabled), FALSE)

Disconnect == client' = ManagerClose(client, TRUE)
-----------------------------------------------------------------------------
(* Timers and tasks.                                                       *)

(* switchTimeout, on a thread of its own. *)
SwitchTimeout ==
  /\ client.switchTimer
  /\ LET c == [client EXCEPT !.switchTimer = FALSE]
     IN  client' = IF c.status.mode # "SWITCHING" THEN c
                   ELSE CreateNew(c, c.status.polling, c.status.http)

(* onTimeout by phase; timeLeft is RecoveryBean.timeLeftMs > 0.  It is the  *)
(* time left of a recovery under way, else the whole sessionRecoveryTimeout.*)
CreatingTimeout(c, timeLeft) ==
  IF c.recovery /\ timeLeft THEN Recover(c)
  ELSE LaunchTimeout(CloseSession(c, FALSE), FALSE)

IdleTimeout(c, startRecovery) ==
  IF c.slowRequired \/ c.switchRequired \/ (c.polling /\ ~c.forced) THEN StreamSense(c)
  ELSE IF startRecovery THEN Recover(c) ELSE Retry(c)

CreateNewOnFirstBindTimeout(c) == c.polling
BindingTimeout(c) ==
  IF c.slowRequired \/ c.switchRequired THEN StreamSense(c)
  ELSE IF c.forced THEN Retry(c)
  ELSE IF CreateNewOnFirstBindTimeout(c) THEN StreamSense(c)
  ELSE StreamSenseSwitch(c)

SwitchToWebSocket(c) == Create(c, c.frozen, FALSE, FALSE, FALSE, c.recovery)
PauseTimeout(c) ==
  IF c.toWebSocket THEN [SwitchToWebSocket(c) EXCEPT !.toWebSocket = FALSE]
  ELSE SessionBind(c)

OnTimeout(c, startRecovery, timeLeft) ==
  CASE c.phase = "CREATING"              -> CreatingTimeout(c, timeLeft)
    [] c.phase \in {"CREATED", "SLEEP"}  -> IdleTimeout(c, startRecovery)
    [] c.phase = "FIRST_BINDING"         -> BindingTimeout(c)
    [] c.phase = "FIRST_PAUSE"           -> PauseTimeout(c)
    [] c.phase = "OFF"                   -> Shutdown(c, FALSE)

(* A timeout of launchTimeout fires. *)
Left(count) == IF count = Many THEN {Many - 1, Many} ELSE {count - 1}
Timeout(startRecovery) ==
  /\ client.timers[startRecovery] > 0
  /\ \E timeLeft \in BOOLEAN, left \in Left(client.timers[startRecovery]) :
       client' = OnTimeout([client EXCEPT !.timers[startRecovery] = left], startRecovery, timeLeft)

(* The delayed createSessionExecution runs.  It sends the request, but only *)
(* createSession, long returned, would call createSent. *)
OfflineTask ==
  /\ client.offlineTask
  /\ client' = SendCreate([client EXCEPT !.offlineTask = FALSE])

(* OfflineCheck.resetMaybeOnline. *)
ResetMaybeOnline ==
  /\ ~client.maybeOnline
  /\ client' = [client EXCEPT !.maybeOnline = TRUE]

(* The Runnables of the futures: MyRunnableA of the bind, and those of the    *)
(* early opening. *)
BindIsSent  == client.callbacks /\ client.binding
OpeningEnds == client.callbacks /\ client.ws = "CONNECTING"

(* Mutant: the choice of the phase is swapped. *)
BindSentSwapped ==
  /\ BindIsSent
  /\ LET c == [client EXCEPT !.binding = FALSE]
     IN  client' = IF c.phase # "FIRST_PAUSE" THEN Shutdown(c, FALSE)
                   ELSE LaunchTimeout(ChangePhase(c, "BINDING"), FALSE)
(* bindSent. *)
BindSent ==
  /\ BindIsSent
  /\ LET c == [client EXCEPT !.binding = FALSE]
     IN  client' = IF c.phase # "FIRST_PAUSE" THEN Shutdown(c, FALSE)
                   ELSE LaunchTimeout(ChangePhase(c, "FIRST_BINDING"), FALSE)

(* SessionWS.StateMachine: the early socket opened, or could not. *)
ConnectionOK ==
  /\ OpeningEnds
  /\ client' = [client EXCEPT !.ws = "CONNECTED"]

ConnectionError ==
  /\ OpeningEnds
  /\ LET c == [client EXCEPT !.ws = "BROKEN"]
     IN  client' = IF c.phase \in {"OFF", "CREATING", "CREATED"} THEN c
                   ELSE LaunchTimeout(c, FALSE)
-----------------------------------------------------------------------------
(* What the protocol tells: Session.TextProtocolListener.                  *)

Event(c) == LaunchTimeout(IF c.phase = "CREATING" THEN ChangePhase(c, "CREATED") ELSE c, FALSE)

(* changeControlLink of the first answer: a WebSocket is opened again. *)
Relink(c) == IF c.http \/ c.ws = "NOT_CONNECTED" THEN c ELSE [c EXCEPT !.ws = "CONNECTING"]

(* onOKReceived: the answer to a create, a recovery or a bind request. *)
OnOKReceived(newLink, sameSession) ==
  /\ client.stream = "sent"
  /\ LET c == [client EXCEPT !.stream = "open"]
     IN  client' =
           IF c.phase \notin {"CREATING", "FIRST_BINDING"} THEN Shutdown(c, FALSE)
           ELSE IF c.phase = "CREATING" THEN Event(IF newLink THEN Relink(c) ELSE c)
           ELSE IF sameSession THEN Event(c) ELSE Event(Shutdown(c, FALSE))

(* A notification, which is as good as a keepalive. *)
OnEvent ==
  /\ client.stream = "open"
  /\ client' = Event(client)

(* doPause leaves the phase alone: a created session is still in CREATED    *)
(* when its pause, if any, is over. *)
DoPause(c, pause) == IF pause THEN LaunchTimeout(c, FALSE) ELSE OnTimeout(c, FALSE, TRUE)

(* onLoopReceived: the stream connection ends. *)
OnLoopReceived(pause) ==
  /\ client.stream = "open"
  /\ LET c == [client EXCEPT !.stream = "none"]
     IN  client' = IF c.phase # "CREATED" THEN Shutdown(c, FALSE)
                   ELSE IF c.switchRequired THEN SwitchReady(c, c.switchForced, FALSE)
                   ELSE IF c.slowRequired THEN SlowReady(c)
                   ELSE DoPause(c, pause)

(* Mutant: nothing is launched to retry. *)
ErrorEventForGood(c, tryRecovery, timeLeft) ==
  IF ~c.http \/ c.phase \notin {"CREATING", "CREATED", "FIRST_BINDING"} THEN c
  ELSE IF c.recovery /\ timeLeft /\ tryRecovery
       THEN LaunchTimeout(ChangePhase(c, "SLEEP"), TRUE)
  ELSE IF c.switchRequired /\ ~c.forced THEN StreamSense(c)
  ELSE CloseSession(c, FALSE)
(* doOnErrorEvent.  SessionWS ignores every error. *)
ErrorEvent(c, tryRecovery, timeLeft) ==
  IF ~c.http \/ c.phase \notin {"CREATING", "CREATED", "FIRST_BINDING"} THEN c
  ELSE IF c.recovery /\ timeLeft /\ tryRecovery
       THEN LaunchTimeout(ChangePhase(c, "SLEEP"), TRUE)
  ELSE IF c.switchRequired /\ ~c.forced THEN StreamSense(c)
  ELSE LaunchTimeout(CloseSession(c, FALSE), FALSE)

(* onErrorEvent. *)
OnErrorEvent(tryRecovery) ==
  /\ client.stream # "none"
  /\ \E timeLeft \in BOOLEAN :
       client' = ErrorEvent([client EXCEPT !.stream = "none"], tryRecovery, timeLeft)

(* The network fails; the server lost the session, or gave it to another. *)
OnInterrupted == OnErrorEvent(TRUE)
OnSessionLost == OnErrorEvent(FALSE)

(* notifyServerError. *)
OnServerError ==
  /\ client.stream # "none"
  /\ client' = CloseSession(client, TRUE)

(* SlowingHandler.syncCheck: only a streaming session is found late; how    *)
(* late is abstracted to any answer. *)
SyncChecks(c) == IF c.polling THEN {TRUE} ELSE BOOLEAN

(* onSyncMessage. *)
OnSyncMessage(syncOk) ==
  /\ client.stream = "open"
  /\ syncOk \in SyncChecks(client)
  /\ LET c == Event(client)
     IN  client' = IF ~syncOk /\ ~c.switchRequired /\ ~c.slowRequired
                   THEN SlowRequired(c) ELSE c

(* restoreWebSocket: a forced transport is left alone. *)
RestoreWebSocket(c) == [c EXCEPT !.toWebSocket = @ \/ c.option = AnyTransport]

(* onIPReceived of another address: WebSocket gets another chance. *)
OnClientIp ==
  /\ client.stream = "open" /\ client.wsDisabled
  /\ client' = RestoreWebSocket([client EXCEPT !.wsDisabled = FALSE])

(* The network of the device comes and goes. *)
NetworkChanges == client' = [client EXCEPT !.offline = ~@]
-----------------------------------------------------------------------------
Init ==
  \E option \in Transports, callbacks, offline \in BOOLEAN :
    client = [option |-> option, callbacks |-> callbacks, wsDisabled |-> FALSE, offline |-> offline,
              status |-> Off, frozen |-> FALSE, switchTimer |-> FALSE, serverOpen |-> TRUE,
              heeded |-> TRUE, phase |-> "OFF", polling |-> ByPolling(option), http |-> ByHttp(option),
              forced |-> ComboForced(option), earlyOpen |-> EarlyWSOpen, recovery |-> FALSE,
              switchRequired |-> FALSE, slowRequired |-> FALSE, switchForced |-> FALSE,
              toWebSocket |-> FALSE, timers |-> NoTimers, offlineTask |-> FALSE, maybeOnline |-> TRUE,
              stream |-> "none", binding |-> FALSE, ws |-> "NOT_CONNECTED"]

Next ==
  \/ Connect \/ Disconnect
  \/ SwitchTimeout \/ OfflineTask \/ ResetMaybeOnline \/ BindSent \/ ConnectionOK \/ ConnectionError
  \/ \E flag \in BOOLEAN : Timeout(flag) \/ OnLoopReceived(flag) \/ OnSyncMessage(flag)
  \/ \E newLink, sameSession \in BOOLEAN : OnOKReceived(newLink, sameSession)
  \/ OnInterrupted \/ OnSessionLost \/ OnEvent \/ OnServerError \/ OnClientIp \/ NetworkChanges

Spec == Init /\ [][Next]_vars

(* Threads that sleep wake up, and the session thread runs its tasks. *)
Fairness ==
  /\ WF_vars(SwitchTimeout)
  /\ WF_vars(OfflineTask)
  /\ \A startRecovery \in BOOLEAN : WF_vars(Timeout(startRecovery))
FairSpec == Spec /\ Fairness
-----------------------------------------------------------------------------
(* Properties.                                                             *)

(* A transport forced whole, WS or HTTP, is kept by every fallback, retry   *)
(* and switch of a live session (ConnectionOptions.forcedTransport).        *)
FrozenKeepsTransport ==
  client.frozen /\ IsAlive(client) => client.status.http = (client.option = "HTTP")

(* While the manager is switching, the session it waits for answers with    *)
(* the current phase: its switchReady will not be discarded as stale.  And  *)
(* a session remembers a switch only as long as the manager wants one, and  *)
(* only in a phase that will act on it: none survives the end of a session  *)
(* to divert the next.                                                      *)
SwitchingIsHeeded ==
  /\ client.status.mode = "SWITCHING" => client.heeded
  /\ client.switchRequired \/ client.slowRequired =>
       client.status.mode = "SWITCHING" /\ client.phase \in {"CREATED", "FIRST_BINDING"}

(* A stream that delivers belongs to a session that is open: a session put  *)
(* to sleep or off has stopped its protocol.                                *)
OpenStreamIsOwned ==
  client.stream = "open" => client.phase \notin {"OFF", "SLEEP", "CREATING"}

(* A session that sleeps and still has the ear of its manager has something *)
(* under way that will wake it.                                             *)
SleeperWillWake ==
  client.heeded /\ client.phase = "SLEEP" =>
    client.offlineTask \/ client.stream = "sent" \/ \E f \in BOOLEAN : client.timers[f] > 0

(* disconnect stops the session, its stream and its switch, and until       *)
(* connect is called no timer, bind or answer that was under way brings any  *)
(* of them back: only a creation delayed while offline does.                 *)
Quiet(c) == c.phase = "OFF" /\ c.stream = "none" /\ ~c.switchTimer
StaysDisconnected ==
  [][(Disconnect => Quiet(client')) /\ (Quiet(client) /\ ~Quiet(client') => Connect \/ OfflineTask)]_vars

(* The attempt to create a session does not last for ever.                  *)
CreatingEnds == client.phase = "CREATING" ~> client.phase # "CREATING"

(* LightstreamerEngine.hpp:103: disconnect is "stopping automatic            *)
(* reconnections", so no creation of a session is left to run after it.     *)
NothingAfterDisconnect == [][Disconnect => ~client'.offlineTask]_vars
=============================================================================
