--------------------------- MODULE Session_proofs ---------------------------
(***************************************************************************)
(* The SessionManager and its Session agree, for any set of transports and  *)
(* whatever order timeouts, answers, errors and calls of the application    *)
(* come in: the manager hears the session it switches, a forced transport   *)
(* is kept, only an open session has a stream that delivers, a session that *)
(* sleeps will wake, and one that was disconnected stays so.                *)
(***************************************************************************)
EXTENDS Session, TLAPS

(* No timeout asks for a recovery and no session starts one: the bean's     *)
(* recovery flag is only ever inherited, and starts false.                  *)
Recoverless == {c \in Clients : ~c.recovery /\ c.timers[TRUE] = 0}

(* Four groups of fields, and what it means that an operation leaves one of *)
(* them alone: what the session is, how it stands with the manager, where   *)
(* it is in its life, and the switch it was asked for.                      *)
SameSelf(c, d) ==
  /\ d.option = c.option /\ d.frozen = c.frozen /\ d.forced = c.forced
  /\ d.polling = c.polling /\ d.http = c.http /\ d.toWebSocket = c.toWebSocket
SameStatus(c, d) ==
  d.status = c.status /\ d.heeded = c.heeded /\ d.switchTimer = c.switchTimer
SameLife(c, d) ==
  /\ d.phase = c.phase /\ d.stream = c.stream
  /\ d.timers = c.timers /\ d.offlineTask = c.offlineTask
SameWishes(c, d) ==
  /\ d.switchRequired = c.switchRequired /\ d.slowRequired = c.slowRequired
  /\ d.switchForced = c.switchForced
NoWishes(d) == ~d.switchRequired /\ ~d.slowRequired /\ ~d.switchForced
(* A whole transport was forced, WS or HTTP. *)
ForcedWhole(c) == TransportForced(c.option)

(* The session is as ForcedTransport asks. *)
Choices(c) ==
  /\ c.frozen => ForcedWhole(c)
  /\ c.forced \/ c.switchForced => ComboForced(c.option)
  /\ c.toWebSocket => c.option = AnyTransport
  /\ ForcedWhole(c) => (c.http <=> c.option = "HTTP")

(* And so would a manager with this status be. *)
Fits(c, status) ==
  ForcedWhole(c) /\ status.mode # "OFF" => c.frozen /\ (status.http <=> c.option = "HTTP")

Required(c) == c.switchRequired \/ c.slowRequired

(* How the status of the manager and the phase of the session go together:  *)
(* the manager is off only when the session is, a session it waits for in a *)
(* switch has its ear, one it does not hear is being created.               *)
Agreeing(c) ==
  /\ c.status.mode = "OFF" => c.heeded /\ c.phase = "OFF"
  /\ c.switchTimer => c.status.mode = "SWITCHING"
  /\ c.status.mode = "SWITCHING" => c.heeded /\ c.phase \in {"CREATED", "FIRST_BINDING", "OFF", "SLEEP"}
  /\ c.status.mode = "ON" /\ c.heeded => c.phase \in {"OFF", "SLEEP", "FIRST_PAUSE", "FIRST_BINDING"}
  /\ ~c.heeded => c.phase \in {"OFF", "SLEEP", "CREATING", "CREATED"}
  /\ Required(c) <=> c.status.mode = "SWITCHING" /\ c.phase \in {"CREATED", "FIRST_BINDING"}
  /\ c.status.mode = "SWITCHING" /\ c.phase = "SLEEP" => c.http

(* A session that sleeps, and is heard, has a timer: no creation is sent or *)
(* delayed by a session the manager hears.                                  *)
Waking(c) == c.heeded /\ c.phase = "SLEEP" => c.timers[FALSE] > 0

(* The stream by the phase of the session. *)
Streaming(c) ==
  /\ c.stream = "open" => c.phase \in {"CREATED", "FIRST_BINDING"}
  /\ c.heeded /\ c.phase \in {"OFF", "SLEEP"} => c.stream = "none" /\ ~c.offlineTask
  /\ c.offlineTask => c.phase \in {"OFF", "SLEEP"}

(* The clients there can be, and those a timer just fired for. *)
Fired == {c \in Recoverless : Choices(c) /\ Fits(c, c.status) /\ Agreeing(c) /\ Streaming(c)}
Sound == {c \in Fired : Waking(c)}
IInv  == client \in Sound
-----------------------------------------------------------------------------
(* What the operations do.                                                 *)

(* The types of the fields that matter here. *)
LEMMA FieldTypes ==
  ASSUME NEW c \in Clients
  PROVE  /\ c.option \in Transports /\ c.status \in Statuses /\ c.phase \in SessionStates
         /\ c.frozen \in BOOLEAN /\ c.switchTimer \in BOOLEAN /\ c.heeded \in BOOLEAN
         /\ c.polling \in BOOLEAN /\ c.http \in BOOLEAN /\ c.forced \in BOOLEAN
         /\ c.recovery \in BOOLEAN /\ c.switchRequired \in BOOLEAN /\ c.slowRequired \in BOOLEAN
         /\ c.switchForced \in BOOLEAN /\ c.toWebSocket \in BOOLEAN /\ c.offlineTask \in BOOLEAN
         /\ c.timers \in [BOOLEAN -> 0..Many] /\ c.stream \in {"none", "sent", "open"}
         /\ c.ws \in WsStates /\ c.earlyOpen \in BOOLEAN
BY DEF Clients

(* A status is off, stable or a switch. *)
LEMMA StatusTypes ==
  /\ \A s \in Statuses : s.mode \in {"OFF", "ON", "SWITCHING"} /\ s.polling \in BOOLEAN /\ s.http \in BOOLEAN
  /\ Off \in Statuses /\ Off.mode = "OFF"
  /\ \A p, h \in BOOLEAN :
       /\ Stable(p, h) \in Statuses /\ Stable(p, h).mode = "ON"
       /\ Stable(p, h).polling = p /\ Stable(p, h).http = h
       /\ Switching(p, h) \in Statuses /\ Switching(p, h).mode = "SWITCHING"
       /\ Switching(p, h).polling = p /\ Switching(p, h).http = h
<1>1. Off \in Statuses /\ Off.mode = "OFF"
  BY DEF Statuses, Off
<1>2. ASSUME NEW p \in BOOLEAN, NEW h \in BOOLEAN
      PROVE  /\ Stable(p, h) \in Statuses /\ Stable(p, h).mode = "ON"
             /\ Stable(p, h).polling = p /\ Stable(p, h).http = h
             /\ Switching(p, h) \in Statuses /\ Switching(p, h).mode = "SWITCHING"
             /\ Switching(p, h).polling = p /\ Switching(p, h).http = h
  BY DEF Statuses, Stable, Switching
<1>3. ASSUME NEW s \in Statuses
      PROVE  s.mode \in {"OFF", "ON", "SWITCHING"} /\ s.polling \in BOOLEAN /\ s.http \in BOOLEAN
  <2>1. CASE s = Off
    BY <2>1 DEF Off
  <2>2. CASE s \in [mode : {"ON", "SWITCHING"}, polling : BOOLEAN, http : BOOLEAN]
    BY <2>2
  <2> QED
    BY <2>1, <2>2 DEF Statuses
<1> QED
  BY <1>1, <1>2, <1>3

(* No timer at all is no timer of either kind. *)
LEMMA NoTimersType == NoTimers \in [BOOLEAN -> 0..Many] /\ NoTimers[TRUE] = 0
BY DEF NoTimers, Many

(* A new status is not the one the session knows of. *)
LEMMA ChangeStatusDoes ==
  ASSUME NEW c \in Recoverless, NEW s \in Statuses
  PROVE  LET d == ChangeStatus(c, s)
         IN  /\ d \in Recoverless /\ SameSelf(c, d) /\ SameLife(c, d) /\ SameWishes(c, d)
             /\ d.status = s /\ ~d.heeded /\ ~d.switchTimer
<1>1. c \in Clients
  BY DEF Recoverless
<1>2. ChangeStatus(c, s) \in Clients
  BY <1>1 DEF ChangeStatus, Clients
<1> QED
  BY <1>1, <1>2 DEF ChangeStatus, Recoverless, Clients, SameSelf, SameLife, SameWishes

(* A new phase has no timers and no delayed creation. *)
LEMMA ChangePhaseDoes ==
  ASSUME NEW c \in Recoverless, NEW phase \in SessionStates
  PROVE  LET d == ChangePhase(c, phase)
         IN  /\ d \in Recoverless /\ SameSelf(c, d) /\ SameStatus(c, d) /\ SameWishes(c, d)
             /\ d.phase = phase /\ d.stream = c.stream
             /\ d.offlineTask => c.offlineTask /\ c.phase = phase
<1> DEFINE e == [c EXCEPT !.phase = phase, !.timers = NoTimers, !.offlineTask = FALSE]
<1>1. c \in Clients
  BY DEF Recoverless
<1>2. e \in Clients
  BY <1>1, NoTimersType, ZenonT(30) DEF Clients
<1>3. /\ e.phase = phase /\ ~e.offlineTask /\ e.timers = NoTimers /\ e.recovery = c.recovery
      /\ e.stream = c.stream /\ SameSelf(c, e) /\ SameStatus(c, e) /\ SameWishes(c, e)
  BY <1>1 DEF Clients, SameSelf, SameStatus, SameWishes
<1>4. e \in Recoverless
  BY <1>2, <1>3, NoTimersType DEF Recoverless
<1>5. SameSelf(c, c) /\ SameStatus(c, c) /\ SameWishes(c, c)
  BY DEF SameSelf, SameStatus, SameWishes
<1>6. ChangePhase(c, phase) = IF c.phase = phase THEN c ELSE e
  BY DEF ChangePhase
<1> HIDE DEF e
<1> QED
  BY <1>3, <1>4, <1>5, <1>6

(* One timer more, up to Many. *)
LEMMA OneMore ==
  ASSUME NEW T, NEW f \in [T -> 0..Many], NEW x \in T
  PROVE  LET g == [f EXCEPT ![x] = IF @ = Many THEN Many ELSE @ + 1]
         IN  g \in [T -> 0..Many] /\ g[x] > 0 /\ \A y \in T : y # x => g[y] = f[y]
BY DEF Many

(* A timeout is launched. *)
LEMMA LaunchTimeoutDoes ==
  ASSUME NEW c \in Recoverless
  PROVE  LET d == LaunchTimeout(c, FALSE)
         IN  /\ d \in Recoverless /\ SameSelf(c, d) /\ SameStatus(c, d) /\ SameWishes(c, d)
             /\ d.phase = c.phase /\ d.stream = c.stream /\ d.offlineTask = c.offlineTask
             /\ d.timers[FALSE] > 0
<1> DEFINE d == LaunchTimeout(c, FALSE)
<1>1. c \in Clients /\ c.timers \in [BOOLEAN -> 0..Many] /\ c.timers[TRUE] = 0
  BY FieldTypes DEF Recoverless
<1> DEFINE t == [c.timers EXCEPT ![FALSE] = IF @ = Many THEN Many ELSE @ + 1]
<1>2. t \in [BOOLEAN -> 0..Many] /\ t[FALSE] > 0 /\ t[TRUE] = c.timers[TRUE]
  BY <1>1, OneMore, ZenonT(30)
<1>3. d = [c EXCEPT !.timers = t]
  BY <1>1 DEF LaunchTimeout, Clients
<1> HIDE DEF t
<1>6. d \in Clients /\ d.timers = t
  BY <1>1, <1>2, <1>3, ZenonT(30) DEF Clients
<1>4. /\ d.phase = c.phase /\ d.stream = c.stream /\ d.offlineTask = c.offlineTask
      /\ d.recovery = c.recovery
      /\ SameSelf(c, d) /\ SameStatus(c, d) /\ SameWishes(c, d)
  BY <1>1, <1>3 DEF Clients, SameSelf, SameStatus, SameWishes
<1> HIDE DEF d
<1>5. d \in Recoverless /\ d.timers[FALSE] > 0
  BY <1>1, <1>2, <1>4, <1>6 DEF Recoverless
<1> QED
  BY <1>4, <1>5 DEF d

(* A reset forgets the switch that was asked for. *)
LEMMA ResetDoes ==
  ASSUME NEW c \in Recoverless
  PROVE  LET d == Reset(c)
         IN  d \in Recoverless /\ SameSelf(c, d) /\ SameStatus(c, d) /\ SameLife(c, d) /\ NoWishes(d)
<1>1. c \in Clients
  BY DEF Recoverless
<1>2. Reset(c) \in Clients
  BY <1>1 DEF Reset, Clients
<1>3. /\ SameSelf(c, Reset(c)) /\ SameStatus(c, Reset(c)) /\ NoWishes(Reset(c))
      /\ SameLife(c, Reset(c)) /\ Reset(c).recovery = c.recovery
  BY <1>1 DEF Reset, Clients, SameSelf, SameStatus, NoWishes, SameLife
<1> QED
  BY <1>2, <1>3 DEF Recoverless, SameLife

(* A session that ends, or goes to sleep, has stopped its stream. *)
LEMMA ShutdownDoes ==
  ASSUME NEW c \in Recoverless, NEW goToSleep \in BOOLEAN
  PROVE  LET d     == Shutdown(c, goToSleep)
             phase == IF goToSleep THEN "SLEEP" ELSE "OFF"
         IN  /\ d \in Recoverless /\ SameSelf(c, d) /\ SameStatus(c, d) /\ NoWishes(d)
             /\ d.phase = phase /\ d.stream = "none"
             /\ d.offlineTask => c.offlineTask /\ c.phase = phase
<1> DEFINE phase == IF goToSleep THEN "SLEEP" ELSE "OFF"
           r == Reset(c)
           p == ChangePhase(r, phase)
           d == [p EXCEPT !.stream = "none"]
<1>3. r \in Recoverless /\ SameSelf(c, r) /\ SameStatus(c, r) /\ NoWishes(r) /\ SameLife(c, r)
  BY ResetDoes
<1> HIDE DEF r
<1>5. phase \in SessionStates
  BY DEF SessionStates
<1> HIDE DEF phase
<1>6. /\ p \in Recoverless /\ SameSelf(r, p) /\ SameStatus(r, p) /\ SameWishes(r, p)
      /\ p.phase = phase /\ (p.offlineTask => r.offlineTask /\ r.phase = phase)
  BY <1>3, <1>5, ChangePhaseDoes
<1> HIDE DEF p
<1>7. /\ d \in Clients /\ d.recovery = p.recovery /\ d.timers = p.timers
      /\ SameSelf(p, d) /\ SameStatus(p, d) /\ SameWishes(p, d)
      /\ d.phase = p.phase /\ d.stream = "none" /\ d.offlineTask = p.offlineTask
  BY <1>6 DEF Recoverless, Clients, SameSelf, SameStatus, SameWishes
<1>8. d = Shutdown(c, goToSleep)
  BY DEF Shutdown, p, r, phase
<1> HIDE DEF d
<1>9. d \in Recoverless
  BY <1>6, <1>7 DEF Recoverless
<1>10. SameSelf(c, d) /\ SameStatus(c, d) /\ NoWishes(d)
  BY <1>3, <1>6, <1>7 DEF SameSelf, SameStatus, SameWishes, NoWishes
<1>11. d.phase = phase /\ d.stream = "none" /\ (d.offlineTask => c.offlineTask /\ c.phase = phase)
  BY <1>3, <1>6, <1>7 DEF SameLife
<1> QED
  BY <1>8, <1>9, <1>10, <1>11 DEF phase

(* The manager is told of the end of a session it still hears. *)
LEMMA OnSessionCloseDoes ==
  ASSUME NEW c \in Recoverless, NEW noRecovery \in BOOLEAN
  PROVE  LET d == OnSessionClose(c, noRecovery)
         IN  /\ d \in Recoverless /\ SameSelf(c, d) /\ SameLife(c, d) /\ SameWishes(c, d)
             /\ IF c.heeded
                THEN /\ d.status = IF noRecovery THEN Off ELSE c.status
                     /\ d.heeded /\ ~d.switchTimer
                ELSE SameStatus(c, d)
<1>1. CASE ~c.heeded
  BY <1>1 DEF OnSessionClose, SameSelf, SameLife, SameWishes, SameStatus
<1>2. CASE c.heeded
  <2> DEFINE s == IF noRecovery THEN Off ELSE c.status
             e == ChangeStatus(c, s)
             d == [e EXCEPT !.heeded = TRUE]
  <2>1. s \in Statuses
    BY StatusTypes, FieldTypes DEF Recoverless
  <2> HIDE DEF s
  <2>2. /\ e \in Recoverless /\ SameSelf(c, e) /\ SameLife(c, e) /\ SameWishes(c, e)
        /\ e.status = s /\ ~e.switchTimer
    BY <2>1, ChangeStatusDoes
  <2> HIDE DEF e
  <2>3. /\ d \in Clients /\ d.recovery = e.recovery
        /\ SameSelf(e, d) /\ SameLife(e, d) /\ SameWishes(e, d)
        /\ d.status = e.status /\ d.heeded /\ d.switchTimer = e.switchTimer
    BY <2>2 DEF Recoverless, Clients, SameSelf, SameLife, SameWishes
  <2>4. d = OnSessionClose(c, noRecovery)
    BY <1>2 DEF OnSessionClose, e, s
  <2> HIDE DEF d
  <2>5. d \in Recoverless
    BY <2>2, <2>3 DEF Recoverless, SameLife
  <2>6. SameSelf(c, d) /\ SameLife(c, d) /\ SameWishes(c, d)
    BY <2>2, <2>3 DEF SameSelf, SameLife, SameWishes
  <2> QED
    BY <1>2, <2>2, <2>3, <2>4, <2>5, <2>6 DEF s
<1> QED
  BY <1>1, <1>2, FieldTypes DEF Recoverless

(* The end of a session, for good or to be retried. *)
LEMMA CloseSessionDoes ==
  ASSUME NEW c \in Recoverless, NEW noRecovery \in BOOLEAN
  PROVE  LET d     == CloseSession(c, noRecovery)
             phase == IF noRecovery THEN "OFF" ELSE "SLEEP"
         IN  /\ d \in Recoverless /\ SameSelf(c, d) /\ NoWishes(d)
             /\ d.phase = phase /\ d.stream = "none"
             /\ d.offlineTask => c.offlineTask /\ c.phase = phase
             /\ IF c.heeded
                THEN /\ d.status = IF noRecovery THEN Off ELSE c.status
                     /\ d.heeded /\ ~d.switchTimer
                ELSE SameStatus(c, d)
<1> DEFINE e == OnSessionClose(c, noRecovery)
           d == Shutdown(e, ~noRecovery)
           phase == IF noRecovery THEN "OFF" ELSE "SLEEP"
<1>1. /\ e \in Recoverless /\ SameSelf(c, e) /\ SameLife(c, e) /\ SameWishes(c, e)
      /\ IF c.heeded
         THEN /\ e.status = IF noRecovery THEN Off ELSE c.status
              /\ e.heeded /\ ~e.switchTimer
         ELSE SameStatus(c, e)
  BY OnSessionCloseDoes
<1> HIDE DEF e
<1>2. /\ d \in Recoverless /\ SameSelf(e, d) /\ SameStatus(e, d) /\ NoWishes(d)
      /\ d.phase = phase /\ d.stream = "none"
      /\ d.offlineTask => e.offlineTask /\ e.phase = phase
  BY <1>1, ShutdownDoes, ZenonT(30)
<1>3. d = CloseSession(c, noRecovery)
  BY DEF CloseSession, e
<1> HIDE DEF d, phase
<1>4. SameSelf(c, d) /\ (d.offlineTask => c.offlineTask /\ c.phase = phase)
  BY <1>1, <1>2 DEF SameSelf, SameLife
<1>5. IF c.heeded
      THEN /\ d.status = IF noRecovery THEN Off ELSE c.status
           /\ d.heeded /\ ~d.switchTimer
      ELSE SameStatus(c, d)
  BY <1>1, <1>2 DEF SameStatus
<1> QED
  BY <1>2, <1>3, <1>4, <1>5 DEF phase
-----------------------------------------------------------------------------
(* A session created anew.                                                 *)

(* The early opening of a WebSocket changes nothing else. *)
LEMMA OpenEarlyDoes ==
  ASSUME NEW c \in Recoverless
  PROVE  LET d == OpenEarly(c)
         IN  /\ d \in Recoverless /\ SameSelf(c, d) /\ SameStatus(c, d)
             /\ SameLife(c, d) /\ SameWishes(c, d)
<1> DEFINE e == [c EXCEPT !.ws = "CONNECTING"]
<1>1. /\ e \in Clients /\ e.recovery = c.recovery /\ SameSelf(c, e) /\ SameStatus(c, e)
      /\ SameLife(c, e) /\ SameWishes(c, e)
  BY DEF Recoverless, Clients, WsStates, SameSelf, SameStatus, SameLife, SameWishes
<1>2. OpenEarly(c) \in {c, e}
  BY DEF OpenEarly
<1> HIDE DEF e
<1>3. e \in Recoverless
  BY <1>1 DEF Recoverless, SameLife
<1>4. SameSelf(c, c) /\ SameStatus(c, c) /\ SameLife(c, c) /\ SameWishes(c, c)
  BY DEF SameSelf, SameStatus, SameLife, SameWishes
<1> QED
  BY <1>1, <1>2, <1>3, <1>4

(* The request is sent, or is put off while offline. *)
LEMMA SendCreateDoes ==
  ASSUME NEW c \in Recoverless
  PROVE  LET d == SendCreate(c)
         IN  /\ d \in Recoverless /\ SameSelf(c, d) /\ SameStatus(c, d) /\ SameWishes(c, d)
             /\ d.phase = c.phase /\ d.timers = c.timers
             /\ \/ d.stream = c.stream /\ d.offlineTask
                \/ d.stream = "sent" /\ d.offlineTask = c.offlineTask
<1> DEFINE e == [c EXCEPT !.offlineTask = TRUE]
           f == [c EXCEPT !.stream = "sent", !.maybeOnline = @ /\ ~c.offline]
<1>1. /\ e \in Clients /\ e.recovery = c.recovery /\ SameSelf(c, e) /\ SameStatus(c, e) /\ SameWishes(c, e)
      /\ e.phase = c.phase /\ e.timers = c.timers /\ e.stream = c.stream /\ e.offlineTask
  BY DEF Recoverless, Clients, SameSelf, SameStatus, SameWishes
<1>2. /\ f \in Clients /\ f.recovery = c.recovery /\ SameSelf(c, f) /\ SameStatus(c, f) /\ SameWishes(c, f)
      /\ f.phase = c.phase /\ f.timers = c.timers /\ f.stream = "sent" /\ f.offlineTask = c.offlineTask
  BY ZenonT(30) DEF Recoverless, Clients, SameSelf, SameStatus, SameWishes
<1>3. SendCreate(c) \in {e, f}
  BY DEF SendCreate
<1> HIDE DEF e, f
<1>4. e \in Recoverless /\ f \in Recoverless
  BY <1>1, <1>2 DEF Recoverless
<1> QED
  BY <1>1, <1>2, <1>3, <1>4

(* The answer to the request is waited for, but not for ever. *)
LEMMA CreateSentDoes ==
  ASSUME NEW c \in Recoverless, c.phase \in {"OFF", "SLEEP"}
  PROVE  LET d == CreateSent(c)
         IN  /\ d \in Recoverless /\ SameSelf(c, d) /\ SameStatus(c, d) /\ SameWishes(c, d)
             /\ d.phase = "CREATING" /\ d.stream = c.stream /\ ~d.offlineTask
<1> DEFINE p == ChangePhase(c, "CREATING")
           t == LaunchTimeout(p, FALSE)
           d == OpenEarly(t)
<1>1. /\ p \in Recoverless /\ SameSelf(c, p) /\ SameStatus(c, p) /\ SameWishes(c, p)
      /\ p.phase = "CREATING" /\ p.stream = c.stream
      /\ p.offlineTask => c.offlineTask /\ c.phase = "CREATING"
  BY ChangePhaseDoes DEF SessionStates
<1> HIDE DEF p
<1>2. /\ t \in Recoverless /\ SameSelf(p, t) /\ SameStatus(p, t) /\ SameWishes(p, t)
      /\ t.phase = p.phase /\ t.stream = p.stream /\ t.offlineTask = p.offlineTask
  BY <1>1, LaunchTimeoutDoes
<1> HIDE DEF t
<1>3. /\ d \in Recoverless /\ SameSelf(t, d) /\ SameStatus(t, d)
      /\ SameLife(t, d) /\ SameWishes(t, d)
  BY <1>2, OpenEarlyDoes
<1>4. d = CreateSent(c)
  BY DEF CreateSent, t, p
<1> HIDE DEF d
<1>5. SameSelf(c, d) /\ SameStatus(c, d) /\ SameWishes(c, d)
  BY <1>1, <1>2, <1>3 DEF SameSelf, SameStatus, SameWishes
<1>6. d.phase = "CREATING" /\ d.stream = c.stream /\ ~d.offlineTask
  BY <1>1, <1>2, <1>3 DEF SameLife
<1> QED
  BY <1>3, <1>4, <1>5, <1>6

(* A session that is off or asleep is created, or put off. *)
LEMMA SessionCreateDoes ==
  ASSUME NEW c \in Recoverless, c.phase \in {"OFF", "SLEEP"}, c.stream = "none"
  PROVE  LET d == SessionCreate(c)
         IN  /\ d \in Recoverless /\ SameSelf(c, d) /\ SameStatus(c, d) /\ NoWishes(d)
             /\ d.phase \in {"OFF", "SLEEP", "CREATING"} /\ d.stream # "open"
             /\ d.offlineTask => d.phase # "CREATING"
<1> DEFINE r == Reset(c)
           e == SendCreate(r)
           f == CreateSent(e)
<1>1. r \in Recoverless /\ SameSelf(c, r) /\ SameStatus(c, r) /\ SameLife(c, r) /\ NoWishes(r)
  BY ResetDoes
<1>2. SessionCreate(c) = IF Delayed(c) THEN e ELSE f
  BY DEF SessionCreate
<1> HIDE DEF r
<1>3. /\ e \in Recoverless /\ SameSelf(r, e) /\ SameStatus(r, e) /\ SameWishes(r, e)
      /\ e.phase = r.phase /\ e.stream \in {r.stream, "sent"}
  BY <1>1, SendCreateDoes
<1> HIDE DEF e
<1>4. SameSelf(c, e) /\ SameStatus(c, e) /\ NoWishes(e) /\ e.phase = c.phase /\ e.stream # "open"
  BY <1>1, <1>3 DEF SameSelf, SameStatus, SameLife, SameWishes, NoWishes
<1>5. /\ f \in Recoverless /\ SameSelf(e, f) /\ SameStatus(e, f) /\ SameWishes(e, f)
      /\ f.phase = "CREATING" /\ f.stream = e.stream /\ ~f.offlineTask
  BY <1>3, <1>4, CreateSentDoes
<1> HIDE DEF f
<1>6. SameSelf(c, f) /\ SameStatus(c, f) /\ NoWishes(f) /\ f.stream # "open"
  BY <1>4, <1>5 DEF SameSelf, SameStatus, SameWishes, NoWishes
<1> QED
  BY <1>2, <1>3, <1>4, <1>5, <1>6

(* A session created anew is not heard until the manager hears of it. *)
LEMMA CreateNewDoes ==
  ASSUME NEW c \in Recoverless, IsAlive(c) \/ (c.phase = "OFF" /\ c.stream = "none"),
         NEW polling \in BOOLEAN, NEW http \in BOOLEAN
  PROVE  LET d == CreateNew(c, polling, http)
         IN  /\ d \in Recoverless /\ SameSelf(c, d) /\ NoWishes(d)
             /\ d.status = Stable(polling, http) /\ ~d.heeded /\ ~d.switchTimer
             /\ d.phase \in {"OFF", "SLEEP", "CREATING"} /\ d.stream # "open"
             /\ d.offlineTask => d.phase # "CREATING"
<1> DEFINE m == ManagerClose(c, FALSE)
           s == ChangeStatus(m, Stable(polling, http))
           d == SessionCreate(s)
<1>1. m \in Recoverless /\ SameSelf(c, m) /\ m.phase \in {"OFF", "SLEEP"} /\ m.stream = "none"
  <2>1. m = IF IsAlive(c) THEN CloseSession(c, FALSE) ELSE c
    BY DEF ManagerClose
  <2> HIDE DEF m
  <2>2. CASE IsAlive(c)
    BY <2>1, <2>2, CloseSessionDoes
  <2>3. CASE ~IsAlive(c)
    BY <2>1, <2>3 DEF SameSelf
  <2> QED
    BY <2>2, <2>3
<1> HIDE DEF m
<1>2. /\ s \in Recoverless /\ SameSelf(m, s) /\ SameLife(m, s)
      /\ s.status = Stable(polling, http) /\ ~s.heeded /\ ~s.switchTimer
  BY <1>1, StatusTypes, ChangeStatusDoes
<1> HIDE DEF s
<1>3. s.phase \in {"OFF", "SLEEP"} /\ s.stream = "none"
  BY <1>1, <1>2 DEF SameLife
<1>4. /\ d \in Recoverless /\ SameSelf(s, d) /\ SameStatus(s, d) /\ NoWishes(d)
      /\ d.phase \in {"OFF", "SLEEP", "CREATING"} /\ d.stream # "open"
      /\ d.offlineTask => d.phase # "CREATING"
  BY <1>2, <1>3, SessionCreateDoes
<1>5. d = CreateNew(c, polling, http)
  BY DEF CreateNew, s, m
<1> HIDE DEF d
<1>6. SameSelf(c, d) /\ d.status = Stable(polling, http) /\ ~d.heeded /\ ~d.switchTimer
  BY <1>1, <1>2, <1>4 DEF SameSelf, SameStatus
<1> QED
  BY <1>4, <1>5, <1>6

(* A new object, which the manager hears, in place of that of c; and one     *)
(* whose bind request is on its way, under the given status.                *)
Renewed(c, d, forced, http) ==
  /\ d.option = c.option /\ d.frozen = c.frozen
  /\ d.http = http /\ d.forced = forced /\ ~d.toWebSocket
  /\ d.heeded /\ ~d.offlineTask /\ NoWishes(d)
Fresh(c, d, forced, http) ==
  /\ Renewed(c, d, forced, http)
  /\ d.status = c.status /\ d.switchTimer = c.switchTimer /\ d.phase = "OFF"
Bound(c, d, forced, status) ==
  /\ Renewed(c, d, forced, status.http) /\ d.status = status /\ ~d.switchTimer
  /\ d.phase = "FIRST_PAUSE" /\ d.stream = "sent"

(* The Session that takes the place of another starts with nothing done.    *)
LEMMA NewObjectDoes ==
  ASSUME NEW c \in Recoverless, NEW polling \in BOOLEAN, NEW http \in BOOLEAN, NEW forced \in BOOLEAN
  PROVE  LET d == NewObject(c, polling, http, forced, FALSE)
         IN  d \in Recoverless /\ Fresh(c, d, forced, http)
<1> DEFINE d == NewObject(c, polling, http, forced, FALSE)
           opens == OpensEarly(c)
           r == [option |-> c.option, callbacks |-> c.callbacks, wsDisabled |-> c.wsDisabled,
                 offline |-> c.offline, status |-> c.status, frozen |-> c.frozen,
                 switchTimer |-> c.switchTimer, serverOpen |-> c.serverOpen,
                 heeded |-> TRUE, phase |-> "OFF", polling |-> polling, http |-> http,
                 forced |-> forced, earlyOpen |-> opens, recovery |-> FALSE,
                 switchRequired |-> FALSE, slowRequired |-> FALSE, switchForced |-> FALSE,
                 toWebSocket |-> FALSE, timers |-> NoTimers, offlineTask |-> FALSE,
                 maybeOnline |-> TRUE, stream |-> "none", binding |-> FALSE, ws |-> "NOT_CONNECTED"]
<1>1. c \in Clients /\ ~c.recovery /\ c.recovery \in BOOLEAN
  BY FieldTypes DEF Recoverless
<1>2. BeanRecovery(FALSE, c.recovery) = FALSE
  BY <1>1 DEF BeanRecovery
<1>3. opens \in BOOLEAN
  BY <1>1, OptionsAssumption DEF OpensEarly, Clients
<1>4. d = [c EXCEPT !.heeded = TRUE, !.phase = "OFF", !.polling = polling, !.http = http,
                    !.forced = forced, !.recovery = FALSE, !.earlyOpen = opens,
                    !.switchRequired = FALSE, !.slowRequired = FALSE, !.switchForced = FALSE,
                    !.toWebSocket = FALSE, !.timers = NoTimers, !.offlineTask = FALSE, !.maybeOnline = TRUE,
                    !.stream = "none", !.binding = FALSE, !.ws = "NOT_CONNECTED"]
  BY <1>2 DEF NewObject
<1> HIDE DEF d, opens
<1>5. d = r
  BY <1>1, <1>4 DEF Clients
<1>6. /\ c.option \in Transports /\ c.status \in Statuses /\ c.callbacks \in BOOLEAN
      /\ c.wsDisabled \in BOOLEAN /\ c.offline \in BOOLEAN /\ c.frozen \in BOOLEAN
      /\ c.switchTimer \in BOOLEAN /\ c.serverOpen \in BOOLEAN
  BY <1>1 DEF Clients
<1>7. r \in Clients
  BY <1>3, <1>6, NoTimersType DEF Clients, SessionStates, WsStates
<1>8. r.timers = NoTimers /\ ~r.recovery
  OBVIOUS
<1>9. Fresh(c, r, forced, http)
  BY DEF Fresh, Renewed, NoWishes
<1> HIDE DEF r
<1>10. d \in Recoverless
  BY <1>5, <1>7, <1>8, NoTimersType DEF Recoverless
<1> QED
  BY <1>5, <1>9, <1>10 DEF d

(* A session is bound by a new object, which the manager hears. *)
LEMMA BindSessionDoes ==
  ASSUME NEW c \in Recoverless, NEW forced \in BOOLEAN, NEW polling \in BOOLEAN, NEW http \in BOOLEAN
  PROVE  LET d == BindSession(c, forced, polling, http, FALSE)
         IN  d \in Recoverless /\ Bound(c, d, forced, Stable(polling, http))
<1> DEFINE s == ChangeStatus(c, Stable(polling, http))
           u == Shutdown(s, FALSE)
           n == NewObject(u, polling, http, forced, FALSE)
           p == ChangePhase(n, "FIRST_PAUSE")
           d == BindSessionExecution(p)
<1>1. s \in Recoverless /\ SameSelf(c, s) /\ s.status = Stable(polling, http) /\ ~s.switchTimer
  BY StatusTypes, ChangeStatusDoes
<1>2. u \in Recoverless /\ SameSelf(s, u) /\ SameStatus(s, u)
  <2> HIDE DEF s
  <2> QED
    BY <1>1, ShutdownDoes
<1>4. NewSession(s, polling, http, forced, FALSE) = n
  BY DEF NewSession
<1>6. BindSession(c, forced, polling, http, FALSE) = SessionBind(n)
  BY <1>4 DEF BindSession
<1> HIDE DEF s, u
<1>3. /\ n \in Recoverless /\ Renewed(u, n, forced, http)
      /\ n.status = u.status /\ n.switchTimer = u.switchTimer /\ n.phase = "OFF"
  <2>1. n \in Recoverless /\ Fresh(u, n, forced, http)
    BY <1>2, NewObjectDoes
  <2> QED
    BY <2>1 DEF Fresh
<1> HIDE DEF n
<1>5. SessionBind(n) = d
  BY <1>3 DEF SessionBind
<1>7. /\ p \in Recoverless /\ SameSelf(n, p) /\ SameStatus(n, p) /\ SameWishes(n, p)
      /\ p.phase = "FIRST_PAUSE" /\ (p.offlineTask => n.offlineTask)
  BY <1>3, ChangePhaseDoes DEF SessionStates
<1> HIDE DEF p
<1>8. /\ d \in Clients /\ d.recovery = p.recovery /\ d.timers = p.timers
      /\ SameSelf(p, d) /\ SameStatus(p, d) /\ SameWishes(p, d)
      /\ d.phase = p.phase /\ d.stream = "sent" /\ d.offlineTask = p.offlineTask
  BY <1>7, ZenonT(30) DEF BindSessionExecution, Recoverless, Clients, SameSelf, SameStatus, SameWishes
<1> HIDE DEF d
<1>9. d \in Recoverless
  BY <1>7, <1>8 DEF Recoverless
<1>10. d.status = Stable(polling, http) /\ ~d.switchTimer /\ Stable(polling, http).http = http
  BY <1>1, <1>2, <1>3, <1>7, <1>8, StatusTypes DEF SameStatus
<1>11. /\ d.option = c.option /\ d.frozen = c.frozen
       /\ d.http = http /\ d.forced = forced /\ ~d.toWebSocket
  BY <1>1, <1>2, <1>3, <1>7, <1>8 DEF SameSelf, Renewed
<1>12. d.heeded /\ ~d.offlineTask /\ NoWishes(d)
  BY <1>3, <1>7, <1>8 DEF SameStatus, SameWishes, Renewed, NoWishes
<1>13. Bound(c, d, forced, Stable(polling, http))
  BY <1>7, <1>8, <1>10, <1>11, <1>12 DEF Bound, Renewed
<1> QED
  BY <1>5, <1>6, <1>9, <1>13
-----------------------------------------------------------------------------
(* How the operations keep the manager and the session together.           *)

(* The session created anew by a manager that keeps the forced transport.   *)
LEMMA CreateNewIsSound ==
  ASSUME NEW c \in Recoverless, Choices(c), IsAlive(c) \/ (c.phase = "OFF" /\ c.stream = "none"),
         NEW polling \in BOOLEAN, NEW http \in BOOLEAN, Fits(c, Stable(polling, http))
  PROVE  CreateNew(c, polling, http) \in Sound
<1> DEFINE d == CreateNew(c, polling, http)
<1>1. /\ d \in Recoverless /\ SameSelf(c, d) /\ NoWishes(d)
      /\ d.status = Stable(polling, http) /\ ~d.heeded /\ ~d.switchTimer
      /\ d.phase \in {"OFF", "SLEEP", "CREATING"} /\ d.stream # "open"
      /\ d.offlineTask => d.phase # "CREATING"
  BY CreateNewDoes
<1> HIDE DEF d
<1>2. d.status.mode = "ON"
  BY <1>1, StatusTypes
<1>3. Choices(d)
  BY <1>1 DEF Choices, ForcedWhole, SameSelf, NoWishes
<1>4. Fits(d, d.status)
  BY <1>1 DEF Fits, ForcedWhole, SameSelf
<1>5. Agreeing(d)
  BY <1>1, <1>2 DEF Agreeing, Required, NoWishes
<1>6. Waking(d) /\ Streaming(d)
  BY <1>1 DEF Waking, Streaming
<1> QED
  BY <1>1, <1>3, <1>4, <1>5, <1>6 DEF Sound, Fired, d

(* The session bound by a manager that keeps the forced transport. *)
LEMMA BindSessionIsSound ==
  ASSUME NEW c \in Recoverless, Choices(c),
         NEW forced \in BOOLEAN, forced => ComboForced(c.option),
         NEW polling \in BOOLEAN, NEW http \in BOOLEAN, Fits(c, Stable(polling, http))
  PROVE  BindSession(c, forced, polling, http, FALSE) \in Sound
<1> DEFINE d == BindSession(c, forced, polling, http, FALSE)
<1>0. d \in Recoverless /\ Bound(c, d, forced, Stable(polling, http))
  BY BindSessionDoes
<1> HIDE DEF d
<1>1. /\ d.option = c.option /\ d.frozen = c.frozen
      /\ d.http = Stable(polling, http).http /\ d.forced = forced /\ ~d.toWebSocket
      /\ d.status = Stable(polling, http) /\ ~d.switchTimer /\ d.heeded
      /\ d.phase = "FIRST_PAUSE" /\ d.stream = "sent" /\ ~d.offlineTask /\ NoWishes(d)
  BY <1>0 DEF Bound, Renewed
<1>2. d.status.mode = "ON" /\ d.status.http = d.http
  BY <1>1, StatusTypes
<1>3. Fits(d, d.status)
  BY <1>1 DEF Fits, ForcedWhole
<1>4. ForcedWhole(d) => (d.http <=> d.option = "HTTP")
  BY <1>1, <1>2, <1>3 DEF Fits
<1>5. Choices(d)
  BY <1>1, <1>4 DEF Choices, ForcedWhole, NoWishes
<1>6. Agreeing(d)
  BY <1>1, <1>2 DEF Agreeing, Required, NoWishes
<1>7. Waking(d) /\ Streaming(d)
  BY <1>1 DEF Waking, Streaming
<1> QED
  BY <1>0, <1>3, <1>5, <1>6, <1>7 DEF Sound, Fired, d

(* The next transport keeps to the frozen one. *)
LEMMA NextSensePhaseFits ==
  ASSUME NEW c \in Recoverless, IsAlive(c), Fits(c, c.status)
  PROVE  LET next == NextSensePhase(c)
         IN  /\ next \in Statuses /\ next.mode = "SWITCHING" /\ Fits(c, next)
             /\ c.status.mode = "SWITCHING" => next = c.status
<1> DEFINE next == NextSensePhase(c)
<1>1. /\ c.status \in Statuses /\ c.frozen \in BOOLEAN
      /\ c.status.mode \in {"OFF", "ON", "SWITCHING"} /\ c.status.mode # "OFF"
      /\ c.status.polling \in BOOLEAN /\ c.status.http \in BOOLEAN
  BY FieldTypes, StatusTypes DEF Recoverless, IsAlive
<1>2. CASE c.status.mode # "ON"
  <2>1. next = c.status
    BY <1>2 DEF NextSensePhase
  <2> QED
    BY <1>1, <1>2, <2>1
<1>3. CASE c.status.mode = "ON"
  <2>1. /\ Switching(TRUE, TRUE) \in Statuses /\ Switching(TRUE, TRUE).mode = "SWITCHING"
        /\ Switching(TRUE, TRUE).http
        /\ Switching(FALSE, FALSE) \in Statuses /\ Switching(FALSE, FALSE).mode = "SWITCHING"
        /\ ~Switching(FALSE, FALSE).http
        /\ Switching(FALSE, ~c.frozen) \in Statuses /\ Switching(FALSE, ~c.frozen).mode = "SWITCHING"
        /\ (Switching(FALSE, ~c.frozen).http <=> ~c.frozen)
    BY <1>1, StatusTypes
  <2>2. CASE c.status.http /\ (c.status.polling => c.frozen)
    <3>1. next = Switching(TRUE, TRUE)
      BY <1>1, <1>3, <2>2 DEF NextSensePhase
    <3> QED
      BY <1>1, <1>3, <2>1, <2>2, <3>1 DEF Fits
  <2>3. CASE c.status.polling /\ ~(c.status.http /\ c.frozen)
    <3>1. next = Switching(FALSE, FALSE)
      BY <1>1, <1>3, <2>3 DEF NextSensePhase
    <3> QED
      BY <1>1, <1>3, <2>1, <2>3, <3>1 DEF Fits
  <2>4. CASE ~c.status.polling /\ ~c.status.http
    <3>1. next = Switching(FALSE, ~c.frozen)
      BY <1>1, <1>3, <2>4 DEF NextSensePhase
    <3> QED
      BY <1>1, <1>3, <2>1, <2>4, <3>1 DEF Fits
  <2> QED
    BY <1>1, <2>2, <2>3, <2>4
<1> QED
  BY <1>2, <1>3

(* A fallback of the session the manager hears creates it anew. *)
LEMMA StreamSenseIsSound ==
  ASSUME NEW c \in Recoverless, Choices(c), IsAlive(c), Fits(c, c.status), c.heeded
  PROVE  StreamSense(c) \in Sound
<1> DEFINE next == NextSensePhase(c)
<1>1. next \in Statuses /\ next.mode = "SWITCHING" /\ Fits(c, next)
  BY NextSensePhaseFits
<1>2. StreamSense(c) = IF next = Off THEN c ELSE CreateNew(c, next.polling, next.http)
  BY DEF StreamSense
<1> HIDE DEF next
<1>3. next # Off /\ next.polling \in BOOLEAN /\ next.http \in BOOLEAN
  BY <1>1, StatusTypes
<1>4. Fits(c, Stable(next.polling, next.http))
  BY <1>1, <1>3, StatusTypes DEF Fits
<1> QED
  BY <1>2, <1>3, <1>4, CreateNewIsSound

(* So does a retry; while switching it goes to HTTP, forced or not. *)
LEMMA RetryIsSound ==
  ASSUME NEW c \in Recoverless, Choices(c), IsAlive(c), Fits(c, c.status), c.heeded,
         c.status.mode = "SWITCHING" /\ ForcedWhole(c) => c.option = "HTTP"
  PROVE  Retry(c) \in Sound
<1>0. c.status \in Statuses /\ c.status.mode # "OFF"
  BY FieldTypes DEF Recoverless, IsAlive
<1>1. /\ c.status.mode \in {"ON", "SWITCHING"}
      /\ c.status.polling \in BOOLEAN /\ c.status.http \in BOOLEAN
  BY <1>0, StatusTypes
<1>2. CASE c.status.mode = "ON"
  <2>1. Retry(c) = CreateNew(c, c.status.polling, c.status.http)
    BY <1>1, <1>2 DEF Retry
  <2>2. Fits(c, Stable(c.status.polling, c.status.http))
    BY <1>1, <1>2, StatusTypes DEF Fits
  <2> QED
    BY <1>1, <2>1, <2>2, CreateNewIsSound
<1>3. CASE c.status.mode = "SWITCHING"
  <2>1. Retry(c) = CreateNew(c, TRUE, TRUE)
    BY <1>1, <1>3 DEF Retry
  <2>2. Fits(c, Stable(TRUE, TRUE))
    BY <1>1, <1>3, StatusTypes DEF Fits
  <2> QED
    BY <2>1, <2>2, CreateNewIsSound
<1> QED
  BY <1>1, <1>2, <1>3

(* What a session asked to switch must not be at: a stream that delivers, a *)
(* delayed creation and a pending switch go with the right phases.          *)
Steady(c) ==
  /\ c.stream = "open" => c.phase \in {"CREATED", "FIRST_BINDING"}
  /\ c.offlineTask => c.phase \in {"OFF", "SLEEP"}
  /\ Required(c) => c.phase \in {"CREATED", "FIRST_BINDING"}

(* Which a client in order is not. *)
LEMMA FiredIsSteady ==
  ASSUME NEW c \in Fired
  PROVE  Steady(c)
BY DEF Fired, Steady, Agreeing, Streaming

(* A manager that is switching asks the session, and is heard: the session  *)
(* remembers the switch if it is bound, and makes it at once if it is not.  *)
LEMMA RequestSwitchIsSound ==
  ASSUME NEW c \in Recoverless, Choices(c), c.status.mode = "SWITCHING", Fits(c, c.status), Steady(c),
         NEW forced \in BOOLEAN, forced => ComboForced(c.option)
  PROVE  RequestSwitch(c, forced, FALSE) \in Sound
<1> DEFINE d == [c EXCEPT !.heeded = TRUE]
           e == [d EXCEPT !.slowRequired = FALSE]
           f == [e EXCEPT !.switchRequired = TRUE, !.switchForced = forced]
<1>1. /\ d \in Clients /\ d.recovery = c.recovery /\ SameSelf(c, d) /\ SameLife(c, d) /\ SameWishes(c, d)
      /\ d.status = c.status /\ d.heeded
  BY DEF Recoverless, Clients, SameSelf, SameLife, SameWishes
<1>2. RequestSwitch(c, forced, FALSE) =
        CASE d.switchRequired                        -> d
          [] ~d.switchRequired /\ d.phase \in {"CREATING", "SLEEP", "OFF"} -> StreamSense(e)
          [] ~d.switchRequired /\ d.phase = "FIRST_PAUSE" -> SwitchReady(e, forced, FALSE)
          [] OTHER -> f
  BY DEF RequestSwitch
<1> HIDE DEF d
<1>3. /\ e \in Clients /\ e.recovery = d.recovery /\ SameSelf(d, e) /\ SameLife(d, e) /\ SameStatus(d, e)
      /\ e.switchRequired = d.switchRequired /\ e.switchForced = d.switchForced
  BY <1>1, ZenonT(30) DEF Recoverless, Clients, SameSelf, SameLife, SameStatus
<1> HIDE DEF e
<1>4. /\ f \in Clients /\ f.recovery = e.recovery /\ SameSelf(e, f) /\ SameLife(e, f) /\ SameStatus(e, f)
      /\ f.switchRequired /\ (f.switchForced <=> forced)
  <2>1. f \in Clients
    BY <1>3 DEF Clients
  <2>2. f.recovery = e.recovery /\ f.switchRequired /\ (f.switchForced <=> forced)
    BY <1>3 DEF Clients
  <2>3. SameSelf(e, f) /\ SameLife(e, f) /\ SameStatus(e, f)
    BY <1>3 DEF Clients, SameSelf, SameLife, SameStatus
  <2> QED
    BY <2>1, <2>2, <2>3
<1> HIDE DEF f
<1>5. d \in Recoverless /\ e \in Recoverless /\ f \in Recoverless
  BY <1>1, <1>3, <1>4 DEF Recoverless, SameLife
<1>6. Choices(d) /\ Fits(d, d.status)
  BY <1>1 DEF Choices, Fits, ForcedWhole, SameSelf, SameWishes
<1>7. Choices(e) /\ Fits(e, e.status) /\ e.status.mode = "SWITCHING" /\ e.heeded
  BY <1>1, <1>3, <1>6 DEF Choices, Fits, ForcedWhole, SameSelf, SameStatus
<1>8. Choices(f) /\ Fits(f, f.status) /\ f.status.mode = "SWITCHING" /\ f.heeded
  BY <1>1, <1>3, <1>4, <1>7 DEF Choices, Fits, ForcedWhole, SameSelf, SameStatus
<1>9. CASE d.switchRequired
  <2>1. d.phase \in {"CREATED", "FIRST_BINDING"} /\ ~d.offlineTask /\ Required(d)
    BY <1>1, <1>9 DEF Steady, Required, SameLife, SameWishes
  <2>2. Agreeing(d)
    BY <1>1, <2>1 DEF Agreeing
  <2>3. Waking(d) /\ Streaming(d)
    BY <2>1 DEF Waking, Streaming
  <2> QED
    BY <1>2, <1>5, <1>6, <1>9, <2>2, <2>3 DEF Sound, Fired
<1>10. CASE ~d.switchRequired /\ d.phase \in {"CREATING", "SLEEP", "OFF"}
  <2>1. StreamSense(e) \in Sound
    BY <1>5, <1>7, StreamSenseIsSound DEF IsAlive
  <2> QED
    BY <1>2, <1>10, <2>1
<1>11. CASE ~d.switchRequired /\ d.phase = "FIRST_PAUSE"
  <2>0. e.status.polling \in BOOLEAN /\ e.status.http \in BOOLEAN
    <3>1. e.status \in Statuses
      BY <1>3, FieldTypes
    <3> QED
      BY <3>1, StatusTypes
  <2>1. Fits(e, Stable(e.status.polling, e.status.http))
    BY <1>7, <2>0, StatusTypes DEF Fits
  <2>2. SwitchReady(e, forced, FALSE) = BindSession(e, forced, e.status.polling, e.status.http, FALSE)
    BY <1>7 DEF SwitchReady
  <2>3. forced => ComboForced(e.option)
    BY <1>1, <1>3 DEF SameSelf
  <2>4. BindSession(e, forced, e.status.polling, e.status.http, FALSE) \in Sound
    BY <1>5, <1>7, <2>0, <2>1, <2>3, BindSessionIsSound
  <2>5. d.phase \notin {"CREATING", "SLEEP", "OFF"}
    BY <1>11
  <2> QED
    BY <1>2, <1>11, <2>2, <2>4, <2>5
<1>12. CASE ~d.switchRequired /\ d.phase \notin {"CREATING", "SLEEP", "OFF", "FIRST_PAUSE"}
  <2>1. f.phase \in {"CREATED", "FIRST_BINDING"} /\ ~f.offlineTask
    BY <1>1, <1>3, <1>4, <1>12, FieldTypes DEF Steady, SameLife, SessionStates
  <2>2. Agreeing(f)
    BY <1>4, <1>8, <2>1 DEF Agreeing, Required
  <2>3. Waking(f) /\ Streaming(f)
    BY <2>1 DEF Waking, Streaming
  <2>4. RequestSwitch(c, forced, FALSE) = f
    BY <1>2, <1>12
  <2> QED
    BY <1>5, <1>8, <2>2, <2>3, <2>4 DEF Sound, Fired
<1> QED
  BY <1>9, <1>10, <1>11, <1>12

(* A live session is switched as the application asks. *)
LEMMA SwitchToIsSound ==
  ASSUME NEW c \in Recoverless, Choices(c), Steady(c),
         NEW polling \in BOOLEAN, NEW http \in BOOLEAN, Fits(c, Switching(polling, http)),
         NEW forced \in BOOLEAN, forced => ComboForced(c.option)
  PROVE  SwitchTo(c, polling, http, forced, FALSE) \in Sound
<1> DEFINE s == ChangeStatus(c, Switching(polling, http))
<1>1. /\ s \in Recoverless /\ SameSelf(c, s) /\ SameLife(c, s) /\ SameWishes(c, s)
      /\ s.status = Switching(polling, http)
  BY StatusTypes, ChangeStatusDoes
<1>2. SwitchTo(c, polling, http, forced, FALSE) = RequestSwitch(s, forced, FALSE)
  BY DEF SwitchTo
<1> HIDE DEF s
<1>3. s.status.mode = "SWITCHING"
  BY <1>1, StatusTypes
<1>4. Choices(s) /\ Fits(s, s.status) /\ (forced => ComboForced(s.option))
  BY <1>1 DEF Choices, Fits, ForcedWhole, SameSelf, SameWishes
<1>5. Steady(s)
  BY <1>1 DEF Steady, Required, SameLife, SameWishes
<1> QED
  BY <1>1, <1>2, <1>3, <1>4, <1>5, RequestSwitchIsSound

(* A session is asked for, as ForcedTransport says. *)
LEMMA CreateIsSound ==
  ASSUME NEW c \in Fired, NEW frozen \in BOOLEAN, frozen => ForcedWhole(c),
         NEW combo \in BOOLEAN, combo => ComboForced(c.option),
         NEW polling \in BOOLEAN, NEW http \in BOOLEAN,
         ForcedWhole(c) => frozen /\ (http <=> c.option = "HTTP")
  PROVE  Create(c, frozen, combo, polling, http, FALSE) \in Sound
<1> DEFINE d == [c EXCEPT !.frozen = frozen]
<1>1. c \in Recoverless /\ c \in Clients /\ Choices(c) /\ Agreeing(c) /\ Streaming(c) /\ Steady(c)
  BY FiredIsSteady DEF Fired, Recoverless
<1>2. /\ d \in Clients /\ d.recovery = c.recovery /\ SameLife(c, d) /\ SameWishes(c, d) /\ SameStatus(c, d)
      /\ d.option = c.option /\ d.forced = c.forced /\ d.http = c.http
      /\ d.toWebSocket = c.toWebSocket /\ d.frozen = frozen
  BY <1>1 DEF Clients, SameLife, SameWishes, SameStatus
<1>3. Create(c, frozen, combo, polling, http, FALSE)
        = IF IsAlive(d) THEN SwitchTo(d, polling, http, combo, FALSE) ELSE CreateNew(d, polling, http)
  BY DEF Create
<1> HIDE DEF d
<1>4. d \in Recoverless
  BY <1>1, <1>2 DEF Recoverless, SameLife
<1>5. Choices(d)
  BY <1>1, <1>2 DEF Choices, ForcedWhole, SameWishes
<1>6. Fits(d, Switching(polling, http)) /\ Fits(d, Stable(polling, http)) /\ (combo => ComboForced(d.option))
  BY <1>2, StatusTypes DEF Fits, ForcedWhole
<1>7. Steady(d)
  BY <1>1, <1>2 DEF Steady, Required, SameLife, SameWishes
<1>8. CASE IsAlive(d)
  BY <1>3, <1>4, <1>5, <1>6, <1>7, <1>8, SwitchToIsSound
<1>9. CASE ~IsAlive(d)
  <2>1. d.phase = "OFF" /\ d.stream = "none"
    BY <1>1, <1>2, <1>9 DEF IsAlive, Agreeing, Streaming, SameStatus, SameLife
  <2> QED
    BY <1>3, <1>4, <1>5, <1>6, <1>9, <2>1, CreateNewIsSound
<1> QED
  BY <1>8, <1>9

(* A session heard in its first binding switches to the next transport. *)
LEMMA StreamSenseSwitchIsSound ==
  ASSUME NEW c \in Fired, c.phase = "FIRST_BINDING", ~Required(c)
  PROVE  StreamSenseSwitch(c) \in Sound
<1> DEFINE next == NextSensePhase(c)
           gives == c.phase = "FIRST_BINDING" /\ c.status = Stable(FALSE, FALSE) /\ next = Switching(FALSE, TRUE)
           g == [c EXCEPT !.wsDisabled = TRUE]
           d == IF gives THEN g ELSE c
           s == ChangeStatus(d, next)
           e == [s EXCEPT !.switchTimer = TRUE]
<1>1. /\ c \in Recoverless /\ c \in Clients /\ c.recovery = FALSE
      /\ Choices(c) /\ Agreeing(c) /\ Fits(c, c.status) /\ Steady(c)
  BY FiredIsSteady, FieldTypes DEF Fired, Recoverless
<1>2. c.heeded /\ IsAlive(c)
  BY <1>1, FieldTypes DEF Agreeing, IsAlive
<1>3. next \in Statuses /\ next.mode = "SWITCHING" /\ Fits(c, next) /\ next # Off
  BY <1>1, <1>2, NextSensePhaseFits, StatusTypes
<1>4. StreamSenseSwitch(c) = RequestSwitch(e, FALSE, FALSE)
  BY <1>1, <1>2, <1>3 DEF StreamSenseSwitch
<1>5. /\ g \in Clients /\ g.recovery = c.recovery /\ SameSelf(c, g) /\ SameLife(c, g)
      /\ SameWishes(c, g)
  BY <1>1 DEF Clients, SameSelf, SameLife, SameWishes
<1> HIDE DEF g, next, gives
<1>6. d \in Recoverless /\ SameSelf(c, d) /\ SameLife(c, d) /\ SameWishes(c, d)
  <2>1. g \in Recoverless
    BY <1>1, <1>5 DEF Recoverless, SameLife
  <2>2. SameSelf(c, c) /\ SameLife(c, c) /\ SameWishes(c, c)
    BY DEF SameSelf, SameLife, SameWishes
  <2>3. d \in {c, g}
    OBVIOUS
  <2> HIDE DEF d
  <2> QED
    BY <1>1, <1>5, <2>1, <2>2, <2>3
<1> HIDE DEF d
<1>7. /\ s \in Recoverless /\ SameSelf(d, s) /\ SameLife(d, s) /\ SameWishes(d, s)
      /\ s.status = next
  BY <1>3, <1>6, ChangeStatusDoes
<1> HIDE DEF s
<1>8. /\ e \in Clients /\ e.recovery = s.recovery /\ e.status = s.status
      /\ SameSelf(s, e) /\ SameLife(s, e) /\ SameWishes(s, e)
  BY <1>7 DEF Recoverless, Clients, SameSelf, SameLife, SameWishes
<1> HIDE DEF e
<1>9. e \in Recoverless
  BY <1>7, <1>8 DEF Recoverless, SameLife
<1>10. SameSelf(c, e) /\ SameLife(c, e) /\ SameWishes(c, e) /\ e.status = next
  BY <1>6, <1>7, <1>8 DEF SameSelf, SameLife, SameWishes
<1>11. Choices(e) /\ Fits(e, e.status) /\ e.status.mode = "SWITCHING"
  BY <1>1, <1>3, <1>10 DEF Choices, Fits, ForcedWhole, SameSelf, SameWishes
<1>12. Steady(e)
  BY <1>1, <1>10 DEF Steady, Required, SameLife, SameWishes
<1> QED
  BY <1>4, <1>9, <1>11, <1>12, RequestSwitchIsSound

(* Slowing down goes to polling over the same transport. *)
LEMMA NextSlowPhaseFits ==
  ASSUME NEW c \in Recoverless, Fits(c, c.status), NextSlowPhase(c) # Off
  PROVE  LET next == NextSlowPhase(c)
         IN  next \in Statuses /\ next.mode = "SWITCHING" /\ Fits(c, next)
<1> DEFINE next == NextSlowPhase(c)
<1>1. /\ Switching(TRUE, FALSE) \in Statuses /\ Switching(TRUE, FALSE).mode = "SWITCHING"
      /\ ~Switching(TRUE, FALSE).http
      /\ Switching(TRUE, TRUE) \in Statuses /\ Switching(TRUE, TRUE).mode = "SWITCHING"
      /\ Switching(TRUE, TRUE).http
      /\ Stable(FALSE, FALSE).mode = "ON" /\ ~Stable(FALSE, FALSE).http
  BY StatusTypes
<1>2. \A s \in {Stable(FALSE, TRUE), Switching(FALSE, TRUE), Switching(TRUE, TRUE)} : s.mode # "OFF" /\ s.http
  BY StatusTypes
<1>3. CASE c.status = Stable(FALSE, FALSE)
  <2>0. c.status \notin {Stable(FALSE, TRUE), Switching(FALSE, TRUE), Switching(TRUE, TRUE)}
    BY <1>1, <1>2, <1>3
  <2>1. next = Switching(TRUE, FALSE)
    BY <1>3, <2>0 DEF NextSlowPhase
  <2> QED
    BY <1>1, <1>3, <2>1 DEF Fits
<1>4. CASE c.status \in {Stable(FALSE, TRUE), Switching(FALSE, TRUE), Switching(TRUE, TRUE)}
  <2>0. c.status # Stable(FALSE, FALSE)
    BY <1>1, <1>2, <1>4
  <2>1. next = Switching(TRUE, TRUE)
    BY <1>4, <2>0 DEF NextSlowPhase
  <2> QED
    BY <1>1, <1>2, <1>4, <2>1 DEF Fits
<1> QED
  BY <1>3, <1>4 DEF NextSlowPhase

(* A session found slow, and not told to switch yet, is. *)
LEMMA SlowRequiredIsSound ==
  ASSUME NEW c \in Sound, c.phase \in {"CREATED", "FIRST_BINDING"}, ~Required(c)
  PROVE  SlowRequired(c) \in Sound
<1> DEFINE next == NextSlowPhase(c)
           s == ChangeStatus(c, next)
           e == [s EXCEPT !.switchTimer = TRUE]
           d == [e EXCEPT !.heeded = TRUE]
           f == [d EXCEPT !.slowRequired = TRUE]
<1>1. c \in Recoverless /\ Choices(c) /\ Agreeing(c) /\ Fits(c, c.status) /\ Steady(c)
  BY FiredIsSteady DEF Sound, Fired
<1>2. CASE ~c.heeded \/ next = Off
  BY <1>2 DEF SlowRequired
<1>3. CASE c.heeded /\ next # Off
  <2>1. next \in Statuses /\ next.mode = "SWITCHING" /\ Fits(c, next)
    BY <1>1, <1>3, NextSlowPhaseFits
  <2>2. SlowRequired(c) = RequestSlow(e)
    BY <1>3 DEF SlowRequired
  <2>3. RequestSlow(e) = IF d.slowRequired THEN d
                         ELSE IF d.phase \in {"CREATING", "SLEEP", "OFF"} THEN Shutdown(d, FALSE)
                         ELSE IF d.phase = "FIRST_PAUSE" THEN SlowReady(d)
                         ELSE f
    BY DEF RequestSlow
  <2> HIDE DEF next
  <2>4. /\ s \in Recoverless /\ SameSelf(c, s) /\ SameLife(c, s) /\ SameWishes(c, s)
        /\ s.status = next
    BY <1>1, <2>1, ChangeStatusDoes
  <2> HIDE DEF s
  <2>5. /\ e \in Clients /\ e.recovery = s.recovery /\ e.status = s.status
        /\ SameSelf(s, e) /\ SameLife(s, e) /\ SameWishes(s, e)
    BY <2>4 DEF Recoverless, Clients, SameSelf, SameLife, SameWishes
  <2> HIDE DEF e
  <2>6. /\ d \in Clients /\ d.recovery = e.recovery /\ d.status = e.status /\ d.heeded
        /\ SameSelf(e, d) /\ SameLife(e, d) /\ SameWishes(e, d)
    BY <2>5 DEF Clients, SameSelf, SameLife, SameWishes
  <2> HIDE DEF d
  <2>7. /\ f \in Clients /\ f.recovery = d.recovery /\ f.status = d.status /\ f.heeded = d.heeded
        /\ SameSelf(d, f) /\ SameLife(d, f)
        /\ f.slowRequired /\ f.switchForced = d.switchForced
    BY <2>6 DEF Clients, SameSelf, SameLife
  <2> HIDE DEF f
  <2>8. f \in Recoverless
    BY <2>4, <2>5, <2>6, <2>7 DEF Recoverless, SameLife
  <2>9. SameSelf(c, f) /\ SameLife(c, f) /\ SameWishes(c, d) /\ f.switchForced = c.switchForced
    BY <2>4, <2>5, <2>6, <2>7 DEF SameSelf, SameLife, SameWishes
  <2>10. f.status = next /\ f.heeded /\ f.phase \in {"CREATED", "FIRST_BINDING"} /\ ~f.offlineTask
    BY <1>1, <2>4, <2>5, <2>6, <2>7, <2>9 DEF SameLife, Steady
  <2>11. Choices(f) /\ Fits(f, f.status)
    BY <1>1, <2>1, <2>9, <2>10 DEF Choices, Fits, ForcedWhole, SameSelf
  <2>12. Agreeing(f)
    BY <2>1, <2>7, <2>10 DEF Agreeing, Required
  <2>13. Waking(f) /\ Streaming(f)
    BY <2>10 DEF Waking, Streaming
  <2>14. ~d.slowRequired /\ d.phase \in {"CREATED", "FIRST_BINDING"}
    BY <2>7, <2>9, <2>10 DEF Required, SameWishes, SameLife
  <2>15. SlowRequired(c) = f
    BY <2>2, <2>3, <2>14
  <2> QED
    BY <2>8, <2>11, <2>12, <2>13, <2>15 DEF Sound, Fired
<1> QED
  BY <1>2, <1>3

(* A change of the fields no agreement is about. *)
LEMMA AlikeIsSound ==
  ASSUME NEW c \in Fired, NEW d \in Clients, d.recovery = c.recovery,
         SameSelf(c, d), SameStatus(c, d), SameLife(c, d), SameWishes(c, d)
  PROVE  d \in Fired /\ (c \in Sound => d \in Sound)
<1>1. c \in Recoverless /\ Choices(c) /\ Fits(c, c.status) /\ Agreeing(c) /\ Streaming(c)
  BY DEF Fired
<1>2. d \in Recoverless
  BY <1>1 DEF Recoverless, SameLife
<1>3. Choices(d) /\ Fits(d, d.status)
  BY <1>1 DEF Choices, Fits, ForcedWhole, SameSelf, SameWishes, SameStatus
<1>4. Agreeing(d)
  BY <1>1 DEF Agreeing, Required, SameSelf, SameStatus, SameLife, SameWishes
<1>5. Streaming(d) /\ (Waking(c) => Waking(d))
  BY <1>1 DEF Streaming, Waking, SameStatus, SameLife
<1> QED
  BY <1>2, <1>3, <1>4, <1>5 DEF Fired, Sound

(* A timeout launched is one that will wake the session. *)
LEMMA LaunchTimeoutIsSound ==
  ASSUME NEW c \in Fired
  PROVE  LaunchTimeout(c, FALSE) \in Sound
<1> DEFINE d == LaunchTimeout(c, FALSE)
<1>1. c \in Recoverless /\ Choices(c) /\ Fits(c, c.status) /\ Agreeing(c) /\ Streaming(c)
  BY DEF Fired
<1>2. /\ d \in Recoverless /\ SameSelf(c, d) /\ SameStatus(c, d) /\ SameWishes(c, d)
      /\ d.phase = c.phase /\ d.stream = c.stream /\ d.offlineTask = c.offlineTask
      /\ d.timers[FALSE] > 0
  BY <1>1, LaunchTimeoutDoes
<1> HIDE DEF d
<1>3. Choices(d) /\ Fits(d, d.status)
  BY <1>1, <1>2 DEF Choices, Fits, ForcedWhole, SameSelf, SameWishes, SameStatus
<1>4. Agreeing(d)
  BY <1>1, <1>2 DEF Agreeing, Required, SameSelf, SameStatus, SameWishes
<1>5. Streaming(d) /\ Waking(d)
  BY <1>1, <1>2 DEF Streaming, Waking, SameStatus
<1> QED
  BY <1>2, <1>3, <1>4, <1>5 DEF Fired, Sound, d

(* A session shut down is off, and its stream stopped. *)
LEMMA ShutdownIsSound ==
  ASSUME NEW c \in Recoverless, Choices(c), Fits(c, c.status), Agreeing(c),
         c.heeded /\ c.phase = "OFF" => ~c.offlineTask
  PROVE  Shutdown(c, FALSE) \in Sound
<1> DEFINE d == Shutdown(c, FALSE)
<1>1. /\ d \in Recoverless /\ SameSelf(c, d) /\ SameStatus(c, d) /\ NoWishes(d)
      /\ d.phase = "OFF" /\ d.stream = "none"
      /\ d.offlineTask => c.offlineTask /\ c.phase = "OFF"
  BY ShutdownDoes
<1> HIDE DEF d
<1>2. Choices(d) /\ Fits(d, d.status)
  BY <1>1 DEF Choices, Fits, ForcedWhole, SameSelf, NoWishes, SameStatus
<1>3. Agreeing(d)
  BY <1>1 DEF Agreeing, Required, SameStatus, NoWishes
<1>4. Streaming(d) /\ Waking(d)
  BY <1>1 DEF Streaming, Waking, SameStatus
<1> QED
  BY <1>1, <1>2, <1>3, <1>4 DEF Fired, Sound, d

(* A session closed for good is off, with its manager if that hears it. *)
LEMMA CloseForGoodIsSound ==
  ASSUME NEW c \in Fired
  PROVE  CloseSession(c, TRUE) \in Sound
<1> DEFINE d == CloseSession(c, TRUE)
<1>1. c \in Recoverless /\ Choices(c) /\ Fits(c, c.status) /\ Agreeing(c) /\ Streaming(c)
  BY DEF Fired
<1>2. /\ d \in Recoverless /\ SameSelf(c, d) /\ NoWishes(d)
      /\ d.phase = "OFF" /\ d.stream = "none"
      /\ d.offlineTask => c.offlineTask /\ c.phase = "OFF"
      /\ IF c.heeded
         THEN d.status = Off /\ d.heeded /\ ~d.switchTimer
         ELSE SameStatus(c, d)
  BY <1>1, CloseSessionDoes
<1> HIDE DEF d
<1>3. Choices(d)
  BY <1>1, <1>2 DEF Choices, ForcedWhole, SameSelf, NoWishes
<1>4. CASE c.heeded
  <2>1. d.status.mode = "OFF"
    BY <1>2, <1>4, StatusTypes
  <2>2. Fits(d, d.status) /\ Agreeing(d)
    BY <1>2, <1>4, <2>1 DEF Fits, Agreeing, Required, NoWishes
  <2>3. Streaming(d) /\ Waking(d)
    BY <1>1, <1>2, <1>4 DEF Streaming, Waking
  <2> QED
    BY <1>2, <1>3, <2>2, <2>3 DEF Fired, Sound, d
<1>5. CASE ~c.heeded
  <2>1. Fits(d, d.status)
    BY <1>1, <1>2, <1>5 DEF Fits, ForcedWhole, SameSelf, SameStatus
  <2>2. Agreeing(d)
    BY <1>1, <1>2, <1>5 DEF Agreeing, Required, NoWishes, SameStatus
  <2>3. Streaming(d) /\ Waking(d)
    BY <1>2, <1>5 DEF Streaming, Waking, SameStatus
  <2> QED
    BY <1>2, <1>3, <2>1, <2>2, <2>3 DEF Fired, Sound, d
<1> QED
  BY <1>4, <1>5

(* A session closed to be retried sleeps until its timeout. *)
LEMMA CloseToRetryIsSound ==
  ASSUME NEW c \in Fired, c.phase \in {"CREATING", "CREATED", "FIRST_BINDING"},
         c.status.mode = "SWITCHING" => c.http
  PROVE  LaunchTimeout(CloseSession(c, FALSE), FALSE) \in Sound
<1> DEFINE d == CloseSession(c, FALSE)
<1>1. c \in Recoverless /\ Choices(c) /\ Fits(c, c.status) /\ Agreeing(c)
  BY DEF Fired
<1>2. /\ d \in Recoverless /\ SameSelf(c, d) /\ NoWishes(d)
      /\ d.phase = "SLEEP" /\ d.stream = "none"
      /\ d.offlineTask => c.offlineTask /\ c.phase = "SLEEP"
      /\ IF c.heeded
         THEN d.status = c.status /\ d.heeded /\ ~d.switchTimer
         ELSE SameStatus(c, d)
  BY <1>1, CloseSessionDoes
<1> HIDE DEF d
<1>3. Choices(d)
  BY <1>1, <1>2 DEF Choices, ForcedWhole, SameSelf, NoWishes
<1>4. Fits(d, d.status)
  BY <1>1, <1>2 DEF Fits, ForcedWhole, SameSelf, SameStatus
<1>5. Agreeing(d)
  BY <1>1, <1>2 DEF Agreeing, Required, NoWishes, SameStatus, SameSelf
<1>6. Streaming(d)
  BY <1>2 DEF Streaming
<1>7. d \in Fired
  BY <1>2, <1>3, <1>4, <1>5, <1>6 DEF Fired
<1> QED
  BY <1>7, LaunchTimeoutIsSound DEF d

(* An event opens a session being created, and is followed by a timeout. *)
LEMMA EventIsSound ==
  ASSUME NEW c \in Recoverless, Choices(c), Fits(c, c.status), Agreeing(c),
         c.phase = "CREATING" \/ Streaming(c)
  PROVE  Event(c) \in Sound
<1>1. CASE c.phase # "CREATING"
  <2>1. c \in Fired
    BY <1>1 DEF Fired
  <2>2. Event(c) = LaunchTimeout(c, FALSE)
    BY <1>1 DEF Event
  <2> QED
    BY <2>1, <2>2, LaunchTimeoutIsSound
<1>2. CASE c.phase = "CREATING"
  <2> DEFINE d == ChangePhase(c, "CREATED")
  <2>1. /\ d \in Recoverless /\ SameSelf(c, d) /\ SameStatus(c, d) /\ SameWishes(c, d)
        /\ d.phase = "CREATED" /\ (d.offlineTask => c.offlineTask /\ c.phase = "CREATED")
    BY ChangePhaseDoes DEF SessionStates
  <2>2. Event(c) = LaunchTimeout(d, FALSE)
    BY <1>2 DEF Event
  <2> HIDE DEF d
  <2>3. Choices(d) /\ Fits(d, d.status)
    BY <2>1 DEF Choices, Fits, ForcedWhole, SameSelf, SameWishes, SameStatus
  <2>4. c.status.mode = "ON" /\ ~c.heeded
    <3>1. c.status.mode \in {"OFF", "ON", "SWITCHING"}
      BY FieldTypes, StatusTypes DEF Recoverless
    <3> QED
      BY <1>2, <3>1 DEF Agreeing
  <2>5. Agreeing(d)
    BY <1>2, <2>1, <2>4 DEF Agreeing, Required, SameStatus, SameWishes
  <2>6. Streaming(d)
    BY <1>2, <2>1 DEF Streaming
  <2> QED
    BY <2>1, <2>2, <2>3, <2>5, <2>6, LaunchTimeoutIsSound DEF Fired
<1> QED
  BY <1>1, <1>2
-----------------------------------------------------------------------------
(* The timeouts.                                                           *)

(* A session of a past phase that is told of a timeout does nothing; the    *)
(* one the manager hears is created anew.                                   *)
LEMMA IdleTimeoutIsSound ==
  ASSUME NEW c \in Fired, c.phase \in {"CREATED", "SLEEP"}
  PROVE  IdleTimeout(c, FALSE) \in Sound
<1>1. c \in Recoverless /\ Choices(c) /\ Fits(c, c.status) /\ Agreeing(c)
  BY DEF Fired
<1>2. IdleTimeout(c, FALSE) \in {StreamSense(c), Retry(c)}
      /\ (Required(c) => IdleTimeout(c, FALSE) = StreamSense(c))
  BY DEF IdleTimeout, Required
<1>3. CASE ~c.heeded
  <2>1. StreamSense(c) = c /\ Retry(c) = c
    BY <1>3 DEF StreamSense, Retry
  <2>2. Waking(c)
    BY <1>3 DEF Waking
  <2> QED
    BY <1>2, <2>1, <2>2 DEF Sound
<1>4. CASE c.heeded
  <2>1. IsAlive(c)
    BY <1>1 DEF Agreeing, IsAlive
  <2>2. StreamSense(c) \in Sound
    BY <1>1, <1>4, <2>1, StreamSenseIsSound
  <2>3. CASE ~Required(c)
    <3>1. c.status.mode = "SWITCHING" /\ ForcedWhole(c) => c.option = "HTTP"
      BY <1>1, <2>3 DEF Agreeing, Choices
    <3>2. Retry(c) \in Sound
      BY <1>1, <1>4, <2>1, <3>1, RetryIsSound
    <3> QED
      BY <1>2, <2>2, <3>2
  <2> QED
    BY <1>2, <2>2, <2>3
<1> QED
  BY <1>3, <1>4

(* A first binding that fails falls back, unless its transport is forced. *)
LEMMA BindingTimeoutIsSound ==
  ASSUME NEW c \in Fired, c.phase = "FIRST_BINDING"
  PROVE  BindingTimeout(c) \in Sound
<1>1. c \in Recoverless /\ Choices(c) /\ Fits(c, c.status) /\ Agreeing(c)
  BY DEF Fired
<1>2. c.heeded /\ IsAlive(c)
  BY <1>1, FieldTypes DEF Agreeing, IsAlive
<1>3. StreamSense(c) \in Sound
  BY <1>1, <1>2, StreamSenseIsSound
<1>4. CASE ~Required(c) /\ c.forced
  <2>1. ~ForcedWhole(c)
    BY <1>1, <1>4 DEF Choices, ForcedWhole, TransportForced, ComboForced
  <2>2. Retry(c) \in Sound
    BY <1>1, <1>2, <2>1, RetryIsSound
  <2> QED
    BY <1>4, <2>2 DEF BindingTimeout, Required
<1>5. CASE ~Required(c) /\ ~c.forced
  <2>1. StreamSenseSwitch(c) \in Sound
    BY <1>5, StreamSenseSwitchIsSound
  <2> QED
    BY <1>3, <1>5, <2>1 DEF BindingTimeout, Required
<1>6. CASE Required(c)
  BY <1>3, <1>6 DEF BindingTimeout, Required
<1> QED
  BY <1>4, <1>5, <1>6

(* At the end of a pause the session is bound, or created to go back to     *)
(* WebSocket.                                                               *)
LEMMA PauseTimeoutIsSound ==
  ASSUME NEW c \in Fired, c.phase = "FIRST_PAUSE"
  PROVE  PauseTimeout(c) \in Sound
<1>1. /\ c \in Recoverless /\ c \in Clients /\ Choices(c) /\ Fits(c, c.status) /\ Agreeing(c)
      /\ Streaming(c) /\ c.recovery = FALSE /\ c.frozen \in BOOLEAN
  BY FieldTypes DEF Fired, Recoverless
<1>2. CASE c.toWebSocket
  <2> DEFINE e == Create(c, c.frozen, FALSE, FALSE, FALSE, FALSE)
             d == [e EXCEPT !.toWebSocket = FALSE]
  <2>1. ~ForcedWhole(c) /\ (c.frozen => ForcedWhole(c))
    BY <1>1, <1>2 DEF Choices, ForcedWhole, TransportForced, AnyTransport
  <2>2. e \in Sound
    BY <1>1, <2>1, CreateIsSound
  <2>3. PauseTimeout(c) = d
    BY <1>1, <1>2 DEF PauseTimeout, SwitchToWebSocket
  <2> HIDE DEF e
  <2>4. e \in Clients /\ e \in Recoverless
    BY <2>2 DEF Sound, Fired, Recoverless
  <2>5. /\ d \in Clients /\ d.recovery = e.recovery /\ ~d.toWebSocket
        /\ d.option = e.option /\ d.frozen = e.frozen /\ d.forced = e.forced /\ d.http = e.http
        /\ SameStatus(e, d) /\ SameLife(e, d) /\ SameWishes(e, d)
    BY <2>4 DEF Clients, SameStatus, SameLife, SameWishes
  <2> HIDE DEF d
  <2>6. d \in Recoverless
    BY <2>4, <2>5 DEF Recoverless, SameLife
  <2>7. Choices(d) /\ Fits(d, d.status)
    BY <2>2, <2>5 DEF Sound, Fired, Choices, Fits, ForcedWhole, SameWishes, SameStatus
  <2>8. Agreeing(d)
    BY <2>2, <2>5 DEF Sound, Fired, Agreeing, Required, SameStatus, SameLife, SameWishes
  <2>9. Streaming(d) /\ Waking(d)
    BY <2>2, <2>5 DEF Sound, Fired, Streaming, Waking, SameStatus, SameLife
  <2> QED
    BY <2>3, <2>6, <2>7, <2>8, <2>9 DEF Sound, Fired
<1>3. CASE ~c.toWebSocket
  <2> DEFINE d == [c EXCEPT !.stream = "sent", !.binding = TRUE]
  <2>1. PauseTimeout(c) = d
    BY <1>3 DEF PauseTimeout, SessionBind, ChangePhase, BindSessionExecution
  <2>2. /\ d \in Clients /\ d.recovery = c.recovery /\ d.timers = c.timers
        /\ SameSelf(c, d) /\ SameStatus(c, d) /\ SameWishes(c, d)
        /\ d.phase = c.phase /\ d.stream = "sent" /\ d.offlineTask = c.offlineTask
    BY <1>1 DEF Clients, SameSelf, SameStatus, SameWishes
  <2> HIDE DEF d
  <2>3. d \in Recoverless
    BY <1>1, <2>2 DEF Recoverless
  <2>4. Choices(d) /\ Fits(d, d.status)
    BY <1>1, <2>2 DEF Choices, Fits, ForcedWhole, SameSelf, SameWishes, SameStatus
  <2>5. Agreeing(d)
    BY <1>1, <2>2 DEF Agreeing, Required, SameStatus, SameSelf, SameWishes
  <2>6. Streaming(d) /\ Waking(d)
    BY <1>1, <2>2 DEF Streaming, Waking
  <2> QED
    BY <2>1, <2>3, <2>4, <2>5, <2>6 DEF Sound, Fired
<1> QED
  BY <1>2, <1>3

(* Whatever the phase, a timeout leaves a client in order. *)
LEMMA OnTimeoutIsSound ==
  ASSUME NEW c \in Fired, NEW timeLeft \in BOOLEAN
  PROVE  OnTimeout(c, FALSE, timeLeft) \in Sound
<1>1. /\ c \in Recoverless /\ Choices(c) /\ Fits(c, c.status) /\ Agreeing(c) /\ Streaming(c)
      /\ ~c.recovery /\ c.phase \in SessionStates
  BY FieldTypes DEF Fired, Recoverless
<1>2. CASE c.phase = "CREATING"
  <2>1. OnTimeout(c, FALSE, timeLeft) = LaunchTimeout(CloseSession(c, FALSE), FALSE)
    BY <1>1, <1>2 DEF OnTimeout, CreatingTimeout
  <2>2. c.status.mode # "SWITCHING"
    BY <1>1, <1>2 DEF Agreeing
  <2> QED
    BY <1>2, <2>1, <2>2, CloseToRetryIsSound
<1>3. CASE c.phase \in {"CREATED", "SLEEP"}
  <2>1. OnTimeout(c, FALSE, timeLeft) = IdleTimeout(c, FALSE)
    BY <1>3 DEF OnTimeout
  <2> QED
    BY <1>3, <2>1, IdleTimeoutIsSound
<1>4. CASE c.phase = "FIRST_BINDING"
  <2>1. OnTimeout(c, FALSE, timeLeft) = BindingTimeout(c)
    BY <1>4 DEF OnTimeout
  <2> QED
    BY <1>4, <2>1, BindingTimeoutIsSound
<1>5. CASE c.phase = "FIRST_PAUSE"
  <2>1. OnTimeout(c, FALSE, timeLeft) = PauseTimeout(c)
    BY <1>5 DEF OnTimeout
  <2> QED
    BY <1>5, <2>1, PauseTimeoutIsSound
<1>6. CASE c.phase = "OFF"
  <2>1. OnTimeout(c, FALSE, timeLeft) = Shutdown(c, FALSE)
    BY <1>6 DEF OnTimeout
  <2>2. c.heeded /\ c.phase = "OFF" => ~c.offlineTask
    BY <1>1 DEF Streaming
  <2> QED
    BY <1>1, <2>1, <2>2, ShutdownIsSound
<1> QED
  BY <1>1, <1>2, <1>3, <1>4, <1>5, <1>6 DEF SessionStates

(* An error: the session of HTTP falls back or sleeps, that of WebSocket    *)
(* goes on.                                                                 *)
LEMMA ErrorEventIsSound ==
  ASSUME NEW c \in Sound, NEW tryRecovery \in BOOLEAN, NEW timeLeft \in BOOLEAN
  PROVE  ErrorEvent(c, tryRecovery, timeLeft) \in Sound
<1>1. /\ c \in Fired /\ c \in Recoverless /\ Choices(c) /\ Fits(c, c.status) /\ Agreeing(c)
      /\ ~c.recovery
  BY DEF Sound, Fired, Recoverless
<1>2. CASE ~c.http \/ c.phase \notin {"CREATING", "CREATED", "FIRST_BINDING"}
  BY <1>2 DEF ErrorEvent
<1>3. CASE c.http /\ c.phase \in {"CREATING", "CREATED", "FIRST_BINDING"}
  <2>1. ErrorEvent(c, tryRecovery, timeLeft)
          = IF c.switchRequired /\ ~c.forced THEN StreamSense(c)
            ELSE LaunchTimeout(CloseSession(c, FALSE), FALSE)
    BY <1>1, <1>3 DEF ErrorEvent
  <2>2. LaunchTimeout(CloseSession(c, FALSE), FALSE) \in Sound
    BY <1>1, <1>3, CloseToRetryIsSound
  <2>3. CASE c.switchRequired
    <3>1. c.heeded /\ IsAlive(c)
      BY <1>1, <2>3 DEF Agreeing, Required, IsAlive
    <3>2. StreamSense(c) \in Sound
      BY <1>1, <3>1, StreamSenseIsSound
    <3> QED
      BY <2>1, <2>2, <3>2
  <2> QED
    BY <2>1, <2>2, <2>3
<1> QED
  BY <1>2, <1>3
-----------------------------------------------------------------------------
(* One lemma for each action.                                              *)

(* What IInv says of the client. *)
LEMMA SoundIs ==
  ASSUME IInv
  PROVE  /\ client \in Sound /\ client \in Fired /\ client \in Recoverless /\ client \in Clients
         /\ Choices(client) /\ Fits(client, client.status) /\ Agreeing(client)
         /\ Streaming(client) /\ Waking(client)
BY DEF IInv, Sound, Fired, Recoverless

(* connect asks for what ForcedTransport says. *)
LEMMA ConnectKeeps == IInv /\ Connect => IInv'
<1> SUFFICES ASSUME IInv, Connect PROVE client' \in Sound
  BY DEF IInv
<1> DEFINE option == client.option
           http == ByHttp(option) \/ (option = AnyTransport /\ client.wsDisabled)
           combo == ComboForced(option)
           frozen == TransportForced(option)
           polling == ByPolling(option)
<1>1. client' = Create(client, frozen, combo, polling, http, FALSE)
  BY DEF Connect
<1>2. http \in BOOLEAN /\ combo \in BOOLEAN /\ frozen \in BOOLEAN /\ polling \in BOOLEAN
  BY DEF ByHttp, ComboForced, TransportForced, ByPolling
<1>3. frozen <=> ForcedWhole(client)
  BY DEF ForcedWhole
<1>4. ForcedWhole(client) => (http <=> client.option = "HTTP")
  BY DEF ForcedWhole, TransportForced, ByHttp, AnyTransport
<1>5. combo => ComboForced(client.option)
  OBVIOUS
<1> HIDE DEF http, combo, frozen, polling
<1> QED
  BY SoundIs, <1>1, <1>2, <1>3, <1>4, <1>5, CreateIsSound

(* disconnect closes what there is, for good. *)
LEMMA DisconnectKeeps == IInv /\ Disconnect => IInv' /\ Quiet(client')
<1> SUFFICES ASSUME IInv, Disconnect PROVE client' \in Sound /\ Quiet(client')
  BY DEF IInv
<1> DEFINE d == [client EXCEPT !.serverOpen = FALSE]
<1>1. client' = IF IsAlive(d) THEN CloseSession(d, TRUE) ELSE d
  BY DEF Disconnect, ManagerClose
<1>2. /\ d \in Clients /\ d.recovery = client.recovery
      /\ SameSelf(client, d) /\ SameStatus(client, d) /\ SameLife(client, d) /\ SameWishes(client, d)
  BY SoundIs DEF Clients, SameSelf, SameStatus, SameLife, SameWishes
<1> HIDE DEF d
<1>3. d \in Fired /\ d \in Sound
  BY <1>2, SoundIs, AlikeIsSound
<1>4. d \in Recoverless /\ Agreeing(d) /\ Streaming(d)
  BY <1>3 DEF Fired
<1>5. CASE IsAlive(d)
  <2> DEFINE e == CloseSession(d, TRUE)
  <2>1. e \in Sound
    BY <1>3, CloseForGoodIsSound
  <2>2. /\ e.phase = "OFF" /\ e.stream = "none"
        /\ IF d.heeded THEN ~e.switchTimer ELSE SameStatus(d, e)
    BY <1>4, CloseSessionDoes
  <2> HIDE DEF e
  <2>3. Quiet(e)
    BY <1>4, <2>2 DEF Quiet, Agreeing, SameStatus
  <2> QED
    BY <1>1, <1>5, <2>1, <2>3 DEF e
<1>6. CASE ~IsAlive(d)
  <2>1. Quiet(d)
    BY <1>4, <1>6 DEF Quiet, Agreeing, Streaming, IsAlive
  <2> QED
    BY <1>1, <1>3, <1>6, <2>1
<1> QED
  BY <1>5, <1>6

(* A switch that takes too long is made by creating the session anew. *)
LEMMA SwitchTimeoutKeeps == IInv /\ SwitchTimeout => IInv'
<1> SUFFICES ASSUME IInv, SwitchTimeout PROVE client' \in Sound
  BY DEF IInv
<1> DEFINE c == [client EXCEPT !.switchTimer = FALSE]
<1>1. client' = IF c.status.mode # "SWITCHING" THEN c
                ELSE CreateNew(c, c.status.polling, c.status.http)
  BY DEF SwitchTimeout
<1>2. /\ c \in Clients /\ c.recovery = client.recovery /\ c.status = client.status
      /\ c.heeded = client.heeded /\ ~c.switchTimer
      /\ SameSelf(client, c) /\ SameLife(client, c) /\ SameWishes(client, c)
  BY SoundIs DEF Clients, SameSelf, SameLife, SameWishes
<1> HIDE DEF c
<1>3. c \in Recoverless
  BY <1>2, SoundIs DEF Recoverless, SameLife
<1>4. Choices(c) /\ Fits(c, c.status)
  BY <1>2, SoundIs DEF Choices, Fits, ForcedWhole, SameSelf, SameWishes
<1>5. CASE c.status.mode # "SWITCHING"
  <2>1. client.status.mode # "SWITCHING" /\ Agreeing(client)
    BY <1>2, <1>5, SoundIs
  <2>2. SwitchTimeout => client.switchTimer
    BY DEF SwitchTimeout
  <2> QED
    BY <2>1, <2>2 DEF Agreeing
<1>6. CASE c.status.mode = "SWITCHING"
  <2>1. c.status \in Statuses
    BY <1>2, FieldTypes
  <2>2. c.status.polling \in BOOLEAN /\ c.status.http \in BOOLEAN /\ IsAlive(c)
    BY <1>6, <2>1, StatusTypes DEF IsAlive
  <2>3. Fits(c, Stable(c.status.polling, c.status.http))
    BY <1>4, <1>6, <2>2, StatusTypes DEF Fits
  <2>4. CreateNew(c, c.status.polling, c.status.http) \in Sound
    BY <1>3, <1>4, <2>2, <2>3, CreateNewIsSound
  <2> QED
    BY <1>1, <1>6, <2>4
<1> QED
  BY <1>5, <1>6

(* A delayed creation is sent, or delayed again, by a session the manager   *)
(* does not hear yet.                                                       *)
LEMMA OfflineTaskKeeps == IInv /\ OfflineTask => IInv'
<1> SUFFICES ASSUME IInv, OfflineTask PROVE client' \in Sound
  BY DEF IInv
<1> DEFINE c == [client EXCEPT !.offlineTask = FALSE]
           d == SendCreate(c)
<1>1. client' = d /\ client.offlineTask
  BY DEF OfflineTask
<1>2. /\ c \in Clients /\ c.recovery = client.recovery /\ c.timers = client.timers
      /\ c.phase = client.phase /\ c.stream = client.stream
      /\ SameSelf(client, c) /\ SameStatus(client, c) /\ SameWishes(client, c)
  BY SoundIs DEF Clients, SameSelf, SameStatus, SameWishes
<1> HIDE DEF c
<1>3. c \in Recoverless
  BY <1>2, SoundIs DEF Recoverless
<1>4. /\ d \in Recoverless /\ SameSelf(c, d) /\ SameStatus(c, d) /\ SameWishes(c, d)
      /\ d.phase = c.phase /\ d.stream \in {c.stream, "sent"}
  BY <1>3, SendCreateDoes
<1> HIDE DEF d
<1>5. Choices(d) /\ Fits(d, d.status)
  BY <1>2, <1>4, SoundIs DEF Choices, Fits, ForcedWhole, SameSelf, SameWishes, SameStatus
<1>6. Agreeing(d)
  BY <1>2, <1>4, SoundIs DEF Agreeing, Required, SameSelf, SameStatus, SameWishes
<1>7. ~client.heeded /\ client.phase \in {"OFF", "SLEEP"} /\ client.stream # "open"
  BY <1>1, SoundIs DEF Streaming
<1>8. Streaming(d) /\ Waking(d)
  BY <1>2, <1>4, <1>7 DEF Streaming, Waking, SameStatus
<1> QED
  BY <1>1, <1>4, <1>5, <1>6, <1>8 DEF Sound, Fired

(* One more attempt is allowed while offline. *)
LEMMA ResetMaybeOnlineKeeps == IInv /\ ResetMaybeOnline => IInv' /\ (Quiet(client) => Quiet(client'))
<1> SUFFICES ASSUME IInv, ResetMaybeOnline PROVE client' \in Sound /\ (Quiet(client) => Quiet(client'))
  BY DEF IInv
<1> DEFINE c == [client EXCEPT !.maybeOnline = TRUE]
<1>1. client' = c
  BY DEF ResetMaybeOnline
<1>2. /\ c \in Clients /\ c.recovery = client.recovery
      /\ SameSelf(client, c) /\ SameStatus(client, c) /\ SameLife(client, c) /\ SameWishes(client, c)
  BY SoundIs DEF Clients, SameSelf, SameStatus, SameLife, SameWishes
<1> HIDE DEF c
<1>3. Quiet(client) => Quiet(c)
  BY <1>2 DEF Quiet, SameLife, SameStatus
<1> QED
  BY <1>1, <1>2, <1>3, SoundIs, AlikeIsSound

(* The network of the device comes or goes. *)
LEMMA NetworkChangesKeeps == IInv /\ NetworkChanges => IInv' /\ (Quiet(client) => Quiet(client'))
<1> SUFFICES ASSUME IInv, NetworkChanges PROVE client' \in Sound /\ (Quiet(client) => Quiet(client'))
  BY DEF IInv
<1> DEFINE c == [client EXCEPT !.offline = ~@]
<1>1. client' = c
  BY DEF NetworkChanges
<1>2. /\ c \in Clients /\ c.recovery = client.recovery
      /\ SameSelf(client, c) /\ SameStatus(client, c) /\ SameLife(client, c) /\ SameWishes(client, c)
  BY SoundIs, ZenonT(30) DEF Clients, SameSelf, SameStatus, SameLife, SameWishes
<1> HIDE DEF c
<1>3. Quiet(client) => Quiet(c)
  BY <1>2 DEF Quiet, SameLife, SameStatus
<1> QED
  BY <1>1, <1>2, <1>3, SoundIs, AlikeIsSound

(* The early socket opens. *)
LEMMA ConnectionOKKeeps == IInv /\ ConnectionOK => IInv' /\ (Quiet(client) => Quiet(client'))
<1> SUFFICES ASSUME IInv, ConnectionOK PROVE client' \in Sound /\ (Quiet(client) => Quiet(client'))
  BY DEF IInv
<1> DEFINE c == [client EXCEPT !.ws = "CONNECTED"]
<1>1. client' = c
  BY DEF ConnectionOK
<1>2. /\ c \in Clients /\ c.recovery = client.recovery
      /\ SameSelf(client, c) /\ SameStatus(client, c) /\ SameLife(client, c) /\ SameWishes(client, c)
  BY SoundIs DEF Clients, WsStates, SameSelf, SameStatus, SameLife, SameWishes
<1> HIDE DEF c
<1>3. Quiet(client) => Quiet(c)
  BY <1>2 DEF Quiet, SameLife, SameStatus
<1> QED
  BY <1>1, <1>2, <1>3, SoundIs, AlikeIsSound

(* The early socket does not open: a session that counts on it waits.       *)
LEMMA ConnectionErrorKeeps == IInv /\ ConnectionError => IInv' /\ (Quiet(client) => Quiet(client'))
<1> SUFFICES ASSUME IInv, ConnectionError PROVE client' \in Sound /\ (Quiet(client) => Quiet(client'))
  BY DEF IInv
<1> DEFINE c == [client EXCEPT !.ws = "BROKEN"]
<1>1. client' = IF c.phase \in {"OFF", "CREATING", "CREATED"} THEN c ELSE LaunchTimeout(c, FALSE)
  BY DEF ConnectionError
<1>2. /\ c \in Clients /\ c.recovery = client.recovery
      /\ SameSelf(client, c) /\ SameStatus(client, c) /\ SameLife(client, c) /\ SameWishes(client, c)
  BY SoundIs DEF Clients, WsStates, SameSelf, SameStatus, SameLife, SameWishes
<1> HIDE DEF c
<1>3. c \in Fired /\ c \in Sound
  BY <1>2, SoundIs, AlikeIsSound
<1>4. LaunchTimeout(c, FALSE) \in Sound
  BY <1>3, LaunchTimeoutIsSound
<1>5. Quiet(client) => c.phase = "OFF" /\ Quiet(c)
  BY <1>2 DEF Quiet, SameLife, SameStatus
<1> QED
  BY <1>1, <1>3, <1>4, <1>5

(* The bind request was sent: its session is in its first binding.          *)
LEMMA BindSentKeeps == IInv /\ BindSent => IInv' /\ (Quiet(client) => Quiet(client'))
<1> SUFFICES ASSUME IInv, BindSent PROVE client' \in Sound /\ (Quiet(client) => Quiet(client'))
  BY DEF IInv
<1> DEFINE c == [client EXCEPT !.binding = FALSE]
           d == ChangePhase(c, "FIRST_BINDING")
<1>1. client' = IF c.phase # "FIRST_PAUSE" THEN Shutdown(c, FALSE) ELSE LaunchTimeout(d, FALSE)
  BY DEF BindSent
<1>2. /\ c \in Clients /\ c.recovery = client.recovery
      /\ SameSelf(client, c) /\ SameStatus(client, c) /\ SameLife(client, c) /\ SameWishes(client, c)
  BY SoundIs DEF Clients, SameSelf, SameStatus, SameLife, SameWishes
<1> HIDE DEF c
<1>3. c \in Fired
  BY <1>2, SoundIs, AlikeIsSound
<1>4. c \in Recoverless /\ Choices(c) /\ Fits(c, c.status) /\ Agreeing(c) /\ Streaming(c)
  BY <1>3 DEF Fired
<1>5. CASE c.phase # "FIRST_PAUSE"
  <2>1. c.heeded /\ c.phase = "OFF" => ~c.offlineTask
    BY <1>4 DEF Streaming
  <2>2. Shutdown(c, FALSE) \in Sound
    BY <1>4, <2>1, ShutdownIsSound
  <2> DEFINE s == Shutdown(c, FALSE)
  <2>3. s.phase = "OFF" /\ s.stream = "none" /\ SameStatus(c, s)
    BY <1>4, ShutdownDoes
  <2> HIDE DEF s
  <2>4. Quiet(client) => Quiet(s)
    BY <1>2, <2>3 DEF Quiet, SameStatus
  <2> QED
    BY <1>1, <1>5, <2>2, <2>4 DEF s
<1>6. CASE c.phase = "FIRST_PAUSE"
  <2>1. /\ d \in Recoverless /\ SameSelf(c, d) /\ SameStatus(c, d) /\ SameWishes(c, d)
        /\ d.phase = "FIRST_BINDING" /\ d.stream = c.stream /\ (d.offlineTask => c.offlineTask)
    BY <1>4, ChangePhaseDoes DEF SessionStates
  <2> HIDE DEF d
  <2>2. Choices(d) /\ Fits(d, d.status)
    BY <1>4, <2>1 DEF Choices, Fits, ForcedWhole, SameSelf, SameWishes, SameStatus
  <2>3. Agreeing(d)
    BY <1>4, <1>6, <2>1 DEF Agreeing, Required, SameStatus, SameWishes
  <2>4. Streaming(d)
    BY <1>4, <1>6, <2>1 DEF Streaming
  <2>5. d \in Fired
    BY <2>1, <2>2, <2>3, <2>4 DEF Fired
  <2>6. LaunchTimeout(d, FALSE) \in Sound
    BY <2>5, LaunchTimeoutIsSound
  <2>7. ~Quiet(client)
    BY <1>2, <1>6 DEF Quiet, SameLife
  <2> QED
    BY <1>1, <1>6, <2>6, <2>7
<1> QED
  BY <1>5, <1>6

(* One timer less. *)
LEMMA OneLess ==
  ASSUME NEW T, NEW f \in [T -> 0..Many], NEW x \in T, f[x] > 0, NEW left \in Left(f[x])
  PROVE  LET g == [f EXCEPT ![x] = left]
         IN  g \in [T -> 0..Many] /\ \A y \in T : y # x => g[y] = f[y]
<1>1. left \in 0..Many
  BY DEF Left, Many
<1> QED
  BY <1>1

(* A timeout fires: only those that ask for no recovery are ever launched.  *)
LEMMA TimeoutKeeps ==
  ASSUME NEW f \in BOOLEAN, IInv, Timeout(f)
  PROVE  IInv' /\ (Quiet(client) => Quiet(client'))
<1>1. f = FALSE
  <2>1. client.timers[f] > 0 /\ client.timers[TRUE] = 0
    BY SoundIs DEF Timeout, Recoverless
  <2>2. client.timers[f] # client.timers[TRUE]
    BY <2>1
  <2>3. f # TRUE
    BY <2>2, Zenon
  <2> QED
    BY <2>3, Zenon
<1>2. PICK timeLeft \in BOOLEAN, left \in Left(client.timers[FALSE]) :
        client' = OnTimeout([client EXCEPT !.timers[FALSE] = left], FALSE, timeLeft)
  BY <1>1 DEF Timeout
<1> DEFINE t == [client.timers EXCEPT ![FALSE] = left]
           c == [client EXCEPT !.timers = t]
<1>3. client.timers \in [BOOLEAN -> 0..Many] /\ client.timers[TRUE] = 0 /\ client.timers[FALSE] > 0
  BY <1>1, SoundIs, FieldTypes DEF Recoverless, Timeout
<1>4. t \in [BOOLEAN -> 0..Many] /\ t[TRUE] = client.timers[TRUE]
  BY <1>3, OneLess, Zenon
<1>5. c = [client EXCEPT !.timers[FALSE] = left]
  BY SoundIs DEF Clients
<1> HIDE DEF t
<1>6. /\ c \in Clients /\ c.recovery = client.recovery /\ c.timers = t
      /\ c.phase = client.phase /\ c.stream = client.stream /\ c.offlineTask = client.offlineTask
      /\ SameSelf(client, c) /\ SameStatus(client, c) /\ SameWishes(client, c)
  BY <1>4, SoundIs DEF Clients, SameSelf, SameStatus, SameWishes
<1>7. client' = OnTimeout(c, FALSE, timeLeft)
  BY <1>2, <1>5
<1> HIDE DEF c
<1>8. c \in Recoverless
  BY <1>3, <1>4, <1>6, SoundIs DEF Recoverless
<1>9. Choices(c) /\ Fits(c, c.status)
  BY <1>6, SoundIs DEF Choices, Fits, ForcedWhole, SameSelf, SameWishes, SameStatus
<1>10. Agreeing(c)
  BY <1>6, SoundIs DEF Agreeing, Required, SameSelf, SameStatus, SameWishes
<1>11. Streaming(c)
  BY <1>6, SoundIs DEF Streaming, SameStatus
<1>12. c \in Fired
  BY <1>8, <1>9, <1>10, <1>11 DEF Fired
<1>13. ASSUME Quiet(client) PROVE Quiet(client')
  <2> DEFINE s == Shutdown(c, FALSE)
  <2>1. client' = s
    BY <1>6, <1>7, <1>13 DEF Quiet, OnTimeout
  <2>2. s.phase = "OFF" /\ s.stream = "none" /\ SameStatus(c, s)
    BY <1>8, ShutdownDoes, ZenonT(30)
  <2> HIDE DEF s
  <2> QED
    BY <1>6, <1>13, <2>1, <2>2 DEF Quiet, SameStatus
<1> QED
  BY <1>7, <1>12, <1>13, OnTimeoutIsSound DEF IInv

(* The stream of a session opens: the session is created, or bound.         *)
LEMMA OnOKReceivedKeeps ==
  ASSUME NEW newLink \in BOOLEAN, NEW sameSession \in BOOLEAN, IInv, OnOKReceived(newLink, sameSession)
  PROVE  IInv' /\ ~Quiet(client)
<1> DEFINE c == [client EXCEPT !.stream = "open"]
           l == IF newLink THEN Relink(c) ELSE c
           s == Shutdown(c, FALSE)
<1>0. ~Quiet(client)
  BY DEF OnOKReceived, Quiet
<1>1. client' = IF c.phase \notin {"CREATING", "FIRST_BINDING"} THEN s
                ELSE IF c.phase = "CREATING" THEN Event(l)
                ELSE IF sameSession THEN Event(c) ELSE Event(s)
  BY DEF OnOKReceived
<1>2. /\ c \in Clients /\ c.recovery = client.recovery /\ c.timers = client.timers
      /\ c.phase = client.phase /\ c.stream = "open" /\ c.offlineTask = client.offlineTask
      /\ SameSelf(client, c) /\ SameStatus(client, c) /\ SameWishes(client, c)
  BY SoundIs DEF Clients, SameSelf, SameStatus, SameWishes
<1> HIDE DEF c
<1>3. c \in Recoverless
  BY <1>2, SoundIs DEF Recoverless
<1>4. Choices(c) /\ Fits(c, c.status)
  BY <1>2, SoundIs DEF Choices, Fits, ForcedWhole, SameSelf, SameWishes, SameStatus
<1>5. Agreeing(c)
  BY <1>2, SoundIs DEF Agreeing, Required, SameSelf, SameStatus, SameWishes
<1>6. s \in Sound
  <2>1. c.heeded /\ c.phase = "OFF" => ~c.offlineTask
    BY <1>2, SoundIs DEF Streaming, SameStatus
  <2> QED
    BY <1>3, <1>4, <1>5, <2>1, ShutdownIsSound
<1>7. Event(s) \in Sound
  <2> HIDE DEF s
  <2>1. s \in Recoverless /\ Choices(s) /\ Fits(s, s.status) /\ Agreeing(s) /\ Streaming(s)
    BY <1>6 DEF Sound, Fired
  <2> QED
    BY <2>1, EventIsSound
<1>8. CASE c.phase = "CREATING"
  <2> DEFINE r == [c EXCEPT !.ws = "CONNECTING"]
  <2>1. /\ r \in Clients /\ r.recovery = c.recovery
        /\ SameSelf(c, r) /\ SameStatus(c, r) /\ SameLife(c, r) /\ SameWishes(c, r)
    BY <1>2 DEF Clients, WsStates, SameSelf, SameStatus, SameLife, SameWishes
  <2>2. l \in {c, r}
    BY DEF Relink
  <2> HIDE DEF l, r
  <2>3. r \in Recoverless
    BY <1>3, <2>1 DEF Recoverless, SameLife
  <2>4. Choices(r) /\ Fits(r, r.status)
    BY <1>4, <2>1 DEF Choices, Fits, ForcedWhole, SameSelf, SameWishes, SameStatus
  <2>5. Agreeing(r) /\ r.phase = "CREATING"
    BY <1>5, <1>8, <2>1 DEF Agreeing, Required, SameSelf, SameStatus, SameLife, SameWishes
  <2>6. Event(l) \in Sound
    BY <1>3, <1>4, <1>5, <1>8, <2>2, <2>3, <2>4, <2>5, EventIsSound
  <2> QED
    BY <1>0, <1>1, <1>8, <2>6 DEF IInv
<1>9. CASE c.phase = "FIRST_BINDING"
  <2>1. Streaming(c)
    BY <1>2, <1>9, SoundIs DEF Streaming
  <2>2. Event(c) \in Sound
    BY <1>3, <1>4, <1>5, <2>1, EventIsSound
  <2>3. client' \in {Event(c), Event(s)}
    BY <1>1, <1>9
  <2> QED
    BY <1>0, <1>7, <2>2, <2>3 DEF IInv
<1>10. CASE c.phase \notin {"CREATING", "FIRST_BINDING"}
  BY <1>0, <1>1, <1>6, <1>10 DEF IInv
<1> QED
  BY <1>8, <1>9, <1>10

(* An event of an open stream. *)
LEMMA EventOfOpenStream ==
  ASSUME IInv, client.stream = "open"
  PROVE  LET c == Event(client)
         IN  c \in Sound /\ SameWishes(client, c) /\ c.phase \in {"CREATED", "FIRST_BINDING"}
<1>1. client.phase \in {"CREATED", "FIRST_BINDING"}
  BY SoundIs DEF Streaming
<1>2. Event(client) = LaunchTimeout(client, FALSE)
  BY <1>1 DEF Event
<1>3. SameWishes(client, LaunchTimeout(client, FALSE)) /\ LaunchTimeout(client, FALSE).phase = client.phase
  BY SoundIs, LaunchTimeoutDoes
<1> QED
  BY <1>1, <1>2, <1>3, SoundIs, LaunchTimeoutIsSound

(* A notification. *)
LEMMA OnEventKeeps == IInv /\ OnEvent => IInv' /\ ~Quiet(client)
<1>1. IInv /\ OnEvent => Event(client) \in Sound
  BY EventOfOpenStream DEF OnEvent
<1> QED
  BY <1>1 DEF IInv, OnEvent, Quiet

(* A message that may find the session slow. *)
LEMMA OnSyncMessageKeeps ==
  ASSUME NEW syncOk \in BOOLEAN, IInv, OnSyncMessage(syncOk)
  PROVE  IInv' /\ ~Quiet(client)
<1> DEFINE c == Event(client)
<1>1. /\ client.stream = "open"
      /\ client' = IF ~syncOk /\ ~c.switchRequired /\ ~c.slowRequired THEN SlowRequired(c) ELSE c
  BY DEF OnSyncMessage
<1>2. c \in Sound /\ c.phase \in {"CREATED", "FIRST_BINDING"}
  BY <1>1, EventOfOpenStream
<1> HIDE DEF c
<1>3. ~c.switchRequired /\ ~c.slowRequired => SlowRequired(c) \in Sound
  BY <1>2, SlowRequiredIsSound DEF Required
<1>4. client' \in Sound
  BY <1>1, <1>2, <1>3
<1> QED
  BY <1>1, <1>4 DEF IInv, Quiet

(* A stream that ends leaves the client in order. *)
LEMMA StreamEnds ==
  ASSUME IInv
  PROVE  LET c == [client EXCEPT !.stream = "none"]
         IN  /\ c \in Sound /\ c.phase = client.phase
             /\ SameStatus(client, c) /\ SameWishes(client, c)
<1> DEFINE c == [client EXCEPT !.stream = "none"]
<1>1. /\ c \in Clients /\ c.recovery = client.recovery /\ c.timers = client.timers
      /\ c.phase = client.phase /\ c.stream = "none" /\ c.offlineTask = client.offlineTask
      /\ SameSelf(client, c) /\ SameStatus(client, c) /\ SameWishes(client, c)
  BY SoundIs DEF Clients, SameSelf, SameStatus, SameWishes
<1> HIDE DEF c
<1>2. c \in Recoverless
  BY <1>1, SoundIs DEF Recoverless
<1>3. Choices(c) /\ Fits(c, c.status)
  BY <1>1, SoundIs DEF Choices, Fits, ForcedWhole, SameSelf, SameWishes, SameStatus
<1>4. Agreeing(c)
  BY <1>1, SoundIs DEF Agreeing, Required, SameSelf, SameStatus, SameWishes
<1>5. Streaming(c) /\ Waking(c)
  BY <1>1, SoundIs DEF Streaming, Waking, SameStatus
<1> QED
  BY <1>1, <1>2, <1>3, <1>4, <1>5 DEF Sound, Fired, c

(* The loop: the session that was told to switch or to slow down does.      *)
LEMMA OnLoopReceivedKeeps ==
  ASSUME NEW pause \in BOOLEAN, IInv, OnLoopReceived(pause)
  PROVE  IInv' /\ ~Quiet(client)
<1> DEFINE c == [client EXCEPT !.stream = "none"]
<1>1. /\ client.stream = "open"
      /\ client' = IF c.phase # "CREATED" THEN Shutdown(c, FALSE)
                   ELSE IF c.switchRequired THEN SwitchReady(c, c.switchForced, FALSE)
                   ELSE IF c.slowRequired THEN SlowReady(c)
                   ELSE DoPause(c, pause)
  BY DEF OnLoopReceived
<1>2. c \in Sound
  BY StreamEnds
<1> HIDE DEF c
<1>3. /\ c \in Fired /\ c \in Recoverless /\ Choices(c) /\ Fits(c, c.status)
      /\ Agreeing(c) /\ Streaming(c) /\ c.status \in Statuses /\ c.switchForced \in BOOLEAN
  BY <1>2, FieldTypes DEF Sound, Fired, Recoverless
<1>4. CASE c.phase # "CREATED"
  <2>1. c.heeded /\ c.phase = "OFF" => ~c.offlineTask
    BY <1>3 DEF Streaming
  <2>2. Shutdown(c, FALSE) \in Sound
    BY <1>3, <2>1, ShutdownIsSound
  <2> QED
    BY <1>1, <1>4, <2>2 DEF IInv, Quiet
<1>5. CASE c.phase = "CREATED" /\ Required(c)
  <2> DEFINE forced == c.switchRequired /\ c.switchForced
  <2>1. c.heeded /\ c.status.mode = "SWITCHING"
    BY <1>3, <1>5 DEF Agreeing
  <2>2. client' \in {SwitchReady(c, c.switchForced, FALSE), SwitchReady(c, FALSE, FALSE)}
    BY <1>1, <1>5 DEF SlowReady, Required
  <2>3. \A f \in BOOLEAN : SwitchReady(c, f, FALSE) = BindSession(c, f, c.status.polling, c.status.http, FALSE)
    BY <2>1 DEF SwitchReady
  <2>4. c.status.polling \in BOOLEAN /\ c.status.http \in BOOLEAN
    BY <1>3, StatusTypes
  <2>5. Fits(c, Stable(c.status.polling, c.status.http))
    BY <1>3, <2>1, <2>4, StatusTypes DEF Fits
  <2>6. BindSession(c, c.switchForced, c.status.polling, c.status.http, FALSE) \in Sound
    <3>1. c.switchForced => ComboForced(c.option)
      BY <1>3 DEF Choices
    <3> QED
      BY <1>3, <2>4, <2>5, <3>1, BindSessionIsSound
  <2>7. BindSession(c, FALSE, c.status.polling, c.status.http, FALSE) \in Sound
    BY <1>3, <2>4, <2>5, BindSessionIsSound
  <2>8. SwitchReady(c, c.switchForced, FALSE) \in Sound /\ SwitchReady(c, FALSE, FALSE) \in Sound
    BY <1>3, <2>3, <2>6, <2>7
  <2> QED
    BY <1>1, <2>2, <2>8 DEF IInv, Quiet
<1>6. CASE c.phase = "CREATED" /\ ~Required(c)
  <2>1. client' = DoPause(c, pause)
    BY <1>1, <1>6 DEF Required
  <2>2. LaunchTimeout(c, FALSE) \in Sound /\ OnTimeout(c, FALSE, TRUE) \in Sound
    BY <1>3, LaunchTimeoutIsSound, OnTimeoutIsSound
  <2>3. client' \in Sound
    BY <2>1, <2>2 DEF DoPause
  <2> QED
    BY <1>1, <2>3 DEF IInv, Quiet
<1> QED
  BY <1>4, <1>5, <1>6

(* An error of the stream, or of the request for it. *)
LEMMA OnErrorEventKeeps ==
  ASSUME NEW tryRecovery \in BOOLEAN, IInv, OnErrorEvent(tryRecovery)
  PROVE  IInv' /\ ~Quiet(client)
<1> DEFINE c == [client EXCEPT !.stream = "none"]
<1>1. client.stream # "none"
  BY DEF OnErrorEvent
<1>2. PICK timeLeft \in BOOLEAN : client' = ErrorEvent(c, tryRecovery, timeLeft)
  BY DEF OnErrorEvent
<1>3. c \in Sound
  BY StreamEnds
<1> HIDE DEF c
<1>4. client' \in Sound
  BY <1>2, <1>3, ErrorEventIsSound
<1> QED
  BY <1>1, <1>4 DEF IInv, Quiet

(* The server refuses the session for good. *)
LEMMA OnServerErrorKeeps == IInv /\ OnServerError => IInv' /\ ~Quiet(client)
<1>1. IInv => CloseSession(client, TRUE) \in Sound
  BY SoundIs, CloseForGoodIsSound
<1> QED
  BY <1>1 DEF IInv, OnServerError, Quiet

(* The address of the client changed: WebSocket may work again.             *)
LEMMA OnClientIpKeeps == IInv /\ OnClientIp => IInv' /\ ~Quiet(client)
<1> SUFFICES ASSUME IInv, OnClientIp PROVE client' \in Sound /\ ~Quiet(client)
  BY DEF IInv
<1> DEFINE c == [client EXCEPT !.wsDisabled = FALSE]
           any == c.option = AnyTransport
           d == [c EXCEPT !.toWebSocket = @ \/ any]
<1>1. client' = d /\ client.stream = "open"
  BY DEF OnClientIp, RestoreWebSocket
<1>2. /\ c \in Clients /\ c.recovery = client.recovery
      /\ SameSelf(client, c) /\ SameStatus(client, c) /\ SameLife(client, c) /\ SameWishes(client, c)
  BY SoundIs DEF Clients, SameSelf, SameStatus, SameLife, SameWishes
<1> HIDE DEF c
<1>3. c \in Sound
  BY <1>2, SoundIs, AlikeIsSound
<1>4. any \in BOOLEAN /\ (any => c.option = AnyTransport)
  OBVIOUS
<1> HIDE DEF any
<1>5. /\ d \in Clients /\ d.recovery = c.recovery
      /\ (d.toWebSocket => c.toWebSocket \/ any)
      /\ d.option = c.option /\ d.frozen = c.frozen /\ d.forced = c.forced /\ d.http = c.http
      /\ SameStatus(c, d) /\ SameLife(c, d) /\ SameWishes(c, d)
  BY <1>2, <1>4 DEF Clients, SameStatus, SameLife, SameWishes
<1> HIDE DEF d
<1>6. d \in Recoverless
  BY <1>3, <1>5 DEF Sound, Fired, Recoverless, SameLife
<1>7. Choices(d)
  BY <1>3, <1>4, <1>5 DEF Sound, Fired, Choices, ForcedWhole, SameWishes
<1>8. Fits(d, d.status)
  BY <1>3, <1>5 DEF Sound, Fired, Fits, ForcedWhole, SameStatus
<1>9. Agreeing(d)
  BY <1>3, <1>5 DEF Sound, Fired, Agreeing, Required, SameStatus, SameLife, SameWishes
<1>10. Streaming(d) /\ Waking(d)
  BY <1>3, <1>5 DEF Sound, Fired, Streaming, Waking, SameStatus, SameLife
<1> QED
  BY <1>1, <1>6, <1>7, <1>8, <1>9, <1>10 DEF Sound, Fired, Quiet
-----------------------------------------------------------------------------
(* The invariant, and what follows from it.                                *)

(* A client just made, off and heard, is in order. *)
LEMMA InitIsSound == Init => IInv
<1> SUFFICES ASSUME Init PROVE client \in Sound
  BY DEF IInv
<1>1. PICK option \in Transports, callbacks \in BOOLEAN, offline \in BOOLEAN :
        client = [option |-> option, callbacks |-> callbacks, wsDisabled |-> FALSE, offline |-> offline,
                  status |-> Off, frozen |-> FALSE, switchTimer |-> FALSE, serverOpen |-> TRUE,
                  heeded |-> TRUE, phase |-> "OFF", polling |-> ByPolling(option), http |-> ByHttp(option),
                  forced |-> ComboForced(option), earlyOpen |-> EarlyWSOpen, recovery |-> FALSE,
                  switchRequired |-> FALSE, slowRequired |-> FALSE, switchForced |-> FALSE,
                  toWebSocket |-> FALSE, timers |-> NoTimers, offlineTask |-> FALSE, maybeOnline |-> TRUE,
                  stream |-> "none", binding |-> FALSE, ws |-> "NOT_CONNECTED"]
  BY DEF Init
<1> DEFINE polling == ByPolling(option)
           http == ByHttp(option)
           combo == ComboForced(option)
<1>2. polling \in BOOLEAN /\ http \in BOOLEAN /\ combo \in BOOLEAN /\ EarlyWSOpen \in BOOLEAN
  BY OptionsAssumption DEF ByPolling, ByHttp, ComboForced
<1>3. client \in Clients
  <2> HIDE DEF polling, http, combo
  <2> QED
    BY <1>1, <1>2, NoTimersType, StatusTypes DEF Clients, SessionStates, WsStates, polling, http, combo
<1>4. /\ client.option = option /\ client.status = Off /\ ~client.frozen /\ ~client.switchTimer
      /\ client.heeded /\ client.phase = "OFF" /\ (client.http <=> http) /\ (client.forced <=> combo)
      /\ ~client.recovery /\ ~client.switchRequired /\ ~client.slowRequired /\ ~client.switchForced
      /\ ~client.toWebSocket /\ client.timers = NoTimers /\ ~client.offlineTask /\ client.stream = "none"
  BY <1>1
<1>5. client \in Recoverless
  BY <1>3, <1>4, NoTimersType DEF Recoverless
<1>6. ForcedWhole(client) => (http <=> option = "HTTP")
  BY <1>4 DEF ForcedWhole, TransportForced, ByHttp, AnyTransport
<1>7. combo => ComboForced(client.option)
  BY <1>4
<1> HIDE DEF polling, http, combo
<1>8. Choices(client)
  BY <1>4, <1>6, <1>7 DEF Choices
<1>9. client.status.mode = "OFF"
  BY <1>4, StatusTypes
<1>10. Fits(client, client.status) /\ Agreeing(client)
  BY <1>4, <1>9 DEF Fits, Agreeing, Required
<1>11. Streaming(client) /\ Waking(client)
  BY <1>4 DEF Streaming, Waking
<1> QED
  BY <1>5, <1>8, <1>10, <1>11 DEF Sound, Fired

(* Every step keeps it; and only connect and a creation delayed while       *)
(* offline disturb a client that is quiet.                                  *)
LEMMA NextKeeps ==
  ASSUME IInv, [Next]_vars
  PROVE  /\ IInv'
         /\ Quiet(client) /\ ~Quiet(client') => Connect \/ OfflineTask
<1>1. CASE Connect
  BY <1>1, ConnectKeeps
<1>2. CASE Disconnect
  BY <1>2, DisconnectKeeps
<1>3. CASE SwitchTimeout
  <2>1. ~Quiet(client)
    BY <1>3 DEF SwitchTimeout, Quiet
  <2> QED
    BY <1>3, <2>1, SwitchTimeoutKeeps
<1>4. CASE OfflineTask
  BY <1>4, OfflineTaskKeeps
<1>5. CASE ResetMaybeOnline
  BY <1>5, ResetMaybeOnlineKeeps
<1>6. CASE BindSent
  BY <1>6, BindSentKeeps
<1>7. CASE ConnectionOK
  BY <1>7, ConnectionOKKeeps
<1>8. CASE ConnectionError
  BY <1>8, ConnectionErrorKeeps
<1>9. ASSUME NEW flag \in BOOLEAN, Timeout(flag) \/ OnLoopReceived(flag) \/ OnSyncMessage(flag)
      PROVE  IInv' /\ (Quiet(client) => Quiet(client'))
  BY <1>9, TimeoutKeeps, OnLoopReceivedKeeps, OnSyncMessageKeeps
<1>10. ASSUME NEW newLink \in BOOLEAN, NEW sameSession \in BOOLEAN, OnOKReceived(newLink, sameSession)
       PROVE  IInv' /\ ~Quiet(client)
  BY <1>10, OnOKReceivedKeeps
<1>11. CASE OnInterrupted \/ OnSessionLost
  BY <1>11, OnErrorEventKeeps DEF OnInterrupted, OnSessionLost
<1>12. CASE OnEvent
  BY <1>12, OnEventKeeps
<1>13. CASE OnServerError
  BY <1>13, OnServerErrorKeeps
<1>14. CASE OnClientIp
  BY <1>14, OnClientIpKeeps
<1>15. CASE NetworkChanges
  BY <1>15, NetworkChangesKeeps
<1>16. CASE UNCHANGED vars
  <2>1. client' = client
    BY <1>16 DEF vars
  <2> QED
    BY <2>1 DEF IInv
<1> QED
  BY <1>1, <1>2, <1>3, <1>4, <1>5, <1>6, <1>7, <1>8, <1>9, <1>10, <1>11, <1>12, <1>13,
     <1>14, <1>15, <1>16 DEF Next

(* The manager and the session agree in every state. *)
THEOREM SessionAgrees == Spec => []IInv
<1>1. IInv /\ [Next]_vars => IInv'
  BY NextKeeps
<1> QED
  BY <1>1, InitIsSound, PTL DEF Spec

(* Every field keeps its type. *)
THEOREM TypeCorrect == Spec => []TypeOK
<1>1. IInv => TypeOK
  BY SoundIs DEF TypeOK
<1> QED
  BY <1>1, SessionAgrees, PTL

(* No fallback, retry or switch of a live session leaves the transport the  *)
(* application forced.                                                      *)
THEOREM ForcedTransportIsKept == Spec => []FrozenKeepsTransport
<1>1. IInv => FrozenKeepsTransport
  <2> SUFFICES ASSUME IInv, client.frozen, IsAlive(client)
               PROVE  client.status.http = (client.option = "HTTP")
    BY DEF FrozenKeepsTransport
  <2>1. client.status.http <=> client.option = "HTTP"
    BY SoundIs DEF Choices, Fits, IsAlive
  <2>2. client.status \in Statuses
    BY SoundIs, FieldTypes
  <2>3. client.status.http \in BOOLEAN
    BY <2>2, StatusTypes
  <2> QED
    BY <2>1, <2>3
<1> QED
  BY <1>1, SessionAgrees, PTL

(* A session that is to switch has the ear of its manager, and acts on it.  *)
THEOREM SwitchIsHeeded == Spec => []SwitchingIsHeeded
<1>1. IInv => SwitchingIsHeeded
  BY SoundIs DEF SwitchingIsHeeded, Agreeing, Required
<1> QED
  BY <1>1, SessionAgrees, PTL

(* Only an open session has a stream that delivers. *)
THEOREM StreamIsOwned == Spec => []OpenStreamIsOwned
<1>1. IInv => OpenStreamIsOwned
  BY SoundIs DEF OpenStreamIsOwned, Streaming
<1> QED
  BY <1>1, SessionAgrees, PTL

(* A session that sleeps has a timeout to wake it. *)
THEOREM SleeperIsTimed == Spec => []SleeperWillWake
<1>1. IInv => SleeperWillWake
  <2>1. FALSE \in BOOLEAN
    OBVIOUS
  <2> QED
    BY <2>1, SoundIs DEF SleeperWillWake, Waking
<1> QED
  BY <1>1, SessionAgrees, PTL

(* After disconnect nothing but connect, or a creation delayed while        *)
(* offline, sets the session going again.                                   *)
THEOREM DisconnectLasts == Spec => StaysDisconnected
<1>1. IInv /\ [Next]_vars =>
        [(Disconnect => Quiet(client')) /\ (Quiet(client) /\ ~Quiet(client') => Connect \/ OfflineTask)]_vars
  <2> SUFFICES ASSUME IInv, [Next]_vars
               PROVE  (Disconnect => Quiet(client'))
                      /\ (Quiet(client) /\ ~Quiet(client') => Connect \/ OfflineTask)
    OBVIOUS
  <2> QED
    BY NextKeeps, DisconnectKeeps
<1> QED
  BY <1>1, SessionAgrees, PTL DEF Spec, StaysDisconnected

(* The recovery of a session is only ever asked for by a session that is    *)
(* recovering, so none is: a session interrupted is created anew.           *)
THEOREM NeverRecovers == Spec => [](~client.recovery /\ client.timers[TRUE] = 0)
<1>1. IInv => ~client.recovery /\ client.timers[TRUE] = 0
  BY SoundIs DEF Recoverless
<1> QED
  BY <1>1, SessionAgrees, PTL
=============================================================================
