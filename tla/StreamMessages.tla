---------------------------- MODULE StreamMessages ----------------------------
(***************************************************************************)
(* The messages of the stream connection: the handlers of TextProtocol that *)
(* parse them and pass them to the session, the count of data notifications *)
(* by which a recovered session tells the ones it has seen, and the         *)
(* StreamListener before them.                                              *)
(*                                                                          *)
(* onProtocolMessage, which is to find the handler of a message, names only *)
(* a few and leaves the others to be completed; each message is taken to    *)
(* the handler of its name, and a handler does what is written.  The count  *)
(* Session.dataNotificationCount is kept as ProtocolListener declares it:   *)
(* onDataNotification counts, getDataNotificationProg tells.  currentProg   *)
(* is the optional number that its uses make of it.                         *)
(*                                                                          *)
(* The server numbers all data notifications of a session.  On a recovery   *)
(* it is told how many the client counted and resumes after any of them,    *)
(* saying where with PROG.  Updates are of one item.  A value that a field  *)
(* takes is the number of the update that brought it; null and the empty    *)
(* value both arrive as an empty string and so are one value, like the      *)
(* others.  The client's messages are numbered from 1, and the server       *)
(* settles them in their order.                                             *)
(*                                                                          *)
(* No session of this code starts a recovery (NeverRecovers, of Session):    *)
(* what is said of one here is what the handlers keep to if one does.        *)
(***************************************************************************)
EXTENDS Naturals, Sequences, SequencesExt, FiniteSetsExt, RecursiveData

CONSTANTS
  FieldCount,      (* fields of the item                *)
  MaxNotes,        (* bound: data notifications         *)
  MaxRecoveries    (* bound: stream connections lost    *)

ASSUME StreamAssumption == FieldCount \in Nat \ {0} /\ MaxNotes \in Nat /\ MaxRecoveries \in Nat

VARIABLES
  noteLog,         (* what the server notified, in order                      *)
  streamStatus,    (* TextProtocol.status, of the newest protocol             *)
  streamAt,        (* how many of noteLog this connection has behind it       *)
  broken,          (* the connection is gone                                  *)
  progDue,         (* PROG is the next message                                *)
  notesCounted,    (* Session.dataNotificationCount                           *)
  currentProg,     (* TextProtocol.currentProg, or NoProg                       *)
  notesPassed,     (* the notifications passed to the session, in order       *)
  itemSeen,        (* the item as these show it                               *)
  messagesTold,    (* the client's messages whose outcome it was told         *)
  misplaced,       (* was a PROG ignored that contradicts currentProg         *)
  recoveries

streamVars == <<noteLog, streamStatus, streamAt, broken, progDue, notesCounted, currentProg, notesPassed,
                itemSeen, messagesTold, misplaced, recoveries>>

NoProg == MaxNotes * (MaxRecoveries + 1) + 1
Changed   == [is |-> "value", count |-> 1]
Run(n)    == [is |-> "run", count |-> n]
Tokens    == {Changed} \cup {Run(n) : n \in 1..FieldCount}
Width(ts) == Folded([p \in Nat \X Tokens |-> p[1] + p[2].count], 0, ts)
Updates   == {ts \in SeqOf(Tokens, FieldCount) : Width(ts) = FieldCount}
(* count is of the client's messages that the notification settles. *)
Notes == [kind : {"update"}, tokens : Updates, count : {0}]
         \cup [kind : {"snapshot", "table", "mpn", "conf", "overflow"}, tokens : {<<>>}, count : {0}]
         \cup [kind : {"message"}, tokens : {<<>>}, count : 1..2]

StreamTypeOK ==
  /\ noteLog \in Seq(Notes) /\ Len(noteLog) <= MaxNotes
  /\ streamStatus \in {"OPENING_STREAM", "READING_STREAM", "STREAM_CLOSED"}
  /\ streamAt \in 0..Len(noteLog) /\ broken \in BOOLEAN /\ progDue \in BOOLEAN
  /\ notesCounted \in 0..NoProg /\ currentProg \in 0..NoProg
  /\ notesPassed \in Seq(DOMAIN noteLog)
  /\ itemSeen \in [1..FieldCount -> 0..Len(noteLog)]
  /\ messagesTold \in Seq(Nat)
  /\ misplaced \in BOOLEAN /\ recoveries \in 0..MaxRecoveries

(* onIllegalMessage, and the errors after which the session closes. *)
SessionEnds == streamStatus' = "STREAM_CLOSED"
-----------------------------------------------------------------------------
(* The fields of an update: one of ^n stands for n of them, an empty one for *)
(* itself alone.                                                             *)
Unchanged == 0
ValuesOf(token, value) == [i \in 1..token.count |-> IF token.is = "value" THEN value ELSE Unchanged]
FieldsOf(tokens, value) ==
  Folded([p \in Seq({Unchanged, value}) \X Tokens |-> p[1] \o ValuesOf(p[2], value)], <<>>, tokens)
(* updateStructure: an unchanged field keeps its value. *)
UpdateOf(item, tokens, value) ==
  LET fields == FieldsOf(tokens, value) IN [f \in 1..FieldCount |-> IF fields[f] = Unchanged THEN item[f] ELSE fields[f]]

(* What the first n notifications of a log come to, each heard once and in    *)
(* its order: those that count, the item they show and how many of the        *)
(* client's messages they settle. *)
NothingHeard == [counted |-> <<>>, item |-> [f \in 1..FieldCount |-> 0], settled |-> 0]
Hearing(heard, i, note) ==
  [counted |-> IF note.kind \in {"conf", "overflow"} THEN heard.counted ELSE Append(heard.counted, i),
   item    |-> IF note.kind = "update" THEN UpdateOf(heard.item, note.tokens, i) ELSE heard.item,
   settled |-> heard.settled + note.count]
HeardOf(log, n) ==
  LET heard[i \in 0..n] == IF i = 0 THEN NothingHeard ELSE Hearing(heard[i - 1], i, log[i])
  IN  heard[n]

(* onMsgErrorMessage: an error 39 discards as many messages as it says, the  *)
(* named one being the last of them. *)
Discarded(messageNumber, count) == [i \in 1..count |-> messageNumber - count + i]

(* Mutant: the last one seen is not skipped. *)
IsNewFromLast == currentProg = NoProg \/ currentProg + 1 >= notesCounted
(* processCountableNotification: is the notification a new one. *)
IsNew == currentProg = NoProg \/ currentProg + 1 > notesCounted
CountNotification ==
  /\ currentProg' = (IF currentProg = NoProg THEN NoProg ELSE currentProg + 1)
  /\ notesCounted' = (IF IsNew THEN notesCounted + 1 ELSE notesCounted)

(* A message of a listener that is not disabled, while the stream is read. *)
NextNote == noteLog[streamAt + 1]
Reads(kind) ==
  /\ streamStatus = "READING_STREAM" /\ ~broken /\ ~progDue /\ streamAt < Len(noteLog)
  /\ NextNote.kind = kind
  /\ streamAt' = streamAt + 1
  /\ UNCHANGED <<noteLog, streamStatus, broken, progDue, misplaced, recoveries>>
PassOn ==
  /\ CountNotification
  /\ notesPassed' = (IF IsNew THEN Append(notesPassed, streamAt + 1) ELSE notesPassed)

ProcessUpdate ==
  /\ Reads("update") /\ PassOn
  /\ itemSeen' = (IF IsNew THEN UpdateOf(itemSeen, NextNote.tokens, streamAt + 1) ELSE itemSeen)
  /\ UNCHANGED messagesTold

(* processEOS and processCS. *)
ProcessSnapshot == Reads("snapshot") /\ PassOn /\ UNCHANGED <<itemSeen, messagesTold>>
(* processUNSUB and processSUBOK. *)
ProcessTable == Reads("table") /\ PassOn /\ UNCHANGED <<itemSeen, messagesTold>>
(* processMPNREG, processMPNOK, processMPNDEL and processMPNZERO. *)
ProcessMPN == Reads("mpn") /\ PassOn /\ UNCHANGED <<itemSeen, messagesTold>>

ProcessUserMessage ==
  /\ Reads("message") /\ PassOn
  /\ messagesTold' = (IF IsNew THEN messagesTold \o Discarded(HeardOf(noteLog, streamAt + 1).settled, NextNote.count) ELSE messagesTold)
  /\ UNCHANGED itemSeen

(* processCONF and processOV neither count the notification nor pass it on. *)
Ignored(kind) == Reads(kind) /\ UNCHANGED <<notesCounted, currentProg, notesPassed, itemSeen, messagesTold>>
ProcessCONF == Ignored("conf")
ProcessOV == Ignored("overflow")

(* The first PROG is where currentProg starts, and must not be beyond a      *)
(* number that is always 0; any later one is ignored. *)
ProcessPROG ==
  /\ streamStatus = "READING_STREAM" /\ ~broken /\ progDue
  /\ progDue' = FALSE
  /\ \/ /\ currentProg = NoProg
        /\ currentProg' = streamAt
        /\ IF streamAt > 0 THEN SessionEnds ELSE UNCHANGED streamStatus
        /\ UNCHANGED misplaced
     \/ /\ currentProg # NoProg
        /\ misplaced' = (misplaced \/ Len(HeardOf(noteLog, streamAt).counted) # currentProg)
        /\ UNCHANGED <<currentProg, streamStatus>>
  /\ UNCHANGED <<noteLog, streamAt, broken, notesCounted, notesPassed, itemSeen, messagesTold, recoveries>>

(* processLOOP looks for the form of an OV message, and so a LOOP is illegal. *)
ProcessLOOP ==
  /\ streamStatus = "READING_STREAM" /\ ~broken /\ ~progDue
  /\ SessionEnds
  /\ UNCHANGED <<noteLog, streamAt, broken, progDue, notesCounted, currentProg, notesPassed, itemSeen, messagesTold,
                 misplaced, recoveries>>

(* The connection closes or breaks: interruptSession keeps it to itself. *)
StreamEnds ==
  /\ streamStatus = "READING_STREAM" /\ ~broken
  /\ broken' = TRUE
  /\ UNCHANGED <<noteLog, streamStatus, streamAt, progDue, notesCounted, currentProg, notesPassed, itemSeen,
                 messagesTold, misplaced, recoveries>>

(* The server says that it ends the session, and closes the connection:      *)
(* processEND keeps that to itself, too. *)
ProcessEND ==
  /\ streamStatus = "READING_STREAM" /\ ~broken /\ ~progDue
  /\ broken' = TRUE
  /\ UNCHANGED <<noteLog, streamStatus, streamAt, progDue, notesCounted, currentProg, notesPassed, itemSeen,
                 messagesTold, misplaced, recoveries>>
-----------------------------------------------------------------------------
(* Session.recoverSession on a new protocol that got a copy of currentProg.  *)
(* The listener of the previous one is disabled, whatever it still reads. *)
RecoverStream ==
  /\ streamStatus = "READING_STREAM" /\ recoveries < MaxRecoveries
  /\ recoveries' = recoveries + 1
  /\ streamStatus' = "OPENING_STREAM" /\ broken' = FALSE /\ progDue' = FALSE
  /\ UNCHANGED <<noteLog, streamAt, notesCounted, currentProg, notesPassed, itemSeen, messagesTold, misplaced>>

(* The session is created, or recovered from one of the counted ones on. *)
ProcessCONOK ==
  /\ streamStatus = "OPENING_STREAM"
  /\ streamStatus' = "READING_STREAM"
  /\ streamAt' \in {n \in 0..notesCounted : n <= Len(noteLog)}
  /\ progDue' = (recoveries > 0)
  /\ UNCHANGED <<noteLog, broken, notesCounted, currentProg, notesPassed, itemSeen, messagesTold, misplaced, recoveries>>

(* ... or refused, whatever the error means to the session. *)
ProcessCONERR ==
  /\ streamStatus = "OPENING_STREAM"
  /\ SessionEnds
  /\ UNCHANGED <<noteLog, streamAt, broken, progDue, notesCounted, currentProg, notesPassed, itemSeen, messagesTold,
                 misplaced, recoveries>>

ServerNotifies(note) ==
  /\ streamStatus = "READING_STREAM" /\ Len(noteLog) < MaxNotes
  /\ noteLog' = Append(noteLog, note)
  /\ UNCHANGED <<streamStatus, streamAt, broken, progDue, notesCounted, currentProg, notesPassed, itemSeen,
                 messagesTold, misplaced, recoveries>>
-----------------------------------------------------------------------------
StreamInit ==
  /\ noteLog = <<>> /\ streamStatus = "OPENING_STREAM" /\ streamAt = 0 /\ broken = FALSE /\ progDue = FALSE
  /\ notesCounted = 0 /\ currentProg = NoProg /\ notesPassed = <<>>
  /\ itemSeen = [f \in 1..FieldCount |-> 0] /\ messagesTold = <<>>
  /\ misplaced = FALSE /\ recoveries = 0

StreamNext ==
  \/ ProcessUpdate \/ ProcessSnapshot \/ ProcessTable \/ ProcessMPN \/ ProcessUserMessage \/ ProcessCONF \/ ProcessOV
  \/ ProcessPROG \/ ProcessLOOP \/ ProcessEND \/ StreamEnds \/ RecoverStream \/ ProcessCONOK \/ ProcessCONERR
  \/ \E note \in Notes : ServerNotifies(note)
StreamSpec == StreamInit /\ [][StreamNext]_streamVars
-----------------------------------------------------------------------------
(* Properties.                                                             *)

(* Whatever breaks, even while notifications come again that the client has  *)
(* seen, each is passed to the session once and in its order; the item shows  *)
(* what the last of them says and the outcome of each message is told once,   *)
(* as long as no PROG was ignored that says otherwise than currentProg.       *)
PassedOnceInOrder ==
  LET shown == HeardOf(noteLog, Last(<<0>> \o notesPassed))
  IN  ~misplaced =>
        /\ IsPrefix(notesPassed, HeardOf(noteLog, Len(noteLog)).counted)
        /\ itemSeen = shown.item
        /\ messagesTold = [i \in 1..shown.settled |-> i]
===============================================================================
