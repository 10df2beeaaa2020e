-------------------------------- MODULE ItemData --------------------------------
(***************************************************************************)
(* What a Subscription keeps of the items of a subscription: for each its   *)
(* SnapshotManager and the last values of its fields, and in COMMAND mode    *)
(* the last values of each row, which the updates of the session thread      *)
(* change while the first level pushes, and the application reads at any     *)
(* time.                                                                    *)
(*                                                                          *)
(* An update of a COMMAND item is a key, or the word for one unchanged, and  *)
(* a value.  organizeMPUpdate leaves the change of the values to a comment;  *)
(* updateStructure is taken there, for the item and then for the row, and    *)
(* the managers are made where onSubscribed leaves the "necessary setup" to  *)
(* one.  Nothing clears the values but clearSnapshot, as cleanData is not     *)
(* called.  An update is told with isSnapshot as it is once the manager       *)
(* counted it.                                                               *)
(***************************************************************************)
EXTENDS Naturals

CONSTANTS
  Items,
  RowKeys,         (* keys of rows                     *)
  RowValues,       (* values of the rows' other field  *)
  MaxDataEvents    (* bound: events of the server      *)

ASSUME DataAssumption == MaxDataEvents \in Nat

VARIABLES
  dataMode,        (* Subscription.mode                                           *)
  snapshot,        (* Subscription.isRequiredSnapshot: "", "no" or "yes"          *)
  itemsPhase,      (* its phase                                                   *)
  itemsSubscribed, (* did SUBOK come in this phase                                *)
  itemsActive,     (* Subscription.isActive                                       *)
  snapshotByItem,  (* the managers                                                *)
  keyByItem,       (* oldValuesByItem, of the key field                           *)
  oldValuesByKey,  (* of the other field, for each item and key                   *)
  sentData,        (* what the server sent since onSubscribed: how many updates,  *)
                   (* did EOS come, the last key and the rows                     *)
  unheard,         (* items of which an event came while it was not active        *)
  forgotten,       (* rows of each item that a clear of the snapshot forgot since  *)
                   (* their last update                                           *)
  flagged,         (* of the last update told: its isSnapshot, was it the item's  *)
                   (* first, had EOS come, was any event before it not heard      *)
  dataEvents

ofValues == <<snapshotByItem, keyByItem, oldValuesByKey>>
ofPhase  == <<itemsPhase, itemsSubscribed, itemsActive>>
monitors == <<sentData, unheard, forgotten>>
dataVars == <<dataMode, snapshot, ofPhase, ofValues, monitors, flagged, dataEvents>>

Nothing == "nothing"
NoRows  == [k \in RowKeys |-> Nothing]
NewManager == [state |-> "NO_UPDATE_RECEIVED", firstUpdate |-> TRUE, eosReceived |-> FALSE]
NothingSent == [updates |-> 0, eos |-> FALSE, key |-> Nothing, rows |-> NoRows]

TablePhases == {"OFF", "WAITING", "PAUSED", "SUBSCRIBING", "PUSHING"}
DataTypeOK ==
  /\ dataMode \in {"MERGE", "DISTINCT", "COMMAND", "RAW"} /\ snapshot \in {"", "no", "yes"}
  /\ itemsPhase \in TablePhases /\ itemsSubscribed \in BOOLEAN /\ itemsActive \in BOOLEAN
  /\ snapshotByItem \in [Items -> [state : {"NO_UPDATE_RECEIVED", "ONE_UPDATE_RECEIVED", "MORE_THAN_ONE_UPDATE_RECEIVED"},
                                   firstUpdate : BOOLEAN, eosReceived : BOOLEAN]]
  /\ keyByItem \in [Items -> RowKeys \cup {Nothing}]
  /\ oldValuesByKey \in [Items -> [RowKeys -> RowValues \cup {Nothing}]]
  /\ sentData \in [Items -> [updates : 0..MaxDataEvents, eos : BOOLEAN, key : RowKeys \cup {Nothing},
                         rows : [RowKeys -> RowValues \cup {Nothing}]]]
  /\ unheard \subseteq Items /\ forgotten \in [Items -> SUBSET RowKeys]
  /\ flagged \in [is : BOOLEAN, first : BOOLEAN, eos : BOOLEAN, late : BOOLEAN]
  /\ dataEvents \in 0..MaxDataEvents
-----------------------------------------------------------------------------
(* SnapshotManager. *)

(* Mutant: the second update is taken for a first one. *)
SnapshotUpdateOnce(m) == [m EXCEPT !.state = IF @ = "NO_UPDATE_RECEIVED" THEN "ONE_UPDATE_RECEIVED" ELSE @]
SnapshotUpdate(m) ==
  CASE m.state = "NO_UPDATE_RECEIVED"  -> [m EXCEPT !.state = "ONE_UPDATE_RECEIVED"]
    [] m.state = "ONE_UPDATE_RECEIVED" -> [m EXCEPT !.state = "MORE_THAN_ONE_UPDATE_RECEIVED", !.firstUpdate = FALSE]
    [] OTHER -> m

EndOfSnapshot(m) == [m EXCEPT !.eosReceived = TRUE]

SnapshotRequested == snapshot \notin {"", "no"}
IsSnapshot(m) ==
  SnapshotRequested /\ CASE dataMode = "MERGE" -> m.firstUpdate
                         [] dataMode \in {"COMMAND", "DISTINCT"} -> ~m.eosReceived
                         [] OTHER -> FALSE
-----------------------------------------------------------------------------
(* Events of the server, which come after its SUBOK. *)
Event ==
  /\ itemsSubscribed
  /\ dataEvents < MaxDataEvents /\ dataEvents' = dataEvents + 1
  /\ UNCHANGED <<dataMode, snapshot, ofPhase>>

(* What the server sent of an item, with an update of a row. *)
SentRow(data, row, value) ==
  [data EXCEPT !.updates = @ + 1, !.key = row, !.rows = [data.rows EXCEPT ![row] = value]]
SentUpdate(data, key, value) ==
  IF dataMode = "COMMAND" THEN SentRow(data, IF key = Nothing THEN data.key ELSE key, value)
                          ELSE [data EXCEPT !.updates = @ + 1]

(* checkStatusForUpdate drops the event unless the subscription is active and *)
(* pushes. *)
CheckStatusForUpdate == itemsActive /\ itemsPhase = "PUSHING"
Unheard(i) ==
  /\ ~CheckStatusForUpdate
  /\ unheard' = unheard \cup {i}
  /\ UNCHANGED <<ofValues, forgotten, flagged>>

(* Mutant: an unchanged key is none. *)
KeyAsSent(i, key) == IF key = Nothing THEN CHOOSE k \in RowKeys : k # keyByItem[i] ELSE key
(* organizeMPUpdate, handleMultiTableSubscriptions: whose row it is. *)
ExtendedKey(i, key) == IF key = Nothing THEN keyByItem[i] ELSE key

(* update, with organizeMPUpdate and updateStructure.  Without a key before it *)
(* an unchanged one is the empty key, of a row that nobody asks for. *)
Update(i, key, value) ==
  /\ CheckStatusForUpdate
  /\ snapshotByItem' = [snapshotByItem EXCEPT ![i] = SnapshotUpdate(@)]
  /\ flagged' = [is |-> IsSnapshot(snapshotByItem'[i]), first |-> sentData[i].updates = 0, eos |-> sentData[i].eos,
                 late |-> i \in unheard]
  /\ IF dataMode = "COMMAND"
     THEN LET row == ExtendedKey(i, key)
          IN  /\ keyByItem' = [keyByItem EXCEPT ![i] = row]
              /\ oldValuesByKey' = [oldValuesByKey EXCEPT ![i] = [k \in RowKeys |-> IF k = row THEN value ELSE @[k]]]
              /\ forgotten' = [forgotten EXCEPT ![i] = @ \ {row}]
     ELSE UNCHANGED <<keyByItem, oldValuesByKey, forgotten>>
  /\ UNCHANGED unheard

(* The server's first key of an item is never unchanged. *)
ItemUpdate(i, key, value) ==
  /\ Event
  /\ key = Nothing => dataMode # "COMMAND" \/ sentData[i].key # Nothing
  /\ sentData' = [sentData EXCEPT ![i] = SentUpdate(@, key, value)]
  /\ Update(i, key, value) \/ Unheard(i)

(* endOfSnapshot. *)
HeardEndOfSnapshot(i) ==
  /\ CheckStatusForUpdate
  /\ snapshotByItem' = [snapshotByItem EXCEPT ![i] = EndOfSnapshot(@)]
  /\ UNCHANGED <<keyByItem, oldValuesByKey, unheard, forgotten, flagged>>
ItemEndOfSnapshot(i) ==
  /\ Event
  /\ sentData' = [sentData EXCEPT ![i].eos = TRUE]
  /\ HeardEndOfSnapshot(i) \/ Unheard(i)

(* clearSnapshot: the rows of every item are forgotten. *)
HeardClearSnapshot ==
  /\ CheckStatusForUpdate
  /\ IF dataMode = "COMMAND"
     THEN oldValuesByKey' = [j \in Items |-> NoRows] /\ forgotten' = [j \in Items |-> RowKeys]
     ELSE UNCHANGED <<oldValuesByKey, forgotten>>
  /\ UNCHANGED <<snapshotByItem, keyByItem, unheard, flagged>>
ItemClearSnapshot(i) ==
  /\ Event
  /\ sentData' = [sentData EXCEPT ![i].rows = NoRows]
  /\ HeardClearSnapshot \/ Unheard(i)

(* setActive, setInactive: subscribe and unsubscribe of the application, which *)
(* the session's thread hears of later. *)
TurnActive ==
  /\ itemsActive' = ~itemsActive
  /\ UNCHANGED <<dataMode, snapshot, itemsPhase, itemsSubscribed, ofValues, monitors, flagged, dataEvents>>

(* The phases, as SubscriptionManager moves the subscription through them.   *)
Moves(from, to) ==
  /\ itemsPhase \in from /\ itemsPhase' = to
  /\ itemsSubscribed' = (itemsSubscribed /\ to = "PUSHING")
  /\ UNCHANGED <<dataMode, snapshot, itemsActive, ofValues, monitors, flagged, dataEvents>>
OnAdd == Moves({"OFF"}, "WAITING")
OnStart == Moves({"PAUSED"}, "WAITING")
OnSubscriptionSent == Moves({"WAITING", "SUBSCRIBING"}, "SUBSCRIBING")
OnSubscriptionAck == Moves({"SUBSCRIBING"}, "PUSHING")
OnItemsError == Moves({"SUBSCRIBING"}, "PAUSED")
OnPause == Moves({"WAITING", "SUBSCRIBING", "PUSHING"}, "PAUSED")
OnRemove == Moves({"WAITING", "PAUSED", "SUBSCRIBING", "PUSHING"}, "OFF")

(* Mutant: the managers of the last time stay. *)
OnSubscribedAgain ==
  /\ itemsPhase \in {"SUBSCRIBING", "PUSHING"} /\ itemsPhase' = "PUSHING"
  /\ ~itemsSubscribed /\ itemsSubscribed' = TRUE
  /\ sentData' = [i \in Items |-> NothingSent] /\ unheard' = {} /\ forgotten' = [i \in Items |-> {}]
  /\ UNCHANGED <<dataMode, snapshot, itemsActive, ofValues, flagged, dataEvents>>
(* onSubscribed, of each session: SUBOK, before or after the request's own   *)
(* answer. *)
OnSubscribed ==
  /\ itemsPhase \in {"SUBSCRIBING", "PUSHING"} /\ itemsPhase' = "PUSHING"
  /\ ~itemsSubscribed /\ itemsSubscribed' = TRUE
  /\ snapshotByItem' = [i \in Items |-> NewManager]
  /\ sentData' = [i \in Items |-> NothingSent] /\ unheard' = {} /\ forgotten' = [i \in Items |-> {}]
  /\ UNCHANGED <<dataMode, snapshot, itemsActive, keyByItem, oldValuesByKey, flagged, dataEvents>>
-----------------------------------------------------------------------------
DataInit ==
  /\ dataMode \in {"MERGE", "DISTINCT", "COMMAND", "RAW"}
  /\ snapshot \in (IF dataMode = "RAW" THEN {"", "no"} ELSE {"", "no", "yes"})
  /\ itemsPhase = "OFF" /\ itemsSubscribed = FALSE /\ itemsActive = FALSE
  /\ snapshotByItem = [i \in Items |-> NewManager]
  /\ keyByItem = [i \in Items |-> Nothing] /\ oldValuesByKey = [i \in Items |-> NoRows]
  /\ sentData = [i \in Items |-> NothingSent] /\ unheard = {} /\ forgotten = [i \in Items |-> {}]
  /\ flagged = [is |-> FALSE, first |-> FALSE, eos |-> TRUE, late |-> FALSE] /\ dataEvents = 0

DataNext ==
  \/ \E i \in Items : \/ \E key \in RowKeys \cup {Nothing}, value \in RowValues : ItemUpdate(i, key, value)
                      \/ ItemEndOfSnapshot(i) \/ ItemClearSnapshot(i)
  \/ TurnActive
  \/ OnAdd \/ OnStart \/ OnSubscriptionSent \/ OnSubscriptionAck \/ OnSubscribed \/ OnItemsError \/ OnPause \/ OnRemove
DataSpec == DataInit /\ [][DataNext]_dataVars
-----------------------------------------------------------------------------
(* Properties.                                                             *)

(* The table at SnapshotManager: an update is told as of the snapshot if the *)
(* snapshot was requested and, in MERGE mode, it is the item's first, in      *)
(* DISTINCT and COMMAND mode EOS has not come.  And a row that the server     *)
(* sent reads the value it sent last, through all updates of an unchanged     *)
(* key, but none exactly if the snapshot of some item was cleared since.      *)
(* Both of items of which every event since SUBOK was heard.                  *)
FlagsAreRight ==
  flagged.late \/ (flagged.is <=> /\ snapshot = "yes"
                                  /\ \/ dataMode = "MERGE" /\ flagged.first
                                     \/ dataMode \in {"DISTINCT", "COMMAND"} /\ ~flagged.eos)
RowsAsSent ==
  \A i \in Items \ unheard, k \in RowKeys :
    sentData[i].rows[k] # Nothing =>
      oldValuesByKey[i][k] = IF k \in forgotten[i] THEN Nothing ELSE sentData[i].rows[k]
ItemsAsSent == FlagsAreRight /\ RowsAsSent
===============================================================================
