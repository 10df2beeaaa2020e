------------------------- MODULE SubscriptionSettings -------------------------
(***************************************************************************)
(* The configuration of a Subscription.  Users set it under the             *)
(* subscription's lock, after the check that it is not active.  Subscribing *)
(* and unsubscribing make it active and inactive under the client's lock    *)
(* alone, and the session thread reads it, with no lock, for every          *)
(* SubscribeRequest it generates.                                           *)
(*                                                                          *)
(* isActive and isActive_ are taken as the one flag the code means by both. *)
(* setActive leaves the checks of items and fields to a comment: here a     *)
(* subscription without is not made active.  The request takes the          *)
(* parameters its constructor names, which generateSubscribeRequest leaves  *)
(* to a comment.  A name is "set" or not, a list or the name of a group is  *)
(* only that, and a number is one of a few.                                 *)
(***************************************************************************)
EXTENDS Integers

CONSTANTS
  Modes,        (* subscription modes tried         *)
  MaxSettings   (* bound: calls of setters          *)

ASSUME SettingsAssumption ==
  Modes \subseteq {"MERGE", "DISTINCT", "RAW", "COMMAND"} /\ MaxSettings \in Nat

VARIABLES
  mode,            (* Subscription.mode                                        *)
  settings,        (* the fields that the setters write                        *)
  settingsActive,  (* Subscription.isActive                                    *)
  setter,          (* the call of a setter past its check, holding the lock    *)
  requested,       (* the parameters of the last SubscribeRequest of this      *)
                   (* activation, or NotRequested                              *)
  tableRequest,    (* those of the last second-level subscription it made, or  *)
                   (* NoTableRequest                                           *)
  settingRaces,    (* did a setter write after an activation it had not seen   *)
  settingCalls     (* calls of setters                                         *)

settingsVars == <<mode, settings, settingsActive, setter, requested, tableRequest, settingRaces, settingCalls>>

FREQUENCY_NULL == -2
FREQUENCY_UNFILTERED == -1
FREQUENCY_UNLIMITED == 0
BUFFER_NULL == -1
BUFFER_UNLIMITED == 0

(* An argument is a word or a number: one with no meaning, one that has one  *)
(* as a frequency only, zero and a plain one. *)
Numbers == {-3, -1, 0, 2}
Word(w)   == [word |-> w, number |-> 0]
Number(n) == [word |-> "number", number |-> n]
Arguments == {Word(w) : w \in {"null", "unlimited", "unfiltered", "yes", "no", "other"}} \cup {Number(n) : n \in Numbers}
Setters == [set : {"DataAdapter", "Selector", "Items", "ItemGroup", "Fields", "FieldSchema", "SecondLevelDataAdapter",
                   "SecondLevelFields", "SecondLevelFieldSchema"}, to : {Word("other")}]
           \cup [set : {"RequestedBufferSize", "RequestedSnapshot", "RequestedMaxFrequency"}, to : Arguments]
NoSetter == [set |-> "none", to |-> Word("other")]
Settings == [dataAdapter : BOOLEAN, selector : BOOLEAN, items : {"none", "list", "group"}, fields : {"none", "list", "group"},
             buffer : Numbers \cup {BUFFER_NULL, BUFFER_UNLIMITED}, snapshot : Arguments \cup {Word("")},
             frequency : Numbers \cup {FREQUENCY_NULL, FREQUENCY_UNFILTERED, FREQUENCY_UNLIMITED},
             under : BOOLEAN, underFields : {"none", "list", "group"}]
-----------------------------------------------------------------------------
(* What each setter makes of the settings, with the getter of the same       *)
(* setting: a set, which is empty when the setter throws.                    *)

SetDataAdapter(s) == {[s EXCEPT !.dataAdapter = TRUE]}
GetDataAdapter(s) == s.dataAdapter
SetSelector(s) == {[s EXCEPT !.selector = TRUE]}
GetSelector(s) == s.selector

SetItems(s) == {[s EXCEPT !.items = "list"]}
SetItemGroup(s) == {[s EXCEPT !.items = "group"]}
(* getItems, getItemGroup: the one of the wrong kind throws. *)
GetItems(s) == IF s.items = "list" THEN "list" ELSE "throws"
GetItemGroup(s) == IF s.items = "group" THEN "group" ELSE "throws"

SetFields(s) == {[s EXCEPT !.fields = "list"]}
SetFieldSchema(s) == {[s EXCEPT !.fields = "group"]}
GetFields(s) == IF s.fields = "list" THEN "list" ELSE "throws"
GetFieldSchema(s) == IF s.fields = "group" THEN "group" ELSE "throws"

SetRequestedBufferSize(s, to) ==
  {[s EXCEPT !.buffer = n] :
     n \in (CASE to.word = "null"      -> {BUFFER_NULL}
              [] to.word = "unlimited" -> {BUFFER_UNLIMITED}
              [] to.word = "number"    -> {to.number} \cap Nat
              [] OTHER                 -> {})}
GetRequestedBufferSize(s) ==
  CASE s.buffer = BUFFER_NULL      -> Word("null")
    [] s.buffer = BUFFER_UNLIMITED -> Word("unlimited")
    [] OTHER                       -> Number(s.buffer)

SetRequestedSnapshot(s, to) ==
  {[s EXCEPT !.snapshot = to] :
     x \in {to.word} \cap (IF mode = "RAW" THEN {"no"} ELSE {"yes", "no"} \cup (IF mode = "DISTINCT" THEN {"number"} ELSE {}))}
GetRequestedSnapshot(s) == s.snapshot

(* Any number is taken, also those that stand for something else. *)
SetRequestedMaxFrequency(s, to) ==
  {[s EXCEPT !.frequency = n] :
     n \in (CASE to.word = "null"       -> {FREQUENCY_NULL}
              [] to.word = "unfiltered" -> {FREQUENCY_UNFILTERED}
              [] to.word = "unlimited"  -> {FREQUENCY_UNLIMITED}
              [] to.word = "number"     -> {to.number}
              [] OTHER                  -> {})}
GetRequestedMaxFrequency(s) ==
  CASE s.frequency = FREQUENCY_UNFILTERED -> Word("unfiltered")
    [] s.frequency = FREQUENCY_NULL       -> Word("null")
    [] s.frequency = FREQUENCY_UNLIMITED  -> Word("unlimited")
    [] OTHER                              -> Number(s.frequency)

GetCommandSecondLevelDataAdapter(s) == s.under
(* Each throws where nothing is set, and reads through a null pointer where  *)
(* the other is. *)
GetCommandSecondLevelFields(s) == [none |-> "throws", list |-> "list", group |-> "undefined"][s.underFields]
GetCommandSecondLevelFieldSchema(s) == [none |-> "throws", list |-> "undefined", group |-> "group"][s.underFields]
SetCommandSecondLevelDataAdapter(s) == {[s EXCEPT !.under = TRUE]}
SetCommandSecondLevelFields(s) == {[s EXCEPT !.underFields = f] : f \in {"list"} \cap (IF mode = "COMMAND" THEN {"list"} ELSE {})}
SetCommandSecondLevelFieldSchema(s) ==
  {[s EXCEPT !.underFields = f] : f \in {"group"} \cap (IF mode = "COMMAND" THEN {"group"} ELSE {})}

Outcomes(call, s) ==
  CASE call.set = "DataAdapter"            -> SetDataAdapter(s)
    [] call.set = "Selector"               -> SetSelector(s)
    [] call.set = "Items"                  -> SetItems(s)
    [] call.set = "ItemGroup"              -> SetItemGroup(s)
    [] call.set = "Fields"                 -> SetFields(s)
    [] call.set = "FieldSchema"            -> SetFieldSchema(s)
    [] call.set = "RequestedBufferSize"    -> SetRequestedBufferSize(s, call.to)
    [] call.set = "RequestedSnapshot"      -> SetRequestedSnapshot(s, call.to)
    [] call.set = "RequestedMaxFrequency"  -> SetRequestedMaxFrequency(s, call.to)
    [] call.set = "SecondLevelDataAdapter" -> SetCommandSecondLevelDataAdapter(s)
    [] call.set = "SecondLevelFields"      -> SetCommandSecondLevelFields(s)
    [] call.set = "SecondLevelFieldSchema" -> SetCommandSecondLevelFieldSchema(s)
-----------------------------------------------------------------------------
(* SubscribeRequest: the parameters it has, and what each asks for.          *)
NotRequested == [group |-> "none", schema |-> "none", dataAdapter |-> FALSE, selector |-> FALSE,
                 snapshot |-> Word(""), frequency |-> Word("null"), buffer |-> Word("null")]
SubscribeRequest(s) ==
  [group |-> s.items, schema |-> s.fields, dataAdapter |-> s.dataAdapter, selector |-> s.selector, snapshot |-> s.snapshot,
   frequency |-> (CASE s.frequency = FREQUENCY_UNFILTERED -> Word("unfiltered")
                    [] s.frequency = FREQUENCY_UNLIMITED  -> Word("unlimited")
                    [] s.frequency > 0                    -> Number(s.frequency)
                    [] OTHER                              -> Word("null")),
   buffer |-> (CASE s.buffer = BUFFER_UNLIMITED -> Word("unlimited")
                 [] s.buffer > 0                -> Number(s.buffer)
                 [] OTHER                       -> Word("null"))]

NoTableRequest == [schema |-> "none", dataAdapter |-> FALSE, frequency |-> 0]
(* addSubTable: what the subscription of a row takes from the first level. *)
TableRequest(s) == [schema |-> s.underFields, dataAdapter |-> s.under, frequency |-> s.frequency]

SettingsTypeOK ==
  /\ mode \in Modes /\ settings \in Settings /\ settingsActive \in BOOLEAN /\ setter \in Setters \cup {NoSetter}
  /\ requested \in [group : {"none", "list", "group"}, schema : {"none", "list", "group"}, dataAdapter : BOOLEAN,
                    selector : BOOLEAN, snapshot : Arguments \cup {Word("")}, frequency : Arguments, buffer : Arguments]
  /\ tableRequest \in [schema : {"none", "list", "group"}, dataAdapter : BOOLEAN,
                       frequency : Numbers \cup {FREQUENCY_NULL, FREQUENCY_UNFILTERED, FREQUENCY_UNLIMITED}]
  /\ settingRaces \in BOOLEAN /\ settingCalls \in 0..MaxSettings

(* The constructors: the items and fields they are given are kept in two     *)
(* fields that nothing reads. *)
SettingsInit ==
  /\ mode \in Modes
  /\ settings = [dataAdapter |-> FALSE, selector |-> FALSE, items |-> "none", fields |-> "none", buffer |-> BUFFER_NULL,
                 snapshot |-> (IF mode = "RAW" THEN Word("") ELSE Word("yes")), frequency |-> FREQUENCY_NULL,
                 under |-> FALSE, underFields |-> "none"]
  /\ settingsActive = FALSE /\ setter = NoSetter /\ requested = NotRequested /\ tableRequest = NoTableRequest
  /\ settingRaces = FALSE /\ settingCalls = 0

(* Mutant: the check is missing. *)
SetterUnchecked(call) ==
  /\ setter = NoSetter /\ settingCalls < MaxSettings
  /\ setter' = call
  /\ settingCalls' = settingCalls + 1
  /\ settingRaces' = FALSE
  /\ UNCHANGED <<mode, settings, settingsActive, requested, tableRequest>>
(* A setter: its check ... *)
SetterChecks(call) ==
  /\ setter = NoSetter /\ settingCalls < MaxSettings
  /\ ~settingsActive
  /\ setter' = call
  /\ settingCalls' = settingCalls + 1
  /\ settingRaces' = FALSE
  /\ UNCHANGED <<mode, settings, settingsActive, requested, tableRequest>>

(* ... and, as it may be made active meanwhile, the rest. *)
SetterWrites ==
  /\ setter # NoSetter
  /\ setter' = NoSetter
  /\ \/ settings' \in Outcomes(setter, settings)
     \/ Outcomes(setter, settings) = {} /\ UNCHANGED settings
  /\ UNCHANGED <<mode, settingsActive, requested, tableRequest, settingRaces, settingCalls>>

(* LightstreamerClient.subscribe, with setActive. *)
SetActive ==
  /\ ~settingsActive /\ settings.items # "none" /\ settings.fields # "none"
  /\ settingsActive' = TRUE
  /\ settingRaces' = (setter # NoSetter)
  /\ UNCHANGED <<mode, settings, setter, requested, tableRequest, settingCalls>>

(* LightstreamerClient.unsubscribe, with setInactive. *)
SetInactive ==
  /\ settingsActive
  /\ settingsActive' = FALSE /\ requested' = NotRequested /\ tableRequest' = NoTableRequest
  /\ UNCHANGED <<mode, settings, setter, settingRaces, settingCalls>>

(* The session thread sends the subscription, for the first time or again. *)
GenerateSubscribeRequest ==
  /\ settingsActive
  /\ requested' = SubscribeRequest(settings)
  /\ UNCHANGED <<mode, settings, settingsActive, setter, tableRequest, settingRaces, settingCalls>>

(* A row comes, of a subscription that has a second level. *)
MakeTable ==
  /\ settingsActive /\ requested # NotRequested
  /\ mode = "COMMAND" /\ settings.underFields # "none"
  /\ tableRequest' = TableRequest(settings)
  /\ UNCHANGED <<mode, settings, settingsActive, setter, requested, settingRaces, settingCalls>>

SettingsNext ==
  \/ \E call \in Setters : SetterChecks(call)
  \/ SetterWrites \/ SetActive \/ SetInactive \/ GenerateSubscribeRequest \/ MakeTable
SettingsSpec == SettingsInit /\ [][SettingsNext]_settingsVars
-----------------------------------------------------------------------------
(* Properties.                                                             *)

(* What the getters tell of a subscription that the server was asked for is  *)
(* what the request asked for, and the subscriptions of its rows after it,    *)
(* unless a setter found it inactive and wrote after it was active, or the    *)
(* frequency is a negative number of no meaning.                              *)
GettersTellTheRequest ==
  requested # NotRequested /\ ~settingRaces /\ settings.frequency >= FREQUENCY_NULL =>
    /\ requested.group = (IF GetItems(settings) = "throws" THEN GetItemGroup(settings) ELSE GetItems(settings))
    /\ requested.schema = (IF GetFields(settings) = "throws" THEN GetFieldSchema(settings) ELSE GetFields(settings))
    /\ requested.dataAdapter = GetDataAdapter(settings) /\ requested.selector = GetSelector(settings)
    /\ requested.snapshot = GetRequestedSnapshot(settings)
    /\ requested.frequency = GetRequestedMaxFrequency(settings)
    /\ requested.buffer = GetRequestedBufferSize(settings)
    /\ tableRequest # NoTableRequest =>
         /\ tableRequest.schema \in {GetCommandSecondLevelFields(settings), GetCommandSecondLevelFieldSchema(settings)}
         /\ tableRequest.dataAdapter = GetCommandSecondLevelDataAdapter(settings)
         /\ tableRequest.frequency = settings.frequency
===============================================================================
