---------------------------- MODULE FieldPositions ----------------------------
(***************************************************************************)
(* The fields of a COMMAND subscription are named by a descriptor of the    *)
(* first level and one of the second, each a list of names or the name of a  *)
(* schema that the server alone knows.  A position counts the first level's  *)
(* fields and then the second's, so it depends on sizes which the server      *)
(* tells: the first level's as the subscription starts, on the session        *)
(* thread, the second level's with each of its updates, on the events thread. *)
(*                                                                          *)
(* One item and one row of it are modelled: fieldValues are their old values *)
(* and a value is the number of the update that brought it.  The size that a *)
(* ListDescriptor assigns to Size is taken as the length Descriptor declares; *)
(* onSubscribed sets the first level's where it leaves the "necessary setup"  *)
(* to a comment, and convertMultiSonUpdate, which is only declared, puts the  *)
(* values behind those of the first level.  The second level is attached to   *)
(* the first, as the positions assume, though nothing calls setSubDescriptor. *)
(***************************************************************************)
EXTENDS Integers, Sequences, FiniteSetsExt

CONSTANTS
  FieldNames,      (* names of fields              *)
  MaxFieldEvents   (* bound: updates of the fields *)

ASSUME FieldsAssumption == MaxFieldEvents \in Nat

VARIABLES
  descriptors,     (* fieldDescriptor and subFieldDescriptor: a list of names, *)
                   (* or none for a schema, and the length                     *)
  behavior,        (* Subscription.behavior                                    *)
  fieldsPush,      (* does the first level push                                *)
  fieldValues,     (* the old values, by position                              *)
  converting,      (* the second level's update between its conversion and the *)
                   (* first level's update, and was that level resized since   *)
  fieldsSent,      (* what the server sent since onSubscribed, by level and    *)
                   (* field                                                    *)
  shifted,       (* was the first level resized under a converted update     *)
  fieldEvents      (* updates so far                                           *)

fieldsVars == <<descriptors, behavior, fieldsPush, fieldValues, converting, fieldsSent, shifted, fieldEvents>>

MaxWidth == 2
Lists == UNION {[1..w -> FieldNames] : w \in 1..MaxWidth}
ListDescriptor(names) == [names |-> names, length |-> Len(names)]
NameDescriptor == [names |-> <<>>, length |-> 0]
IsList(d) == d.names # <<>>
NoConversion == [fields |-> {}, behind |-> 0, value |-> 0, resized |-> FALSE]

FieldsTypeOK ==
  /\ \A level \in {"main", "sub"} : /\ descriptors[level].names \in Lists \cup {<<>>}
                                    /\ descriptors[level].length \in 0..MaxWidth
  /\ behavior \in {"METAPUSH", "MULTIMETAPUSH"} /\ fieldsPush \in BOOLEAN /\ shifted \in BOOLEAN
  /\ fieldValues \in [1..2 * MaxWidth -> 0..MaxFieldEvents]
  /\ converting \in [fields : SUBSET (1..MaxWidth), behind : 0..MaxWidth, value : 0..MaxFieldEvents, resized : BOOLEAN]
  /\ fieldsSent \in [{"main", "sub"} -> [1..MaxWidth -> 0..MaxFieldEvents]]
  /\ fieldEvents \in 0..MaxFieldEvents
-----------------------------------------------------------------------------
(* ListDescriptor and NameDescriptor, alone: the last place of a name that a *)
(* list has twice; the server's names are not known. *)
ReverseList(d, name) == LET places == {i \in DOMAIN d.names : d.names[i] = name}
                        IN  IF places = {} THEN -1 ELSE Max(places)
NameAt(d, pos) == IF pos \in DOMAIN d.names THEN d.names[pos] ELSE ""

(* Descriptor, of the first level. *)
SubDescriptor == behavior = "MULTIMETAPUSH"
GetMainSize == descriptors["main"].length
GetFullSize == GetMainSize + (IF SubDescriptor THEN descriptors["sub"].length ELSE 0)

(* Mutant: the second level's positions are not moved. *)
GetPosUnmoved(name) ==
  LET own == ReverseList(descriptors["main"], name)
  IN  IF own # -1 \/ ~SubDescriptor THEN own ELSE ReverseList(descriptors["sub"], name)
(* getPos, of either kind. *)
GetPos(name) ==
  LET own == ReverseList(descriptors["main"], name)
      fromSub == ReverseList(descriptors["sub"], name)
  IN  IF own # -1 THEN own
      ELSE IF SubDescriptor /\ fromSub > -1 THEN fromSub + GetMainSize
      ELSE -1

(* getName, of either kind. *)
GetName(pos) ==
  IF IsList(descriptors["main"]) /\ pos <= GetMainSize THEN NameAt(descriptors["main"], pos)
  ELSE IF SubDescriptor THEN NameAt(descriptors["sub"], pos - GetMainSize)
  ELSE ""

(* Subscription: a position within the first level, or within both. *)
VerifyFieldPos(pos, full) == pos > 0 /\ pos <= (IF full THEN GetFullSize ELSE GetMainSize)
(* getValue and getCommandValue, by a name that toFieldPos finds. *)
ValueOf(name) == fieldValues[GetPos(name)]
-----------------------------------------------------------------------------
(* prepareSecondLevel, for a subscription that names fields of a second      *)
(* level.                                                                    *)
PrepareSecondLevel(named) == behavior = IF named THEN "MULTIMETAPUSH" ELSE "METAPUSH"

(* onSubscribed: a list has its own size. *)
FieldsSubscribed(size) ==
  /\ ~fieldsPush /\ fieldsPush' = TRUE
  /\ IsList(descriptors["main"]) => size = GetMainSize
  /\ descriptors' = [descriptors EXCEPT !["main"].length = size]
  /\ fieldsSent' = [level \in {"main", "sub"} |-> [i \in 1..MaxWidth |-> 0]]
  /\ converting' = [converting EXCEPT !.resized = @ \/ (converting # NoConversion /\ size # GetMainSize)]
  /\ UNCHANGED <<behavior, fieldValues, shifted, fieldEvents>>

(* onPause, at the end of a session: nothing is cleaned. *)
FieldsPaused ==
  /\ fieldsPush /\ fieldsPush' = FALSE
  /\ UNCHANGED <<descriptors, behavior, fieldValues, converting, fieldsSent, shifted, fieldEvents>>

(* update, of the first level: some fields change. *)
MainUpdate(changed) ==
  /\ fieldsPush /\ fieldEvents < MaxFieldEvents
  /\ changed \subseteq 1..GetMainSize
  /\ fieldEvents' = fieldEvents + 1
  /\ fieldValues' = [p \in DOMAIN fieldValues |-> IF p \in changed THEN fieldEvents' ELSE fieldValues[p]]
  /\ fieldsSent' = [fieldsSent EXCEPT !["main"] = [i \in 1..MaxWidth |-> IF i \in changed THEN fieldEvents' ELSE @[i]]]
  /\ UNCHANGED <<descriptors, behavior, fieldsPush, converting, shifted>>

(* The row's subscription was made by its first update, and stays as the     *)
(* first level pauses. *)
ShouldDispatch == \E p \in DOMAIN fieldValues : fieldValues[p] # 0

(* Mutant: the second level's values go where its own fields are. *)
ConvertUnmoved(changed, size) ==
  /\ SubDescriptor /\ ShouldDispatch /\ converting = NoConversion
  /\ fieldEvents < MaxFieldEvents
  /\ changed \subseteq 1..size
  /\ IsList(descriptors["sub"]) => size = Len(descriptors["sub"].names)
  /\ fieldEvents' = fieldEvents + 1
  /\ descriptors' = [descriptors EXCEPT !["sub"].length = size]
  /\ converting' = [fields |-> changed, behind |-> 0, value |-> fieldEvents', resized |-> FALSE]
  /\ UNCHANGED <<behavior, fieldsPush, fieldValues, fieldsSent, shifted>>
(* The second level's listener: onItemUpdate, up to the conversion. *)
SubUpdateConverted(changed, size) ==
  /\ SubDescriptor /\ ShouldDispatch /\ converting = NoConversion
  /\ fieldEvents < MaxFieldEvents
  /\ changed \subseteq 1..size
  /\ IsList(descriptors["sub"]) => size = Len(descriptors["sub"].names)
  /\ fieldEvents' = fieldEvents + 1
  /\ descriptors' = [descriptors EXCEPT !["sub"].length = size]
  /\ converting' = [fields |-> changed, behind |-> GetMainSize, value |-> fieldEvents', resized |-> FALSE]
  /\ UNCHANGED <<behavior, fieldsPush, fieldValues, fieldsSent, shifted>>

(* Then it updates the first level, if that still pushes. *)
SubUpdatePassed ==
  /\ converting # NoConversion /\ converting' = NoConversion
  /\ IF fieldsPush
     THEN /\ fieldValues' = [p \in DOMAIN fieldValues |-> IF p - converting.behind \in converting.fields
                                                          THEN converting.value ELSE fieldValues[p]]
          /\ fieldsSent' = [fieldsSent EXCEPT !["sub"] =
                              [i \in 1..MaxWidth |-> IF i \in converting.fields THEN converting.value ELSE @[i]]]
          /\ shifted' = (shifted \/ converting.resized)
     ELSE UNCHANGED <<fieldValues, fieldsSent, shifted>>
  /\ UNCHANGED <<descriptors, behavior, fieldsPush, fieldEvents>>
-----------------------------------------------------------------------------
FieldsInit ==
  /\ descriptors \in [{"main", "sub"} -> {ListDescriptor(names) : names \in Lists} \cup {NameDescriptor}]
  /\ \E named \in BOOLEAN : /\ PrepareSecondLevel(named)
                            /\ ~named => descriptors["sub"] = NameDescriptor
  /\ fieldsPush = FALSE /\ shifted = FALSE /\ fieldEvents = 0
  /\ fieldValues = [p \in 1..2 * MaxWidth |-> 0] /\ converting = NoConversion
  /\ fieldsSent = [level \in {"main", "sub"} |-> [i \in 1..MaxWidth |-> 0]]

FieldsNext ==
  \/ \E size \in 1..MaxWidth : \/ FieldsSubscribed(size)
                               \/ \E changed \in (SUBSET (1..MaxWidth)) \ {{}} : SubUpdateConverted(changed, size)
  \/ \E changed \in (SUBSET (1..MaxWidth)) \ {{}} : MainUpdate(changed)
  \/ FieldsPaused \/ SubUpdatePassed
FieldsSpec == FieldsInit /\ [][FieldsNext]_fieldsVars
-----------------------------------------------------------------------------
(* Properties.                                                             *)

Declared(name) == {level \in {"main", "sub"} : /\ \E i \in DOMAIN descriptors[level].names : descriptors[level].names[i] = name
                                               /\ level = "sub" => SubDescriptor}
(* What the server last sent for a name: the first level's, if both have it. *)
LastSent(name) == LET level == IF "main" \in Declared(name) THEN "main" ELSE "sub"
                  IN  fieldsSent[level][ReverseList(descriptors[level], name)]

(* While the subscription pushes, every declared name has a position within  *)
(* the two levels which has that name, and reads the value the server last    *)
(* sent for it in this subscription, whatever the sizes were in those before  *)
(* it; unless the first level was resized between the conversion of a second  *)
(* level's update and its storing, which no lock prevents.                    *)
NamesReadAsSent ==
  fieldsPush /\ ~shifted =>
    \A name \in FieldNames :
      IF Declared(name) = {} THEN GetPos(name) = -1
      ELSE /\ VerifyFieldPos(GetPos(name), TRUE) /\ GetName(GetPos(name)) = name
           /\ LastSent(name) # 0 => ValueOf(name) = LastSent(name)
===============================================================================
