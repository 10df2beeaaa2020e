-------------------------- MODULE SubscriptionTables --------------------------
(***************************************************************************)
(* The second level of a COMMAND subscription: every row of the first level *)
(* has a subscription of its own, a table, made by the row's first update    *)
(* and removed by its DELETE.  The listener of the first level is told the   *)
(* highest frequency of them all.  It is computed again by the session       *)
(* thread when a row goes, and by the events thread when a table was         *)
(* configured, each visiting the tables with no lock.                        *)
(*                                                                          *)
(* A frequency that the server sends is a number or "unlimited".  What the   *)
(* program keeps of one is a number, in which it has words of its own for no   *)
(* frequency and for an unlimited one.                                       *)
(*                                                                          *)
(* update leaves its call of handleMultiTableSubscriptions to a comment; it  *)
(* is taken where the comment stands.  subTables is the map of maps it is    *)
(* declared as, and visiting it deletes nothing.                             *)
(***************************************************************************)
EXTENDS Integers

CONSTANTS
  Rows,             (* keys of rows                                         *)
  Rates,            (* numbers that the server may send as frequencies      *)
  MaxTables,        (* bound: tables ever made                              *)
  MaxTableEvents    (* bound: notifications queued for the events thread    *)

ASSUME TablesAssumption == MaxTables \in Nat /\ MaxTableEvents \in Nat /\ Rates \subseteq Nat \ {0}

VARIABLES
  pushing,      (* is the first level active and PUSHING                       *)
  subTables,    (* Subscription.subTables: the row's table, or NoTable         *)
  made,         (* tables ever made: they are numbered                         *)
  tableMax,     (* each table's localRealMaxFrequency                          *)
  localMax,     (* the first level's localRealMaxFrequency                     *)
  aggregated,   (* Subscription.aggregatedRealMaxFrequency                     *)
  tableEvents,  (* notifications of tables' frequencies queued: how many       *)
  computing,    (* how far each thread is in onLocalFrequencyChanged           *)
  frequencyTold,(* what the listener was last told                             *)
  excuses       (* why that may be wrong: the threads "met" in the computation, *)
                (* the first level was "configured" since, or there was no      *)
                (* frequency, "null", to tell                                  *)

tablesVars == <<pushing, subTables, made, tableMax, localMax, aggregated, tableEvents, computing, frequencyTold, excuses>>

NoTable == 0
Tables == 1..MaxTables
Live == {t \in Tables : \E k \in Rows : subTables[k] = t}

TABLE_NULL == -2       (* FREQUENCY_NULL *)
TABLE_UNLIMITED == 0   (* FREQUENCY_UNLIMITED: also the server's "unlimited" *)
NotANumber == -1       (* configure, of a frequency that is not a number *)
ServerFrequencies == Rates \cup {TABLE_UNLIMITED}
(* configure: std::stod throws for "unlimited". *)
ReadFrequency(given) == IF given = TABLE_UNLIMITED THEN NotANumber ELSE given
RealFrequencies == Rates \cup {NotANumber, TABLE_NULL}

Threads == {"session", "events"}
Idle == [at |-> "idle", prev |-> TABLE_NULL, left |-> {}, alone |-> TRUE]

TablesTypeOK ==
  /\ pushing \in BOOLEAN
  /\ subTables \in [Rows -> Tables \cup {NoTable}] /\ made \in 0..MaxTables
  /\ tableMax \in [Tables -> RealFrequencies] /\ localMax \in RealFrequencies /\ aggregated \in RealFrequencies
  /\ tableEvents \in 0..MaxTableEvents
  /\ computing \in [Threads -> [at : {"idle", "visiting"}, prev : RealFrequencies, left : SUBSET Rows, alone : BOOLEAN]]
  /\ frequencyTold \in RealFrequencies \cup {TABLE_UNLIMITED}
  /\ excuses \subseteq {"met", "configured", "null"}
-----------------------------------------------------------------------------
(* isHigherFrequency. *)
IsHigherFrequency(new, old) ==
  /\ old # TABLE_UNLIMITED /\ new # TABLE_NULL
  /\ new = TABLE_UNLIMITED \/ old = TABLE_NULL \/ new > old

Busy(thread) == computing[thread].at = "visiting"
Disturbed == [thread \in Threads |-> [computing[thread] EXCEPT !.alone = ~Busy(thread)]]

(* onLocalFrequencyChanged starts; a thread that was in it is not alone with *)
(* the tables and the frequencies any more. *)
StartComputing(thread, tables) ==
  /\ computing' = [Disturbed EXCEPT ![thread] =
                     [at |-> "visiting", prev |-> aggregated, left |-> {k \in Rows : tables[k] # NoTable},
                      alone |-> \A other \in Threads : ~Busy(other)]]
  /\ aggregated' = localMax
  /\ UNCHANGED excuses

(* forEachElement: one table after the other, in no order. *)
VisitTable(thread) ==
  /\ Busy(thread)
  /\ \E k \in computing[thread].left :
       /\ computing' = [computing EXCEPT ![thread].left = @ \ {k}]
       /\ aggregated' = IF subTables[k] # NoTable /\ IsHigherFrequency(tableMax[subTables[k]], aggregated)
                        THEN tableMax[subTables[k]] ELSE aggregated
  /\ UNCHANGED <<pushing, subTables, made, tableMax, localMax, tableEvents, frequencyTold, excuses>>

(* Only a difference is told.  The word for no frequency is a null pointer   *)
(* that the program reads as a string: nobody is told. *)
TellFrequency(thread) ==
  /\ Busy(thread) /\ computing[thread].left = {}
  /\ computing' = [computing EXCEPT ![thread] = Idle]
  /\ LET changed == aggregated # computing[thread].prev
         told == changed /\ aggregated # TABLE_NULL
     IN  /\ frequencyTold' = IF told THEN aggregated ELSE frequencyTold
         /\ excuses' = (IF computing[thread].alone THEN {} ELSE {"met"})
                       \cup (IF changed /\ ~told THEN {"null"} ELSE {})
                       \cup (IF told THEN {} ELSE excuses)
  /\ UNCHANGED <<pushing, subTables, made, tableMax, localMax, aggregated, tableEvents>>
-----------------------------------------------------------------------------
(* The session thread's steps wait for one it is in. *)
SessionThread == ~Busy("session")

(* addSubTable, for the first update of a row. *)
AddSubTable(k) ==
  /\ SessionThread /\ pushing
  /\ subTables[k] = NoTable /\ made < MaxTables
  /\ made' = made + 1
  /\ subTables' = [subTables EXCEPT ![k] = made']
  /\ computing' = Disturbed
  /\ UNCHANGED <<pushing, tableMax, localMax, aggregated, tableEvents, frequencyTold, excuses>>

(* Mutant: the frequency is not computed again. *)
RemoveSubTableOnly(k) ==
  /\ SessionThread /\ pushing
  /\ subTables[k] # NoTable
  /\ subTables' = [subTables EXCEPT ![k] = NoTable]
  /\ tableMax' = [tableMax EXCEPT ![subTables[k]] = TABLE_NULL]
  /\ UNCHANGED <<pushing, made, localMax, aggregated, tableEvents, computing, frequencyTold, excuses>>

(* removeSubTable, for the DELETE of a row. *)
RemoveSubTable(k) ==
  /\ SessionThread /\ pushing
  /\ subTables[k] # NoTable
  /\ subTables' = [subTables EXCEPT ![k] = NoTable]
  /\ tableMax' = [tableMax EXCEPT ![subTables[k]] = TABLE_NULL]
  /\ StartComputing("session", subTables')
  /\ UNCHANGED <<pushing, made, localMax, tableEvents, frequencyTold>>

(* configure, of a table: it is active as long as the row is there. *)
TableConfigured(t, given) ==
  /\ SessionThread /\ t \in Live
  /\ tableEvents < MaxTableEvents
  /\ tableMax' = [tableMax EXCEPT ![t] = ReadFrequency(given)]
  /\ tableEvents' = tableEvents + 1
  /\ UNCHANGED <<pushing, subTables, made, localMax, aggregated, computing, frequencyTold, excuses>>

(* configure, of the first level: the listener is told the word or the number *)
(* that the server sent, and nothing is computed. *)
Configured(given) ==
  /\ SessionThread /\ pushing
  /\ localMax' = ReadFrequency(given)
  /\ frequencyTold' = given
  /\ computing' = Disturbed
  /\ excuses' = excuses \cup {"configured"}
  /\ UNCHANGED <<pushing, subTables, made, tableMax, aggregated, tableEvents>>

(* The second level's listener: onRealMaxFrequency, also of a removed table. *)
OnRealMaxFrequency ==
  /\ ~Busy("events") /\ tableEvents > 0
  /\ tableEvents' = tableEvents - 1
  /\ StartComputing("events", subTables)
  /\ UNCHANGED <<pushing, subTables, made, tableMax, localMax, frequencyTold>>

(* onPause, and onSubscribed of the next session: the tables stay. *)
PauseOrResume ==
  /\ SessionThread
  /\ pushing' = ~pushing
  /\ UNCHANGED <<subTables, made, tableMax, localMax, aggregated, tableEvents, computing, frequencyTold, excuses>>
-----------------------------------------------------------------------------
TablesInit ==
  /\ pushing = FALSE /\ subTables = [k \in Rows |-> NoTable] /\ made = 0
  /\ tableMax = [t \in Tables |-> TABLE_NULL] /\ localMax = TABLE_NULL /\ aggregated = TABLE_NULL
  /\ tableEvents = 0 /\ computing = [thread \in Threads |-> Idle]
  /\ frequencyTold = TABLE_NULL /\ excuses = {}

TablesNext ==
  \/ \E k \in Rows : AddSubTable(k) \/ RemoveSubTable(k)
  \/ \E given \in ServerFrequencies : Configured(given) \/ (\E t \in Tables : TableConfigured(t, given))
  \/ \E thread \in Threads : VisitTable(thread) \/ TellFrequency(thread)
  \/ OnRealMaxFrequency \/ PauseOrResume
TablesSpec == TablesInit /\ [][TablesNext]_tablesVars
-----------------------------------------------------------------------------
(* Properties.                                                             *)

(* What the server said of a frequency that is kept, and of them all. *)
Said(f) == IF f = NotANumber THEN TABLE_UNLIMITED ELSE f
AllSaid == {Said(localMax)} \cup {Said(tableMax[t]) : t \in Live}

(* Which frequency is the higher one for a listener: an unlimited one exceeds *)
(* every number, and a number exceeds none. *)
Exceeds(f, g) == g # TABLE_UNLIMITED /\ (f = TABLE_UNLIMITED \/ f > g)
ToldTheHighest == frequencyTold \in AllSaid /\ \A f \in AllSaid : ~Exceeds(f, frequencyTold)

TablesAtRest == tableEvents = 0 /\ \A thread \in Threads : ~Busy(thread)

(* SubscriptionListener: the reported limit applies to both levels.  So once  *)
(* no thread computes and no notification waits, the listener knows the        *)
(* highest of the frequencies that the server applies to the first level and   *)
(* its tables, unless the two threads met in the computation, the first level   *)
(* was configured since, or there was no frequency to tell.  This is of        *)
(* numbers: a level that is unlimited ought to be the highest, and is kept as   *)
(* NotANumber and told as the lowest, which README.md has as a finding.        *)
HighestIsTold == TablesAtRest /\ excuses = {} /\ TABLE_UNLIMITED \notin AllSaid => ToldTheHighest
===============================================================================
