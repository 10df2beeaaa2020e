--------------------------- MODULE Protocol_proofs ---------------------------
(****************************************************************************)
(* What the parts of a subscription promise, for any settings, items, fields*)
(* and values; and the protocol as a whole, in which one part is under way, *)
(* keeps the promises of every part.                                        *)
(****************************************************************************)
EXTENDS MCProtocol, Connections_proofs, Timing_proofs

-----------------------------------------------------------------------------
(* The second level of a subscription. *)

(* The frequencies are numbers, and isHigherFrequency compares them. *)
LEMMA HigherIsGreater ==
  ASSUME NEW f \in RealFrequencies, NEW g \in RealFrequencies
  PROVE  f \in Int /\ g \in Int /\ (IsHigherFrequency(f, g) <=> f > g)
BY TablesAssumption DEF RealFrequencies, NotANumber, IsHigherFrequency, TABLE_NULL, TABLE_UNLIMITED

(* There is none below the word for none, and what is read is one of them. *)
LEMMA ReadIsReal ==
  /\ \A f \in RealFrequencies : TABLE_NULL <= f
  /\ TABLE_NULL \in RealFrequencies /\ RealFrequencies \subseteq Int
  /\ \A given \in ServerFrequencies : ReadFrequency(given) \in RealFrequencies
BY TablesAssumption DEF RealFrequencies, ServerFrequencies, ReadFrequency, NotANumber, TABLE_NULL, TABLE_UNLIMITED

(* Tables not made yet were never configured, and no row has one. *)
UnmadeTables ==
  /\ \A t \in Tables : t > made => tableMax[t] = TABLE_NULL
  /\ \A k \in Rows : subTables[k] <= made

(* f is the highest frequency of the first level and of the tables of the    *)
(* rows that are not in left, and one of theirs.                             *)
HighestBut(f, left) ==
  /\ f = localMax \/ \E t \in Live : f = tableMax[t]
  /\ localMax <= f
  /\ \A k \in Rows \ left : subTables[k] # NoTable => tableMax[subTables[k]] <= f

(* A thread that is alone in the computation has seen the highest frequency   *)
(* so far, unless a notification waits, and remembers the one that was told.  *)
Alone(thread) ==
  /\ \A other \in Threads : Busy(other) => other = thread
  /\ excuses = {} => frequencyTold = computing[thread].prev
  /\ tableEvents = 0 => HighestBut(aggregated, computing[thread].left)
ComputedAlone == \A thread \in Threads : Busy(thread) /\ computing[thread].alone => Alone(thread)
Computed ==
  (\A thread \in Threads : ~Busy(thread)) /\ excuses = {} =>
    /\ frequencyTold = aggregated
    /\ tableEvents = 0 => HighestBut(aggregated, {})
TablesIInv == TablesTypeOK /\ UnmadeTables /\ ComputedAlone /\ Computed
(* A thread starts to compute: the other one, if it is at it, is not alone.   *)
LEMMA StartStep ==
  ASSUME TablesTypeOK, TablesTypeOK', Computed, NEW thread \in Threads, ~Busy(thread),
         StartComputing(thread, subTables'), UNCHANGED <<localMax, frequencyTold>>
  PROVE  ComputedAlone' /\ Computed'
<1>1. /\ \A th \in Threads : th # thread => computing'[th] = [computing[th] EXCEPT !.alone = ~Busy(th)]
      /\ computing'[thread] = [at |-> "visiting", prev |-> aggregated, left |-> {k \in Rows : subTables'[k] # NoTable},
                               alone |-> \A other \in Threads : ~Busy(other)]
      /\ aggregated' = localMax /\ excuses' = excuses
  BY DEF StartComputing, Disturbed, TablesTypeOK
<1>2. \A th \in Threads : th # thread => (Busy(th)' <=> Busy(th)) /\ computing'[th].alone = ~Busy(th)
  BY <1>1 DEF Busy, TablesTypeOK
<1>3. Busy(thread)'
  BY <1>1 DEF Busy
<1>4. ASSUME computing'[thread].alone PROVE Alone(thread)'
  <2>1. \A other \in Threads : ~Busy(other)
    BY <1>1, <1>4
  <2>2. \A other \in Threads : Busy(other)' => other = thread
    BY <1>2, <2>1
  <2>3. excuses' = {} => frequencyTold' = computing'[thread].prev
    BY <1>1, <2>1 DEF Computed
  <2>4. HighestBut(aggregated, computing[thread].left)'
    <3>1. localMax' \in RealFrequencies /\ aggregated' = localMax'
      BY <1>1 DEF TablesTypeOK
    <3>2. localMax' <= aggregated'
      BY <3>1, ReadIsReal
    <3> QED
      BY <1>1, <3>1, <3>2 DEF HighestBut
  <2> QED
    BY <2>2, <2>3, <2>4 DEF Alone
<1> QED
  BY <1>2, <1>3, <1>4 DEF ComputedAlone, Computed

(* A change of the tables with no computation leaves no thread alone. *)
LEMMA DisturbedStep ==
  ASSUME TablesTypeOK, computing' = Disturbed,
         (\A th \in Threads : ~Busy(th)) => excuses' # {} \/ (Computed => Computed')
  PROVE  ComputedAlone' /\ (Computed => Computed')
<1>1. \A th \in Threads : (Busy(th)' <=> Busy(th)) /\ computing'[th].alone = ~Busy(th)
  BY DEF Disturbed, Busy, TablesTypeOK
<1> QED
  BY <1>1 DEF ComputedAlone, Computed

(* Every step keeps the types of the tables. *)
LEMMA TablesTypeStep ==
  ASSUME TablesIInv, TablesNext
  PROVE  TablesTypeOK'
<1> USE TablesAssumption
<1>0. /\ TablesTypeOK /\ Idle \in [at : {"idle", "visiting"}, prev : RealFrequencies, left : SUBSET Rows, alone : BOOLEAN]
      /\ Disturbed \in [Threads -> [at : {"idle", "visiting"}, prev : RealFrequencies, left : SUBSET Rows, alone : BOOLEAN]]
  <2>1. TablesTypeOK
    BY DEF TablesIInv
  <2>2. Idle \in [at : {"idle", "visiting"}, prev : RealFrequencies, left : SUBSET Rows, alone : BOOLEAN]
    BY DEF Idle, RealFrequencies
  <2>3. ASSUME NEW th \in Threads
        PROVE  [computing[th] EXCEPT !.alone = ~Busy(th)] \in [at : {"idle", "visiting"}, prev : RealFrequencies, left : SUBSET Rows, alone : BOOLEAN]
    BY <2>1 DEF TablesTypeOK, Busy
  <2> QED
    BY <2>1, <2>2, <2>3 DEF Disturbed
<1>1. ASSUME NEW k \in Rows, AddSubTable(k) PROVE TablesTypeOK'
  <2>1. made' \in 0..MaxTables /\ made' \in Tables
    BY <1>0, <1>1 DEF AddSubTable, TablesTypeOK, Tables
  <2>2. subTables' \in [Rows -> Tables \cup {NoTable}]
    BY <1>0, <1>1, <2>1 DEF AddSubTable, TablesTypeOK
  <2> QED
    BY <1>0, <1>1, <2>1, <2>2 DEF AddSubTable, TablesTypeOK
<1>2. ASSUME NEW thread \in Threads, NEW given, StartComputing(thread, given)
      PROVE  /\ computing' \in [Threads -> [at : {"idle", "visiting"}, prev : RealFrequencies, left : SUBSET Rows, alone : BOOLEAN]]
             /\ aggregated' \in RealFrequencies /\ excuses' \subseteq {"met", "configured", "null"}
  <2>1. [at |-> "visiting", prev |-> aggregated, left |-> {k \in Rows : given[k] # NoTable},
                      alone |-> \A other \in Threads : ~Busy(other)]
        \in [at : {"idle", "visiting"}, prev : RealFrequencies, left : SUBSET Rows, alone : BOOLEAN]
    BY <1>0 DEF TablesTypeOK
  <2> QED
    BY <1>0, <1>2, <2>1 DEF StartComputing, TablesTypeOK
<1>3. ASSUME NEW k \in Rows, RemoveSubTable(k) PROVE TablesTypeOK'
  <2>1. tableMax' \in [Tables -> RealFrequencies] /\ subTables' \in [Rows -> Tables \cup {NoTable}]
    BY <1>0, <1>3 DEF RemoveSubTable, TablesTypeOK, RealFrequencies
  <2>2. StartComputing("session", subTables')
    BY <1>3 DEF RemoveSubTable
  <2>3. "session" \in Threads
    BY DEF Threads
  <2>4. UNCHANGED <<pushing, made, localMax, tableEvents, frequencyTold>>
    BY <1>3 DEF RemoveSubTable
  <2> QED
    BY <1>0, <1>2, <2>1, <2>2, <2>3, <2>4 DEF TablesTypeOK
<1>4. ASSUME OnRealMaxFrequency PROVE TablesTypeOK'
  <2>1. StartComputing("events", subTables) /\ "events" \in Threads /\ tableEvents' \in 0..MaxTableEvents
    BY <1>0, <1>4 DEF OnRealMaxFrequency, Threads, TablesTypeOK
  <2>2. UNCHANGED <<pushing, subTables, made, tableMax, localMax, frequencyTold>>
    BY <1>4 DEF OnRealMaxFrequency
  <2> QED
    BY <1>0, <1>2, <2>1, <2>2 DEF TablesTypeOK
<1>5. ASSUME NEW given \in ServerFrequencies, Configured(given) PROVE TablesTypeOK'
  <2>1. localMax' \in RealFrequencies /\ frequencyTold' \in RealFrequencies \cup {TABLE_UNLIMITED}
    BY <1>5, ReadIsReal DEF Configured, ServerFrequencies, RealFrequencies
  <2> QED
    BY <1>0, <1>5, <2>1 DEF Configured, TablesTypeOK
<1>6. ASSUME NEW given \in ServerFrequencies, NEW t \in Tables, TableConfigured(t, given) PROVE TablesTypeOK'
  BY <1>0, <1>6, ReadIsReal DEF TableConfigured, TablesTypeOK
<1>7. ASSUME NEW thread \in Threads, VisitTable(thread) PROVE TablesTypeOK'
  <2>1. PICK k \in computing[thread].left :
       /\ computing' = [computing EXCEPT ![thread].left = @ \ {k}]
       /\ aggregated' = IF subTables[k] # NoTable /\ IsHigherFrequency(tableMax[subTables[k]], aggregated)
                        THEN tableMax[subTables[k]] ELSE aggregated
    BY <1>7 DEF VisitTable
  <2>2. k \in Rows /\ (subTables[k] # NoTable => tableMax[subTables[k]] \in RealFrequencies)
    BY <1>0 DEF TablesTypeOK
  <2>3. aggregated' \in RealFrequencies
    BY <1>0, <2>1, <2>2 DEF TablesTypeOK
  <2>4. computing' \in [Threads -> [at : {"idle", "visiting"}, prev : RealFrequencies, left : SUBSET Rows, alone : BOOLEAN]]
    BY <1>0, <2>1 DEF TablesTypeOK
  <2> QED
    BY <1>0, <1>7, <2>3, <2>4 DEF VisitTable, TablesTypeOK
<1>8. ASSUME NEW thread \in Threads, TellFrequency(thread) PROVE TablesTypeOK'
  BY <1>0, <1>8 DEF TellFrequency, TablesTypeOK
<1>9. ASSUME PauseOrResume PROVE TablesTypeOK'
  BY <1>0, <1>9 DEF PauseOrResume, TablesTypeOK
<1> QED
  BY <1>1, <1>3, <1>4, <1>5, <1>6, <1>7, <1>8, <1>9 DEF TablesNext

(* One table is visited: the highest frequency of one more row. *)
LEMMA VisitStep ==
  ASSUME TablesIInv, TablesTypeOK', NEW thread \in Threads, VisitTable(thread)
  PROVE  ComputedAlone' /\ Computed'
<1>1. TablesTypeOK /\ ComputedAlone /\ Busy(thread)
  BY DEF TablesIInv, VisitTable
<1>2. PICK k \in computing[thread].left :
       /\ computing' = [computing EXCEPT ![thread].left = @ \ {k}]
       /\ aggregated' = IF subTables[k] # NoTable /\ IsHigherFrequency(tableMax[subTables[k]], aggregated)
                        THEN tableMax[subTables[k]] ELSE aggregated
  BY DEF VisitTable
<1>3. UNCHANGED <<pushing, subTables, made, tableMax, localMax, tableEvents, frequencyTold, excuses>>
  BY DEF VisitTable
<1>4. /\ \A th \in Threads : (Busy(th)' <=> Busy(th)) /\ computing'[th].alone = computing[th].alone
      /\ computing'[thread].left = computing[thread].left \ {k}
      /\ computing'[thread].prev = computing[thread].prev
  BY <1>1, <1>2 DEF Busy, TablesTypeOK
<1>5. ASSUME computing[thread].alone PROVE Alone(thread)'
  <2>1. Alone(thread)
    BY <1>1, <1>5 DEF ComputedAlone
  <2>2. ASSUME tableEvents = 0 PROVE HighestBut(aggregated, computing[thread].left)'
    <3>1. HighestBut(aggregated, computing[thread].left)
      BY <2>1, <2>2 DEF Alone
    <3>2. k \in Rows /\ aggregated \in RealFrequencies /\ localMax \in RealFrequencies
          /\ \A j \in Rows : subTables[j] # NoTable => tableMax[subTables[j]] \in RealFrequencies /\ subTables[j] \in Live
      BY <1>1 DEF TablesTypeOK, Live
    <3>3. RealFrequencies \subseteq Int
      BY ReadIsReal
    <3>4. aggregated' >= aggregated /\ (subTables[k] # NoTable => tableMax[subTables[k]] <= aggregated')
      BY <1>2, <3>2, <3>3, HigherIsGreater
    <3>5. aggregated' = localMax \/ \E t \in Live : aggregated' = tableMax[t]
      BY <1>2, <3>1, <3>2 DEF HighestBut
    <3>6. aggregated' \in Int /\ aggregated \in Int /\ localMax \in Int
      BY <3>2, <3>3 DEF TablesTypeOK
    <3>7. localMax <= aggregated'
      BY <3>1, <3>4, <3>6 DEF HighestBut
    <3>8. ASSUME NEW j \in Rows \ (computing[thread].left \ {k}), subTables[j] # NoTable
          PROVE  tableMax[subTables[j]] <= aggregated'
      <4>1. CASE j = k
        BY <3>4, <3>8, <4>1
      <4>2. CASE j # k
        <5>1. tableMax[subTables[j]] <= aggregated /\ tableMax[subTables[j]] \in Int
          BY <3>1, <3>2, <3>3, <3>8, <4>2 DEF HighestBut
        <5> QED
          BY <3>4, <3>6, <5>1
      <4> QED
        BY <4>1, <4>2
    <3>9. Live' = Live
      BY <1>3 DEF Live
    <3> QED
      BY <1>3, <1>4, <3>5, <3>7, <3>8, <3>9 DEF HighestBut
  <2> QED
    BY <1>3, <1>4, <2>1, <2>2 DEF Alone
<1>6. ASSUME NEW th \in Threads, th # thread, Busy(th), computing[th].alone PROVE FALSE
  BY <1>1, <1>6 DEF ComputedAlone, Alone
<1> QED
  BY <1>1, <1>4, <1>5, <1>6 DEF ComputedAlone, Computed

(* The computation ends: whoever was alone has told the highest frequency. *)
LEMMA TellStep ==
  ASSUME TablesIInv, TablesTypeOK', NEW thread \in Threads, TellFrequency(thread)
  PROVE  ComputedAlone' /\ Computed'
<1>1. TablesTypeOK /\ ComputedAlone /\ Busy(thread) /\ computing[thread].left = {}
  BY DEF TablesIInv, TellFrequency
<1>2. /\ computing' = [computing EXCEPT ![thread] = Idle]
      /\ UNCHANGED <<pushing, subTables, made, tableMax, localMax, aggregated, tableEvents>>
  BY DEF TellFrequency
<1>3. ~Busy(thread)' /\ \A th \in Threads : th # thread => computing'[th] = computing[th] /\ (Busy(th)' <=> Busy(th))
  BY <1>1, <1>2 DEF Busy, TablesTypeOK, Idle
<1>4. CASE computing[thread].alone
  <2>1. Alone(thread)
    BY <1>1, <1>4 DEF ComputedAlone
  <2>2. \A th \in Threads : ~Busy(th)'
    BY <1>3, <2>1 DEF Alone
  <2>3. ASSUME excuses' = {} PROVE frequencyTold' = aggregated
    BY <1>4, <2>1, <2>3 DEF TellFrequency, Alone
  <2>4. ASSUME tableEvents = 0 PROVE HighestBut(aggregated, {})'
    <3>1. HighestBut(aggregated, {})
      BY <1>1, <2>1, <2>4 DEF Alone
    <3> QED
      BY <1>2, <3>1 DEF HighestBut, Live
  <2> QED
    BY <1>2, <2>2, <2>3, <2>4 DEF ComputedAlone, Computed
<1>5. CASE ~computing[thread].alone
  <2>1. excuses' # {}
    BY <1>5 DEF TellFrequency
  <2>2. ASSUME NEW th \in Threads, Busy(th)', computing'[th].alone PROVE FALSE
    BY <1>1, <1>3, <2>2 DEF ComputedAlone, Alone
  <2> QED
    BY <2>1, <2>2 DEF ComputedAlone, Computed
<1> QED
  BY <1>4, <1>5

(* A table that is new or configured: nobody computes, or a notification      *)
(* waits.                                                                    *)
LEMMA AddSubTableStep ==
  ASSUME TablesIInv, TablesTypeOK', NEW k \in Rows, AddSubTable(k)
  PROVE  UnmadeTables' /\ ComputedAlone' /\ Computed'
<1> USE TablesAssumption
<1>1. /\ TablesTypeOK /\ UnmadeTables /\ Computed
      /\ made' = made + 1 /\ made < MaxTables /\ subTables[k] = NoTable
      /\ subTables' = [subTables EXCEPT ![k] = made'] /\ computing' = Disturbed
      /\ UNCHANGED <<tableMax, localMax, aggregated, tableEvents, frequencyTold, excuses>>
  BY DEF TablesIInv, AddSubTable
<1>2. made \in Nat /\ made' \in Tables /\ \A j \in Rows : subTables[j] \in Nat
  BY <1>1 DEF TablesTypeOK, Tables, NoTable
<1>3. UnmadeTables'
  <2>1. ASSUME NEW j \in Rows PROVE subTables'[j] <= made'
    BY <1>1, <1>2 DEF UnmadeTables, TablesTypeOK
  <2>2. ASSUME NEW t \in Tables, t > made' PROVE tableMax'[t] = TABLE_NULL
    BY <1>1, <1>2, <2>2 DEF UnmadeTables, Tables
  <2> QED
    BY <2>1, <2>2 DEF UnmadeTables
<1>4. ASSUME HighestBut(aggregated, {}) PROVE HighestBut(aggregated, {})'
  <2>1. tableMax[made'] = TABLE_NULL
    BY <1>1, <1>2 DEF UnmadeTables, Tables
  <2>2. Live \subseteq Live'
    <3>1. ASSUME NEW t \in Live PROVE t \in Live'
      <4>1. PICK j \in Rows : subTables[j] = t
        BY DEF Live
      <4>2. j # k
        BY <1>1, <4>1 DEF Live, NoTable, Tables
      <4> QED
        BY <1>1, <4>1, <4>2 DEF Live, TablesTypeOK
    <3> QED
      BY <3>1
  <2>3. aggregated' = localMax' \/ \E t \in Live' : aggregated' = tableMax'[t]
    BY <1>1, <1>4, <2>2 DEF HighestBut
  <2>4. ASSUME NEW j \in Rows, subTables'[j] # NoTable PROVE tableMax'[subTables'[j]] <= aggregated'
    <3>1. CASE j = k
      <4>1. tableMax'[subTables'[j]] = TABLE_NULL
        BY <1>1, <2>1, <3>1 DEF TablesTypeOK
      <4>2. aggregated' \in RealFrequencies
        BY DEF TablesTypeOK
      <4> QED
        BY <4>1, <4>2, ReadIsReal
    <3>2. CASE j # k
      BY <1>1, <1>4, <2>4, <3>2 DEF HighestBut, TablesTypeOK
    <3> QED
      BY <3>1, <3>2
  <2> QED
    BY <1>1, <1>4, <2>3, <2>4 DEF HighestBut
<1>5. (\A th \in Threads : ~Busy(th)) => excuses' # {} \/ (Computed => Computed')
  BY <1>1, <1>4 DEF Computed
<1> QED
  BY <1>1, <1>3, <1>5, DisturbedStep

(* And the rest of the invariant. *)
LEMMA TablesOtherStep ==
  ASSUME TablesIInv, TablesTypeOK', TablesNext
  PROVE  TablesIInv'
<1> USE TablesAssumption
<1>0. TablesTypeOK /\ UnmadeTables /\ ComputedAlone /\ Computed
  BY DEF TablesIInv
<1>1. ASSUME NEW k \in Rows, AddSubTable(k) PROVE TablesIInv'
  BY <1>1, AddSubTableStep DEF TablesIInv
<1>2. ASSUME NEW k \in Rows, RemoveSubTable(k) PROVE TablesIInv'
  <2>1. /\ subTables' = [subTables EXCEPT ![k] = NoTable] /\ subTables[k] # NoTable
        /\ tableMax' = [tableMax EXCEPT ![subTables[k]] = TABLE_NULL]
        /\ StartComputing("session", subTables')
        /\ UNCHANGED <<made, localMax, frequencyTold>> /\ ~Busy("session") /\ "session" \in Threads
    BY <1>2 DEF RemoveSubTable, SessionThread, Threads
  <2>2. UnmadeTables'
    <3>1. \A j \in Rows : subTables'[j] <= made'
      <4>1. NoTable <= made
        BY <1>0 DEF TablesTypeOK, NoTable
      <4> QED
        BY <1>0, <2>1, <4>1 DEF UnmadeTables, TablesTypeOK
    <3>2. \A t \in Tables : t > made' => tableMax'[t] = TABLE_NULL
      BY <1>0, <2>1 DEF UnmadeTables, TablesTypeOK
    <3> QED
      BY <3>1, <3>2 DEF UnmadeTables
  <2>3. ComputedAlone' /\ Computed'
    BY <1>0, <2>1, StartStep
  <2> QED
    BY <2>2, <2>3 DEF TablesIInv
<1>3. ASSUME NEW given \in ServerFrequencies, Configured(given) PROVE TablesIInv'
  <2>1. UnmadeTables'
    BY <1>0, <1>3 DEF Configured, UnmadeTables
  <2>2. computing' = Disturbed /\ excuses' # {}
    BY <1>3 DEF Configured
  <2> QED
    BY <1>0, <2>1, <2>2, DisturbedStep DEF TablesIInv
<1>4. ASSUME NEW given \in ServerFrequencies, NEW t \in Tables, TableConfigured(t, given) PROVE TablesIInv'
  <2>1. /\ t \in Live /\ tableMax' = [tableMax EXCEPT ![t] = ReadFrequency(given)] /\ tableEvents' = tableEvents + 1
        /\ UNCHANGED <<pushing, subTables, made, localMax, aggregated, computing, frequencyTold, excuses>>
    BY <1>4 DEF TableConfigured
  <2>2. tableEvents' # 0
    BY <1>0, <2>1 DEF TablesTypeOK
  <2>3. t <= made /\ t \in Nat /\ made \in Nat
    BY <1>0, <2>1 DEF Live, UnmadeTables, TablesTypeOK, Tables
  <2>4. UnmadeTables'
    BY <1>0, <2>1, <2>3 DEF UnmadeTables, TablesTypeOK, Tables
  <2>5. \A th \in Threads : Busy(th)' <=> Busy(th)
    BY <2>1 DEF Busy
  <2>6. ComputedAlone'
    BY <1>0, <2>1, <2>2, <2>5 DEF ComputedAlone, Alone
  <2>7. Computed'
    BY <1>0, <2>1, <2>2, <2>5 DEF Computed
  <2> QED
    BY <2>4, <2>6, <2>7 DEF TablesIInv
<1>5. ASSUME NEW thread \in Threads, VisitTable(thread) PROVE TablesIInv'
  <2>1. UnmadeTables'
    BY <1>0, <1>5 DEF VisitTable, UnmadeTables
  <2> QED
    BY <1>5, <2>1, VisitStep DEF TablesIInv
<1>6. ASSUME NEW thread \in Threads, TellFrequency(thread) PROVE TablesIInv'
  <2>1. UnmadeTables'
    BY <1>0, <1>6 DEF TellFrequency, UnmadeTables
  <2> QED
    BY <1>6, <2>1, TellStep DEF TablesIInv
<1>7. ASSUME OnRealMaxFrequency PROVE TablesIInv'
  <2>1. /\ StartComputing("events", subTables') /\ ~Busy("events") /\ "events" \in Threads
        /\ UNCHANGED <<subTables, made, tableMax, localMax, frequencyTold>>
    BY <1>7 DEF OnRealMaxFrequency, Threads
  <2>2. UnmadeTables'
    BY <1>0, <2>1 DEF UnmadeTables
  <2> QED
    BY <1>0, <2>1, <2>2, StartStep DEF TablesIInv
<1>8. ASSUME PauseOrResume PROVE TablesIInv'
  <2>1. UNCHANGED <<subTables, made, tableMax, localMax, aggregated, tableEvents, computing, frequencyTold, excuses>>
    BY <1>8 DEF PauseOrResume
  <2>2. UnmadeTables'
    BY <1>0, <2>1 DEF UnmadeTables
  <2>3. ComputedAlone'
    BY <1>0, <2>1 DEF ComputedAlone, Alone, HighestBut, Live, Busy
  <2>4. Computed'
    BY <1>0, <2>1 DEF Computed, HighestBut, Live, Busy
  <2> QED
    BY <2>2, <2>3, <2>4 DEF TablesIInv
<1> QED
  BY <1>1, <1>2, <1>3, <1>4, <1>5, <1>6, <1>7, <1>8 DEF TablesNext

(* A computation that no other thread meets finds the highest frequency and
   tells it. *)
THEOREM TablesInductive == TablesSpec => []TablesIInv
<1>1. TablesInit => TablesIInv
  <2> SUFFICES ASSUME TablesInit PROVE TablesIInv
    OBVIOUS
  <2> USE TablesAssumption
  <2>1. TablesTypeOK
    <3>1. Idle \in [at : {"idle", "visiting"}, prev : RealFrequencies, left : SUBSET Rows, alone : BOOLEAN]
      BY DEF Idle, RealFrequencies
    <3>2. computing \in [Threads -> [at : {"idle", "visiting"}, prev : RealFrequencies, left : SUBSET Rows, alone : BOOLEAN]]
      BY <3>1 DEF TablesInit
    <3>3. TABLE_NULL \in RealFrequencies
      BY DEF RealFrequencies
    <3>4. /\ pushing \in BOOLEAN /\ excuses \subseteq {"met", "configured", "null"}
          /\ localMax \in RealFrequencies /\ aggregated \in RealFrequencies /\ frequencyTold \in RealFrequencies \cup {TABLE_UNLIMITED}
      BY <3>3 DEF TablesInit
    <3>6. made = 0 /\ tableEvents = 0
      BY DEF TablesInit
    <3>7. made \in 0..MaxTables /\ tableEvents \in 0..MaxTableEvents
      BY <3>6, TablesAssumption
    <3>5. subTables \in [Rows -> Tables \cup {NoTable}] /\ tableMax \in [Tables -> RealFrequencies]
      BY <3>3 DEF TablesInit
    <3> QED
      BY <3>2, <3>4, <3>5, <3>7 DEF TablesTypeOK
  <2>2. UnmadeTables
    BY DEF TablesInit, UnmadeTables, NoTable
  <2>3. \A th \in Threads : ~Busy(th)
    BY DEF TablesInit, Busy, Idle
  <2>4. HighestBut(aggregated, {})
    BY DEF TablesInit, HighestBut, NoTable, TABLE_NULL
  <2>5. frequencyTold = aggregated
    BY DEF TablesInit
  <2> QED
    BY <2>1, <2>2, <2>3, <2>4, <2>5 DEF TablesIInv, ComputedAlone, Computed
<1>2. TablesIInv /\ [TablesNext]_tablesVars => TablesIInv'
  <2> SUFFICES ASSUME TablesIInv, [TablesNext]_tablesVars PROVE TablesIInv'
    OBVIOUS
  <2>1. CASE TablesNext
    BY <2>1, TablesTypeStep, TablesOtherStep
  <2>2. CASE UNCHANGED tablesVars
    <3>1. UNCHANGED <<pushing, subTables, made, tableMax, localMax, aggregated, tableEvents, computing, frequencyTold, excuses>>
      BY <2>2 DEF tablesVars
    <3>2. TablesTypeOK'
      BY <3>1 DEF TablesIInv, TablesTypeOK
    <3>3. UnmadeTables'
      BY <3>1 DEF TablesIInv, UnmadeTables
    <3>4. ComputedAlone'
      BY <3>1 DEF TablesIInv, ComputedAlone, Alone, HighestBut, Live, Busy
    <3>5. Computed'
      BY <3>1 DEF TablesIInv, Computed, HighestBut, Live, Busy
    <3> QED
      BY <3>2, <3>3, <3>4, <3>5 DEF TablesIInv
  <2> QED
    BY <2>1, <2>2
<1> QED
  BY <1>1, <1>2, PTL DEF TablesSpec

(* Whatever the rows, their tables and the numbers of the server, the listener
   was told the highest frequency that the server applies to the first level and
   to the rows' tables, by the order that a listener goes by, once both threads
   are done, none met the other and none of the frequencies is unlimited
   (Subscription: onLocalFrequencyChanged, isHigherFrequency). *)
THEOREM HighestIsKnown == TablesSpec => []HighestIsTold
<1>1. TablesIInv => HighestIsTold
  <2> SUFFICES ASSUME TablesIInv, TablesAtRest, excuses = {}, TABLE_UNLIMITED \notin AllSaid
               PROVE  ToldTheHighest
    BY DEF HighestIsTold
  <2>1. frequencyTold = aggregated /\ HighestBut(frequencyTold, {}) /\ TablesTypeOK
    BY DEF TablesIInv, Computed, TablesAtRest
  <2>2. /\ localMax \in RealFrequencies
        /\ \A t \in Live : tableMax[t] \in RealFrequencies
        /\ frequencyTold \in RealFrequencies
    BY <2>1 DEF TablesTypeOK, Live
  <2>3. Said(localMax) = localMax /\ \A t \in Live : Said(tableMax[t]) = tableMax[t]
    BY DEF AllSaid, Said
  <2>4. AllSaid = {localMax} \cup {tableMax[t] : t \in Live}
    BY <2>3 DEF AllSaid
  <2>5. frequencyTold \in AllSaid
    BY <2>1, <2>4 DEF HighestBut
  <2>6. \A t \in Live : tableMax[t] <= frequencyTold
    <3> TAKE t \in Live
    <3>1. PICK k \in Rows : subTables[k] = t
      BY DEF Live
    <3>2. t # NoTable
      BY DEF Live, Tables, NoTable
    <3> QED
      BY <2>1, <3>1, <3>2 DEF HighestBut
  <2>7. ASSUME NEW f \in AllSaid PROVE ~Exceeds(f, frequencyTold)
    <3>1. f \in RealFrequencies /\ f <= frequencyTold
      BY <2>1, <2>2, <2>4, <2>6, <2>7 DEF HighestBut
    <3>2. f \in Int /\ frequencyTold \in Int
      BY <2>2, <3>1, ReadIsReal
    <3>3. ~(f > frequencyTold)
      BY <3>1, <3>2
    <3> QED
      BY <3>3 DEF Exceeds
  <2> QED
    BY <2>5, <2>7 DEF ToldTheHighest
<1> QED
  BY <1>1, TablesInductive, PTL

(* The types of the tables. *)
LEMMA TablesTyped == TablesSpec => []TablesTypeOK
<1>1. TablesIInv => TablesTypeOK
  BY DEF TablesIInv
<1> QED
  BY <1>1, TablesInductive, PTL

-----------------------------------------------------------------------------
(* Its configuration. *)

HasMain(s) == s.items # "none" /\ s.fields # "none"
HasBuffer(s) == s.buffer >= BUFFER_NULL
SettingsTypes == settings \in Settings /\ setter \in Setters \cup {NoSetter}
AsRequested ==
  /\ HasBuffer(settings)
  /\ settingsActive => HasMain(settings)
  /\ ~settingsActive => requested = NotRequested /\ tableRequest = NoTableRequest
  /\ settingsActive /\ setter # NoSetter => settingRaces
  /\ ~settingRaces => requested \in {NotRequested, SubscribeRequest(settings)}
  /\ ~settingRaces => \/ tableRequest = NoTableRequest
                      \/ tableRequest = TableRequest(settings) /\ settings.underFields # "none"
SettingsIInv == SettingsTypes /\ AsRequested

(* A setter, whatever its argument, leaves settings that are well formed and *)
(* takes neither items nor fields away.                                      *)
SetsWell(s, t) == t \in Settings /\ (HasMain(s) => HasMain(t)) /\ (HasBuffer(s) => HasBuffer(t))

(* Whatever a setter is given. *)
LEMMA OutcomesAreWell ==
  ASSUME NEW s \in Settings, NEW call \in Setters, NEW t \in Outcomes(call, s)
  PROVE  SetsWell(s, t)
<1> USE DEF SetsWell, HasMain, HasBuffer
<1>0. \A x \in Arguments : x.word = "number" => x.number \in Numbers
  BY DEF Arguments, Word, Number
<1>1. ASSUME t \in SetDataAdapter(s) PROVE SetsWell(s, t)
  BY <1>1 DEF SetDataAdapter, Settings
<1>2. ASSUME t \in SetSelector(s) PROVE SetsWell(s, t)
  BY <1>2 DEF SetSelector, Settings
<1>3. ASSUME t \in SetItems(s) PROVE SetsWell(s, t)
  BY <1>3 DEF SetItems, Settings
<1>4. ASSUME t \in SetItemGroup(s) PROVE SetsWell(s, t)
  BY <1>4 DEF SetItemGroup, Settings
<1>5. ASSUME t \in SetFields(s) PROVE SetsWell(s, t)
  BY <1>5 DEF SetFields, Settings
<1>6. ASSUME t \in SetFieldSchema(s) PROVE SetsWell(s, t)
  BY <1>6 DEF SetFieldSchema, Settings
<1>7. ASSUME NEW to \in Arguments, t \in SetRequestedBufferSize(s, to) PROVE SetsWell(s, t)
  <2>1. PICK n \in Numbers \cup {BUFFER_NULL, BUFFER_UNLIMITED} : t = [s EXCEPT !.buffer = n] /\ n >= BUFFER_NULL
    BY <1>7, <1>0 DEF SetRequestedBufferSize, BUFFER_NULL, BUFFER_UNLIMITED
  <2> QED
    BY <2>1 DEF Settings
<1>8. ASSUME NEW to \in Arguments, t \in SetRequestedSnapshot(s, to) PROVE SetsWell(s, t)
  <2>1. t = [s EXCEPT !.snapshot = to]
    BY <1>8 DEF SetRequestedSnapshot
  <2> QED
    BY <2>1 DEF Settings
<1>9. ASSUME NEW to \in Arguments, t \in SetRequestedMaxFrequency(s, to) PROVE SetsWell(s, t)
  <2>1. PICK n \in Numbers \cup {FREQUENCY_NULL, FREQUENCY_UNFILTERED, FREQUENCY_UNLIMITED} : t = [s EXCEPT !.frequency = n]
    BY <1>9, <1>0 DEF SetRequestedMaxFrequency
  <2> QED
    BY <2>1 DEF Settings
<1>10. ASSUME t \in SetCommandSecondLevelDataAdapter(s) PROVE SetsWell(s, t)
  BY <1>10 DEF SetCommandSecondLevelDataAdapter, Settings
<1>11. ASSUME t \in SetCommandSecondLevelFields(s) PROVE SetsWell(s, t)
  <2>1. t = [s EXCEPT !.underFields = "list"]
    BY <1>11 DEF SetCommandSecondLevelFields
  <2> QED
    BY <2>1 DEF Settings
<1>12. ASSUME t \in SetCommandSecondLevelFieldSchema(s) PROVE SetsWell(s, t)
  <2>1. t = [s EXCEPT !.underFields = "group"]
    BY <1>12 DEF SetCommandSecondLevelFieldSchema
  <2> QED
    BY <2>1 DEF Settings
<1>13. /\ call.set \in {"DataAdapter", "Selector", "Items", "ItemGroup", "Fields", "FieldSchema", "SecondLevelDataAdapter",
                        "SecondLevelFields", "SecondLevelFieldSchema", "RequestedBufferSize", "RequestedSnapshot",
                        "RequestedMaxFrequency"}
       /\ call.to \in Arguments
  BY DEF Setters, Arguments
<1> HIDE DEF SetsWell, HasMain, HasBuffer
<1> QED
  BY <1>1, <1>2, <1>3, <1>4, <1>5, <1>6, <1>7, <1>8, <1>9, <1>10, <1>11, <1>12, <1>13 DEF Outcomes

(* The types of the requests, and of what the invariant does not need.        *)
SubscribeRequests ==
  [group : {"none", "list", "group"}, schema : {"none", "list", "group"}, dataAdapter : BOOLEAN,
   selector : BOOLEAN, snapshot : Arguments \cup {Word("")}, frequency : Arguments, buffer : Arguments]
TableRequests ==
  [schema : {"none", "list", "group"}, dataAdapter : BOOLEAN,
   frequency : Numbers \cup {FREQUENCY_NULL, FREQUENCY_UNFILTERED, FREQUENCY_UNLIMITED}]
SettingsOthers ==
  /\ mode \in Modes /\ settingsActive \in BOOLEAN /\ settingRaces \in BOOLEAN /\ settingCalls \in 0..MaxSettings
  /\ requested \in SubscribeRequests /\ tableRequest \in TableRequests

(* The requests were made of the settings as they are, unless a setter raced. *)
THEOREM SettingsInductive == SettingsSpec => []SettingsIInv
<1>1. SettingsInit => SettingsIInv
  <2> SUFFICES ASSUME SettingsInit PROVE SettingsIInv
    OBVIOUS
  <2>1. settings \in Settings
    BY DEF SettingsInit, Settings, Arguments, Word
  <2>2. HasBuffer(settings)
    <3>1. settings.buffer = BUFFER_NULL
      BY DEF SettingsInit
    <3> QED
      BY <3>1 DEF HasBuffer, BUFFER_NULL
  <2> QED
    BY <2>1, <2>2 DEF SettingsInit, SettingsIInv, SettingsTypes, AsRequested
<1>2. SettingsIInv /\ [SettingsNext]_settingsVars => SettingsIInv'
  <2> SUFFICES ASSUME SettingsIInv, [SettingsNext]_settingsVars PROVE SettingsIInv'
    OBVIOUS
  <2> USE DEF SettingsIInv, SettingsTypes, AsRequested
  <2>1. ASSUME NEW call \in Setters, SetterChecks(call) PROVE SettingsIInv'
    BY <2>1 DEF SetterChecks
  <2>2. ASSUME SetterWrites PROVE SettingsIInv'
    <3>1. settings' \in Settings /\ (HasMain(settings) => HasMain(settings')) /\ HasBuffer(settings')
      <4>1. CASE settings' \in Outcomes(setter, settings)
        BY <2>2, <4>1, OutcomesAreWell DEF SetterWrites, SetsWell
      <4>2. CASE UNCHANGED settings
        BY <4>2
      <4> QED
        BY <2>2, <4>1, <4>2 DEF SetterWrites
    <3> QED
      BY <2>2, <3>1 DEF SetterWrites
  <2>3. ASSUME SetActive PROVE SettingsIInv'
    BY <2>3 DEF SetActive, HasMain
  <2>4. ASSUME SetInactive PROVE SettingsIInv'
    BY <2>4 DEF SetInactive
  <2>5. ASSUME GenerateSubscribeRequest PROVE SettingsIInv'
    BY <2>5 DEF GenerateSubscribeRequest
  <2>6. ASSUME MakeTable PROVE SettingsIInv'
    BY <2>6 DEF MakeTable
  <2>7. ASSUME UNCHANGED settingsVars PROVE SettingsIInv'
    BY <2>7 DEF settingsVars
  <2> QED
    BY <2>1, <2>2, <2>3, <2>4, <2>5, <2>6, <2>7 DEF SettingsNext
<1> QED
  BY <1>1, <1>2, PTL DEF SettingsSpec

(* Whatever the arguments of the setters, what the getters of an active
   subscription return is what its request says (Subscription: its setters and
   the requests made of them). *)
THEOREM RequestIsAsTold == SettingsSpec => []GettersTellTheRequest
<1>1. SettingsIInv => GettersTellTheRequest
  <2> SUFFICES ASSUME SettingsIInv, requested # NotRequested, ~settingRaces, settings.frequency >= FREQUENCY_NULL
               PROVE  GettersTellTheRequest
    BY DEF GettersTellTheRequest
  <2>1. /\ settings \in Settings /\ HasMain(settings) /\ requested = SubscribeRequest(settings)
        /\ \/ tableRequest = NoTableRequest
           \/ tableRequest = TableRequest(settings) /\ settings.underFields # "none"
    BY DEF SettingsIInv, SettingsTypes, AsRequested
  <2>2. /\ settings.items \in {"list", "group"} /\ settings.fields \in {"list", "group"}
        /\ settings.underFields \in {"none", "list", "group"}
    BY <2>1 DEF Settings, HasMain
  <2>3. settings.buffer \in Int /\ settings.buffer >= -1 /\ settings.frequency \in Int /\ settings.frequency >= -2
    <3>1. /\ settings.buffer \in Numbers \cup {BUFFER_NULL, BUFFER_UNLIMITED}
          /\ settings.frequency \in Numbers \cup {FREQUENCY_NULL, FREQUENCY_UNFILTERED, FREQUENCY_UNLIMITED}
      BY <2>1 DEF Settings
    <3>2. settings.buffer >= -1 /\ settings.frequency >= -2
      BY DEF SettingsIInv, AsRequested, HasBuffer, BUFFER_NULL, FREQUENCY_NULL
    <3> QED
      BY <3>1, <3>2 DEF Numbers, BUFFER_NULL, BUFFER_UNLIMITED, FREQUENCY_NULL, FREQUENCY_UNFILTERED, FREQUENCY_UNLIMITED
  <2>4. /\ requested.group = (IF GetItems(settings) = "throws" THEN GetItemGroup(settings) ELSE GetItems(settings))
        /\ requested.schema = (IF GetFields(settings) = "throws" THEN GetFieldSchema(settings) ELSE GetFields(settings))
    BY <2>1, <2>2 DEF SubscribeRequest, GetItems, GetItemGroup, GetFields, GetFieldSchema
  <2>5. /\ requested.dataAdapter = GetDataAdapter(settings) /\ requested.selector = GetSelector(settings)
        /\ requested.snapshot = GetRequestedSnapshot(settings)
    BY <2>1 DEF SubscribeRequest, GetDataAdapter, GetSelector, GetRequestedSnapshot
  <2>6. requested.frequency = GetRequestedMaxFrequency(settings)
    BY <2>1, <2>3 DEF SubscribeRequest, GetRequestedMaxFrequency, FREQUENCY_NULL, FREQUENCY_UNFILTERED, FREQUENCY_UNLIMITED
  <2>7. requested.buffer = GetRequestedBufferSize(settings)
    BY <2>1, <2>3 DEF SubscribeRequest, GetRequestedBufferSize, BUFFER_NULL, BUFFER_UNLIMITED
  <2>8. tableRequest # NoTableRequest =>
         /\ tableRequest.schema \in {GetCommandSecondLevelFields(settings), GetCommandSecondLevelFieldSchema(settings)}
         /\ tableRequest.dataAdapter = GetCommandSecondLevelDataAdapter(settings)
         /\ tableRequest.frequency = settings.frequency
    BY <2>1, <2>2 DEF TableRequest, GetCommandSecondLevelFields, GetCommandSecondLevelFieldSchema, GetCommandSecondLevelDataAdapter
  <2> QED
    BY <2>4, <2>5, <2>6, <2>7, <2>8 DEF GettersTellTheRequest
<1> QED
  BY <1>1, SettingsInductive, PTL

(* The requests have the types of the settings that they are made of.         *)
LEMMA RequestsAreTyped ==
  ASSUME NEW s \in Settings, HasBuffer(s)
  PROVE  /\ SubscribeRequest(s) \in SubscribeRequests
         /\ TableRequest(s) \in TableRequests
<1>1. /\ s.items \in {"none", "list", "group"} /\ s.fields \in {"none", "list", "group"}
      /\ s.underFields \in {"none", "list", "group"}
      /\ s.dataAdapter \in BOOLEAN /\ s.selector \in BOOLEAN /\ s.under \in BOOLEAN
      /\ s.snapshot \in Arguments \cup {Word("")}
      /\ s.frequency \in Numbers \cup {FREQUENCY_NULL, FREQUENCY_UNFILTERED, FREQUENCY_UNLIMITED}
      /\ s.buffer \in Numbers \cup {BUFFER_NULL, BUFFER_UNLIMITED}
  BY DEF Settings
<1>2. /\ s.frequency \in {-3, -2, -1, 0, 2} /\ s.buffer \in {-3, -1, 0, 2}
  BY <1>1 DEF Numbers, FREQUENCY_NULL, FREQUENCY_UNFILTERED, FREQUENCY_UNLIMITED, BUFFER_NULL, BUFFER_UNLIMITED
<1>3. /\ Word("unfiltered") \in Arguments /\ Word("unlimited") \in Arguments /\ Word("null") \in Arguments
      /\ Number(2) \in Arguments
  BY DEF Arguments, Numbers
<1>4. SubscribeRequest(s).frequency \in Arguments
  BY <1>2, <1>3 DEF SubscribeRequest, FREQUENCY_UNFILTERED, FREQUENCY_UNLIMITED
<1>5. SubscribeRequest(s).buffer \in Arguments
  BY <1>2, <1>3 DEF SubscribeRequest, BUFFER_UNLIMITED
<1>6. SubscribeRequest(s) \in SubscribeRequests
  BY <1>1, <1>4, <1>5 DEF SubscribeRequest, SubscribeRequests
<1> QED
  BY <1>1, <1>6 DEF TableRequest, TableRequests

(* So have those that stand for none. *)
LEMMA NoRequestTypes == NotRequested \in SubscribeRequests /\ NoTableRequest \in TableRequests
BY DEF NotRequested, NoTableRequest, SubscribeRequests, TableRequests, Arguments, Numbers, Number, Word

(* The configuration keeps its types. *)
LEMMA SettingsTyped == SettingsSpec => []SettingsTypeOK
<1>1. SettingsInit => SettingsOthers
  <2>1. NotRequested \in SubscribeRequests /\ NoTableRequest \in TableRequests
    BY NoRequestTypes
  <2>2. 0 \in 0..MaxSettings
    BY SettingsAssumption
  <2> QED
    BY <2>1, <2>2 DEF SettingsInit, SettingsOthers
<1>2. SettingsIInv /\ SettingsOthers /\ [SettingsNext]_settingsVars => SettingsOthers'
  <2> SUFFICES ASSUME SettingsIInv, SettingsOthers, [SettingsNext]_settingsVars PROVE SettingsOthers'
    OBVIOUS
  <2>1. ASSUME NEW call \in Setters, SetterChecks(call) PROVE SettingsOthers'
    <3>1. settingCalls' \in 0..MaxSettings
      BY <2>1, SettingsAssumption DEF SetterChecks, SettingsOthers
    <3>2. /\ settingRaces' = FALSE
          /\ UNCHANGED <<mode, settingsActive, requested, tableRequest>>
      BY <2>1 DEF SetterChecks
    <3> QED
      BY <3>1, <3>2 DEF SettingsOthers
  <2>2. ASSUME SetterWrites PROVE SettingsOthers'
    BY <2>2 DEF SetterWrites, SettingsOthers
  <2>3. ASSUME SetActive PROVE SettingsOthers'
    BY <2>3 DEF SetActive, SettingsOthers
  <2>4. ASSUME SetInactive PROVE SettingsOthers'
    BY <2>4, NoRequestTypes DEF SetInactive, SettingsOthers
  <2>5. ASSUME GenerateSubscribeRequest PROVE SettingsOthers'
    BY <2>5, RequestsAreTyped DEF GenerateSubscribeRequest, SettingsOthers, SettingsIInv, SettingsTypes, AsRequested
  <2>6. ASSUME MakeTable PROVE SettingsOthers'
    BY <2>6, RequestsAreTyped DEF MakeTable, SettingsOthers, SettingsIInv, SettingsTypes, AsRequested
  <2>7. ASSUME UNCHANGED settingsVars PROVE SettingsOthers'
    BY <2>7 DEF settingsVars, SettingsOthers
  <2> QED
    BY <2>1, <2>2, <2>3, <2>4, <2>5, <2>6, <2>7 DEF SettingsNext
<1>3. SettingsIInv /\ SettingsOthers => SettingsTypeOK
  BY DEF SettingsIInv, SettingsTypes, SettingsOthers, SubscribeRequests, TableRequests, SettingsTypeOK
<1> QED
  BY <1>1, <1>2, <1>3, SettingsInductive, PTL DEF SettingsSpec

-----------------------------------------------------------------------------
(* Its items. *)

SnapshotStates == {"NO_UPDATE_RECEIVED", "ONE_UPDATE_RECEIVED", "MORE_THAN_ONE_UPDATE_RECEIVED"}
Managers == [state : SnapshotStates, firstUpdate : BOOLEAN, eosReceived : BOOLEAN]
RowTables == [RowKeys -> RowValues \cup {Nothing}]
SentItems == [updates : Nat, eos : BOOLEAN, key : RowKeys \cup {Nothing}, rows : RowTables]

ItemsTypes ==
  /\ snapshot \in {"", "no", "yes"}
  /\ snapshotByItem \in [Items -> Managers]
  /\ keyByItem \in [Items -> RowKeys \cup {Nothing}]
  /\ oldValuesByKey \in [Items -> RowTables]
  /\ sentData \in [Items -> SentItems]
  /\ forgotten \in [Items -> SUBSET RowKeys]

(* A manager has counted what was sent. *)
Counted(m, data) ==
  /\ m.state = "NO_UPDATE_RECEIVED" <=> data.updates = 0
  /\ m.state = "ONE_UPDATE_RECEIVED" <=> data.updates = 1
  /\ m.firstUpdate <=> data.updates < 2
  /\ m.eosReceived <=> data.eos
(* The values kept are those of the rows sent, but for those gone. *)
RowsKept(data, key, values, gone) ==
  /\ data.key # Nothing => key = data.key
  /\ \A k \in RowKeys : data.rows[k] # Nothing => values[k] = IF k \in gone THEN Nothing ELSE data.rows[k]
ItemKept(i) ==
  Counted(snapshotByItem[i], sentData[i]) /\ RowsKept(sentData[i], keyByItem[i], oldValuesByKey[i], forgotten[i])
ItemsIInv == ItemsTypes /\ FlagsAreRight /\ \A i \in Items \ unheard : ItemKept(i)

(* A manager stays one through an update, whatever it has counted. *)
LEMMA UpdateStaysManager ==
  ASSUME NEW m \in Managers
  PROVE  SnapshotUpdate(m) \in Managers
<1>1. m.state \in SnapshotStates
  BY DEF Managers
<1>2. CASE m.state = "NO_UPDATE_RECEIVED"
  BY <1>2 DEF SnapshotUpdate, Managers, SnapshotStates
<1>3. CASE m.state = "ONE_UPDATE_RECEIVED"
  <2>1. SnapshotUpdate(m) = [m EXCEPT !.state = "MORE_THAN_ONE_UPDATE_RECEIVED", !.firstUpdate = FALSE]
    BY <1>3 DEF SnapshotUpdate
  <2> QED
    BY <2>1 DEF Managers, SnapshotStates
<1>4. CASE m.state = "MORE_THAN_ONE_UPDATE_RECEIVED"
  BY <1>4 DEF SnapshotUpdate
<1> QED
  BY <1>1, <1>2, <1>3, <1>4 DEF SnapshotStates

(* A manager stays so through an update, and tells rightly what it is of. *)
UpdateIsSound(m, data, t) ==
  /\ SnapshotUpdate(m) \in Managers
  /\ t.updates = data.updates + 1 /\ (t.eos <=> data.eos) => Counted(SnapshotUpdate(m), t)
  /\ SnapshotUpdate(m).firstUpdate <=> data.updates = 0
  /\ SnapshotUpdate(m).eosReceived <=> data.eos
(* SnapshotManager: update. *)
LEMMA UpdateCounts ==
  ASSUME NEW m \in Managers, NEW data \in SentItems, Counted(m, data), NEW t \in SentItems
  PROVE  UpdateIsSound(m, data, t)
<1>1. /\ m.state \in SnapshotStates /\ m.firstUpdate \in BOOLEAN /\ m.eosReceived \in BOOLEAN
      /\ data.updates \in Nat /\ t.updates \in Nat
  BY DEF Managers, SentItems
<1>2. CASE m.state = "NO_UPDATE_RECEIVED"
  <2>1. SnapshotUpdate(m) = [m EXCEPT !.state = "ONE_UPDATE_RECEIVED"]
    BY <1>2 DEF SnapshotUpdate
  <2> QED
    BY <2>1, <1>1, <1>2 DEF UpdateIsSound, Counted, Managers, SnapshotStates
<1>3. CASE m.state = "ONE_UPDATE_RECEIVED"
  <2>1. SnapshotUpdate(m) = [m EXCEPT !.state = "MORE_THAN_ONE_UPDATE_RECEIVED", !.firstUpdate = FALSE]
    BY <1>3 DEF SnapshotUpdate
  <2>2. m = [state |-> m.state, firstUpdate |-> m.firstUpdate, eosReceived |-> m.eosReceived]
    BY DEF Managers
  <2>3. SnapshotUpdate(m) = [state |-> "MORE_THAN_ONE_UPDATE_RECEIVED", firstUpdate |-> FALSE, eosReceived |-> m.eosReceived]
    BY <2>1, <2>2
  <2> QED
    BY <2>3, <1>1, <1>3 DEF UpdateIsSound, Counted, Managers, SnapshotStates
<1>4. CASE m.state = "MORE_THAN_ONE_UPDATE_RECEIVED"
  <2>1. SnapshotUpdate(m) = m
    BY <1>4 DEF SnapshotUpdate
  <2> QED
    BY <2>1, <1>1, <1>4 DEF UpdateIsSound, Counted, Managers, SnapshotStates
<1> QED
  BY <1>1, <1>2, <1>3, <1>4 DEF SnapshotStates

(* The values of an item keep up with an update of a row. *)
RowIsKept(data, values, gone, row, value) ==
  /\ SentRow(data, row, value) \in SentItems
  /\ SentRow(data, row, value).updates = data.updates + 1
  /\ SentRow(data, row, value).eos <=> data.eos
  /\ \A key : RowsKept(data, key, values, gone) =>
       RowsKept(SentRow(data, row, value), row, [k \in RowKeys |-> IF k = row THEN value ELSE values[k]], gone \ {row})
(* A row keeps up with the value sent for it. *)
LEMMA RowKeepsUp ==
  ASSUME NEW data \in SentItems, NEW values \in RowTables, NEW gone, NEW row \in RowKeys, NEW value \in RowValues
  PROVE  RowIsKept(data, values, gone, row, value)
<1>1. /\ data.updates \in Nat /\ data.eos \in BOOLEAN /\ data.rows \in RowTables
      /\ data = [updates |-> data.updates, eos |-> data.eos, key |-> data.key, rows |-> data.rows]
  BY DEF SentItems
<1>2. SentRow(data, row, value) = [updates |-> data.updates + 1, eos |-> data.eos, key |-> row,
                                   rows |-> [data.rows EXCEPT ![row] = value]]
  <2>1. PICK u \in Nat, e \in BOOLEAN, k \in RowKeys \cup {Nothing}, rs \in RowTables :
          data = [updates |-> u, eos |-> e, key |-> k, rows |-> rs]
    BY <1>1, Zenon DEF SentItems
  <2>2. SentRow(data, row, value) = [data EXCEPT !.updates = u + 1, !.key = row, !.rows = [rs EXCEPT ![row] = value]]
    BY <2>1 DEF SentRow
  <2>3. SentRow(data, row, value) = [updates |-> u + 1, eos |-> e, key |-> row, rows |-> [rs EXCEPT ![row] = value]]
    BY <2>1, <2>2
  <2> QED
    BY <2>1, <2>3
<1>3. [data.rows EXCEPT ![row] = value] \in RowTables
  BY <1>1 DEF RowTables
<1>4. \A k \in RowKeys : [data.rows EXCEPT ![row] = value][k] = IF k = row THEN value ELSE data.rows[k]
  BY <1>1 DEF RowTables
<1>5. ASSUME NEW key, RowsKept(data, key, values, gone)
      PROVE  RowsKept(SentRow(data, row, value), row, [k \in RowKeys |-> IF k = row THEN value ELSE values[k]], gone \ {row})
  BY <1>2, <1>4, <1>5 DEF RowsKept
<1>6. /\ SentRow(data, row, value) \in SentItems
      /\ SentRow(data, row, value).updates = data.updates + 1 /\ SentRow(data, row, value).eos = data.eos
  BY <1>1, <1>2, <1>3 DEF SentItems
<1> QED
  BY <1>5, <1>6, Zenon DEF RowIsKept

(* An update of a row counts one, and so does one of an item without rows. *)
LEMMA UpdateIsSent ==
  ASSUME NEW data \in SentItems, NEW key \in RowKeys \cup {Nothing}, NEW value \in RowValues,
         key = Nothing => dataMode # "COMMAND" \/ data.key # Nothing
  PROVE  /\ SentUpdate(data, key, value) \in SentItems
         /\ SentUpdate(data, key, value).updates = data.updates + 1
         /\ SentUpdate(data, key, value).eos <=> data.eos
<1>1. CASE dataMode = "COMMAND"
  <2> DEFINE row == IF key = Nothing THEN data.key ELSE key
  <2>1. row \in RowKeys
    BY <1>1 DEF SentItems
  <2>2. SentUpdate(data, key, value) = SentRow(data, row, value)
    BY <1>1 DEF SentUpdate
  <2> HIDE DEF row
  <2>3. NoRows \in RowTables
    BY DEF NoRows, RowTables
  <2>4. RowIsKept(data, NoRows, {}, row, value)
    BY <2>1, <2>3, RowKeepsUp
  <2> QED
    BY <2>2, <2>4 DEF RowIsKept
<1>2. CASE dataMode # "COMMAND"
  BY <1>2 DEF SentUpdate, SentItems
<1> QED
  BY <1>1, <1>2

(* Nothing sent, nothing counted. *)
LEMMA NewIsCounted ==
  /\ NewManager \in Managers /\ NothingSent \in SentItems /\ NoRows \in RowTables
  /\ Counted(NewManager, NothingSent)
  /\ \A key, values, gone : RowsKept(NothingSent, key, values, gone)
<1>1. NewManager \in Managers
  BY DEF NewManager, Managers, SnapshotStates
<1>2. NoRows \in RowTables /\ \A k \in RowKeys : NoRows[k] = Nothing
  BY DEF NoRows, RowTables
<1>3. NothingSent \in SentItems
  BY <1>2 DEF NothingSent, SentItems
<1>4. Counted(NewManager, NothingSent)
  BY DEF NewManager, NothingSent, Counted
<1> QED
  BY <1>1, <1>2, <1>3, <1>4 DEF RowsKept, NothingSent

(* What an item that an unheard event is of leaves alone: the other items. *)
LEMMA UnheardStep ==
  ASSUME ItemsIInv, NEW i \in Items, NEW t \in SentItems, sentData' = [sentData EXCEPT ![i] = t],
         UNCHANGED <<dataMode, snapshot>>, Unheard(i)
  PROVE  ItemsIInv'
<1>1. unheard' = unheard \cup {i} /\ UNCHANGED <<snapshotByItem, keyByItem, oldValuesByKey, forgotten, flagged>>
  BY DEF Unheard, ofValues
<1>2. ItemsTypes' /\ FlagsAreRight'
  BY <1>1 DEF ItemsIInv, ItemsTypes, FlagsAreRight
<1>3. ASSUME NEW j \in Items \ unheard' PROVE ItemKept(j)'
  <2>1. j \in Items \ unheard /\ sentData'[j] = sentData[j]
    BY <1>1 DEF ItemsIInv, ItemsTypes
  <2> QED
    BY <1>1, <2>1 DEF ItemsIInv, ItemKept
<1> QED
  BY <1>2, <1>3 DEF ItemsIInv

(* An update of an item, heard: its manager counts it. *)
LEMMA UpdateCounted ==
  ASSUME ItemsIInv, NEW i \in Items, NEW key \in RowKeys \cup {Nothing}, NEW value \in RowValues,
         UNCHANGED <<dataMode, snapshot>>, Update(i, key, value)
  PROVE  /\ snapshotByItem' \in [Items -> Managers]
         /\ snapshotByItem' = [snapshotByItem EXCEPT ![i] = SnapshotUpdate(snapshotByItem[i])]
         /\ FlagsAreRight'
<1> DEFINE m == snapshotByItem[i]
           data == sentData[i]
<1>1. m \in Managers /\ data \in SentItems /\ (i \notin unheard => Counted(m, data))
  BY DEF ItemsIInv, ItemsTypes, ItemKept
<1>2. /\ snapshotByItem' = [snapshotByItem EXCEPT ![i] = SnapshotUpdate(m)]
      /\ flagged' = [is |-> IsSnapshot(snapshotByItem'[i]), first |-> data.updates = 0, eos |-> data.eos,
                     late |-> i \in unheard]
  BY DEF Update, ItemsIInv, ItemsTypes
<1>3. snapshotByItem' \in [Items -> Managers] /\ snapshotByItem'[i] = SnapshotUpdate(m)
  BY <1>1, <1>2, UpdateStaysManager DEF ItemsIInv, ItemsTypes
<1>4. CASE i \in unheard
  <2>1. flagged'.late
    BY <1>2, <1>4
  <2> QED
    BY <1>2, <1>3, <2>1 DEF FlagsAreRight
<1>5. CASE i \notin unheard
  <2>1. /\ SnapshotUpdate(m).firstUpdate <=> data.updates = 0
        /\ SnapshotUpdate(m).eosReceived <=> data.eos
    BY <1>1, <1>5, UpdateCounts DEF UpdateIsSound
  <2>2. snapshot \in {"", "no", "yes"}
    BY DEF ItemsIInv, ItemsTypes
  <2>3. PICK f \in BOOLEAN : f <=> data.updates = 0
    OBVIOUS
  <2>4. (flagged'.first <=> f) /\ flagged'.eos = data.eos
    BY <1>2, <2>3
  <2>5. flagged'.is <=> IsSnapshot(snapshotByItem'[i])
    BY <1>2
  <2>6. IsSnapshot(snapshotByItem'[i]) <=>
          snapshot = "yes" /\ CASE dataMode = "MERGE" -> f
                                [] dataMode \in {"COMMAND", "DISTINCT"} -> ~data.eos
                                [] OTHER -> FALSE
    BY <1>3, <2>1, <2>2, <2>3 DEF IsSnapshot, SnapshotRequested
  <2> QED
    BY <1>2, <1>3, <2>4, <2>5, <2>6 DEF FlagsAreRight
<1> QED
  BY <1>4, <1>5

(* An update of an item, heard: its values keep up with it. *)
LEMMA UpdateHeard ==
  ASSUME ItemsIInv, NEW i \in Items, NEW key \in RowKeys \cup {Nothing}, NEW value \in RowValues,
         key = Nothing => dataMode # "COMMAND" \/ sentData[i].key # Nothing,
         sentData' = [sentData EXCEPT ![i] = SentUpdate(sentData[i], key, value)],
         UNCHANGED <<dataMode, snapshot>>, Update(i, key, value)
  PROVE  ItemsIInv'
<1> DEFINE m == snapshotByItem[i]
           data == sentData[i]
           t == SentUpdate(data, key, value)
           row == ExtendedKey(i, key)
           values == [k \in RowKeys |-> IF k = row THEN value ELSE oldValuesByKey[i][k]]
<1>1. /\ m \in Managers /\ data \in SentItems
      /\ keyByItem[i] \in RowKeys \cup {Nothing} /\ oldValuesByKey[i] \in RowTables
      /\ i \notin unheard => Counted(m, data) /\ RowsKept(data, keyByItem[i], oldValuesByKey[i], forgotten[i])
  BY DEF ItemsIInv, ItemsTypes, ItemKept
<1>2. /\ t \in SentItems /\ t.updates = data.updates + 1 /\ (t.eos <=> data.eos)
      /\ sentData' = [sentData EXCEPT ![i] = t]
  BY <1>1, UpdateIsSent
<1>3. /\ snapshotByItem' \in [Items -> Managers]
      /\ snapshotByItem' = [snapshotByItem EXCEPT ![i] = SnapshotUpdate(m)]
      /\ FlagsAreRight' /\ unheard' = unheard
  BY UpdateCounted DEF Update
<1>4. i \notin unheard => Counted(SnapshotUpdate(m), t)
  BY <1>1, <1>2, UpdateCounts DEF UpdateIsSound
<1>5. row \in RowKeys \cup {Nothing} /\ values \in RowTables
  BY <1>1 DEF ExtendedKey, RowTables
<1>6. CASE dataMode = "COMMAND"
  <2>1. /\ keyByItem' = [keyByItem EXCEPT ![i] = row]
        /\ oldValuesByKey' = [oldValuesByKey EXCEPT ![i] = values]
        /\ forgotten' = [forgotten EXCEPT ![i] = forgotten[i] \ {row}]
    BY <1>6 DEF Update, ItemsIInv, ItemsTypes
  <2>2. ASSUME i \notin unheard PROVE RowsKept(t, row, values, forgotten[i] \ {row})
    <3>1. row \in RowKeys /\ t = SentRow(data, row, value)
      BY <1>1, <1>6, <2>2 DEF ExtendedKey, RowsKept, SentItems, SentUpdate
    <3>2. RowIsKept(data, oldValuesByKey[i], forgotten[i], row, value)
      BY <1>1, <3>1, RowKeepsUp
    <3> QED
      BY <1>1, <2>2, <3>1, <3>2 DEF RowIsKept
  <2> HIDE DEF t, row, values
  <2>3. ItemsTypes'
    <3>1. /\ keyByItem' \in [Items -> RowKeys \cup {Nothing}] /\ oldValuesByKey' \in [Items -> RowTables]
          /\ forgotten' \in [Items -> SUBSET RowKeys]
      BY <1>5, <2>1 DEF ItemsIInv, ItemsTypes
    <3>2. sentData' \in [Items -> SentItems] /\ snapshot' \in {"", "no", "yes"}
      BY <1>2 DEF ItemsIInv, ItemsTypes
    <3> QED
      BY <1>3, <3>1, <3>2 DEF ItemsTypes
  <2>4. ASSUME NEW j \in Items \ unheard PROVE ItemKept(j)'
    <3>1. /\ snapshotByItem'[j] = IF j = i THEN SnapshotUpdate(m) ELSE snapshotByItem[j]
          /\ sentData'[j] = IF j = i THEN t ELSE sentData[j]
      BY <1>2, <1>3 DEF ItemsIInv, ItemsTypes
    <3>2. /\ keyByItem'[j] = IF j = i THEN row ELSE keyByItem[j]
          /\ oldValuesByKey'[j] = IF j = i THEN values ELSE oldValuesByKey[j]
          /\ forgotten'[j] = IF j = i THEN forgotten[i] \ {row} ELSE forgotten[j]
      BY <2>1 DEF ItemsIInv, ItemsTypes
    <3>3. ItemKept(j)
      BY DEF ItemsIInv
    <3> QED
      BY <1>4, <2>2, <3>1, <3>2, <3>3 DEF ItemKept
  <2> QED
    BY <1>3, <2>3, <2>4 DEF ItemsIInv
<1>7. CASE dataMode # "COMMAND"
  <2>1. UNCHANGED <<keyByItem, oldValuesByKey, forgotten>>
    BY <1>7 DEF Update
  <2>2. t.key = data.key /\ t.rows = data.rows
    BY <1>1, <1>7 DEF SentUpdate, SentItems
  <2> HIDE DEF t
  <2>3. i \notin unheard => RowsKept(t, keyByItem[i], oldValuesByKey[i], forgotten[i])
    BY <1>1, <2>2 DEF RowsKept
  <2>4. ItemsTypes'
    <3>1. sentData' \in [Items -> SentItems]
      BY <1>2 DEF ItemsIInv, ItemsTypes
    <3> QED
      BY <1>3, <2>1, <3>1 DEF ItemsIInv, ItemsTypes
  <2>5. ASSUME NEW j \in Items \ unheard PROVE ItemKept(j)'
    <3>1. /\ snapshotByItem'[j] = IF j = i THEN SnapshotUpdate(m) ELSE snapshotByItem[j]
          /\ sentData'[j] = IF j = i THEN t ELSE sentData[j]
      BY <1>2, <1>3 DEF ItemsIInv, ItemsTypes
    <3>2. ItemKept(j)
      BY DEF ItemsIInv
    <3> QED
      BY <1>4, <2>1, <2>3, <3>1, <3>2 DEF ItemKept
  <2> QED
    BY <1>3, <2>4, <2>5 DEF ItemsIInv
<1> QED
  BY <1>6, <1>7

(* An update of an item. *)
LEMMA UpdateStep ==
  ASSUME ItemsIInv, NEW i \in Items, NEW key \in RowKeys \cup {Nothing}, NEW value \in RowValues, ItemUpdate(i, key, value)
  PROVE  ItemsIInv'
<1>1. /\ sentData[i] \in SentItems /\ UNCHANGED <<dataMode, snapshot>>
      /\ key = Nothing => dataMode # "COMMAND" \/ sentData[i].key # Nothing
      /\ sentData' = [sentData EXCEPT ![i] = SentUpdate(sentData[i], key, value)]
  BY DEF ItemUpdate, Event, ItemsIInv, ItemsTypes
<1>2. SentUpdate(sentData[i], key, value) \in SentItems
  BY <1>1, UpdateIsSent
<1> QED
  BY <1>1, <1>2, UpdateHeard, UnheardStep DEF ItemUpdate

(* An end of snapshot. *)
LEMMA EndOfSnapshotStep ==
  ASSUME ItemsIInv, NEW i \in Items, ItemEndOfSnapshot(i)
  PROVE  ItemsIInv'
<1> DEFINE m == snapshotByItem[i]
           data == sentData[i]
           n == [m EXCEPT !.eosReceived = TRUE]
           t == [data EXCEPT !.eos = TRUE]
<1>1. m \in Managers /\ data \in SentItems /\ (i \notin unheard => ItemKept(i))
  BY DEF ItemsIInv, ItemsTypes
<1>2. /\ n \in Managers /\ n.state = m.state /\ n.firstUpdate = m.firstUpdate /\ n.eosReceived = TRUE
      /\ t \in SentItems /\ t.updates = data.updates /\ t.eos = TRUE /\ t.key = data.key /\ t.rows = data.rows
  BY <1>1 DEF Managers, SentItems
<1>3. sentData' = [sentData EXCEPT ![i] = t] /\ UNCHANGED <<dataMode, snapshot>>
  BY DEF ItemEndOfSnapshot, Event
<1>4. CASE HeardEndOfSnapshot(i)
  <2>1. /\ snapshotByItem' = [snapshotByItem EXCEPT ![i] = n]
        /\ UNCHANGED <<keyByItem, oldValuesByKey, unheard, forgotten, flagged>>
    BY <1>4 DEF HeardEndOfSnapshot, EndOfSnapshot
  <2> HIDE DEF n, t
  <2>2. i \notin unheard => Counted(n, t) /\ RowsKept(t, keyByItem[i], oldValuesByKey[i], forgotten[i])
    BY <1>1, <1>2 DEF ItemKept, Counted, RowsKept
  <2>3. ItemsTypes' /\ FlagsAreRight'
    BY <1>2, <1>3, <2>1 DEF ItemsIInv, ItemsTypes, FlagsAreRight
  <2>4. ASSUME NEW j \in Items \ unheard PROVE ItemKept(j)'
    <3>1. CASE j = i
      BY <3>1, <1>3, <2>1, <2>2 DEF ItemsIInv, ItemsTypes, ItemKept
    <3>2. CASE j # i
      BY <3>2, <1>3, <2>1 DEF ItemsIInv, ItemsTypes, ItemKept
    <3> QED
      BY <3>1, <3>2
  <2> QED
    BY <2>1, <2>3, <2>4 DEF ItemsIInv
<1>5. CASE Unheard(i)
  <2> HIDE DEF t
  <2> QED
    BY <1>2, <1>3, <1>5, UnheardStep
<1> QED
  BY <1>4, <1>5 DEF ItemEndOfSnapshot

(* A clear of the snapshot. *)
LEMMA ClearSnapshotStep ==
  ASSUME ItemsIInv, NEW i \in Items, ItemClearSnapshot(i)
  PROVE  ItemsIInv'
<1> DEFINE data == sentData[i]
           t == [data EXCEPT !.rows = NoRows]
<1>1. data \in SentItems
  BY DEF ItemsIInv, ItemsTypes
<1>2. NoRows \in RowTables /\ \A k \in RowKeys : NoRows[k] = Nothing
  BY DEF NoRows, RowTables
<1>3. t \in SentItems /\ t.updates = data.updates /\ t.eos = data.eos /\ t.key = data.key /\ t.rows = NoRows
  BY <1>1, <1>2 DEF SentItems
<1>4. sentData' = [sentData EXCEPT ![i] = t] /\ UNCHANGED <<dataMode, snapshot>>
  BY DEF ItemClearSnapshot, Event
<1> HIDE DEF t
<1>5. CASE HeardClearSnapshot
  <2>1. /\ \/ oldValuesByKey' = [j \in Items |-> NoRows] /\ forgotten' = [j \in Items |-> RowKeys]
           \/ UNCHANGED <<oldValuesByKey, forgotten>>
        /\ UNCHANGED <<snapshotByItem, keyByItem, unheard, flagged>>
    BY <1>5 DEF HeardClearSnapshot
  <2>2. ItemsTypes' /\ FlagsAreRight'
    BY <1>2, <1>3, <1>4, <2>1 DEF ItemsIInv, ItemsTypes, FlagsAreRight
  <2>3. ASSUME NEW j \in Items \ unheard PROVE ItemKept(j)'
    <3>1. Counted(snapshotByItem[j], sentData[j]) /\ RowsKept(sentData[j], keyByItem[j], oldValuesByKey[j], forgotten[j])
      BY DEF ItemsIInv, ItemKept
    <3>2. sentData'[j] = IF j = i THEN t ELSE sentData[j]
      BY <1>4 DEF ItemsIInv, ItemsTypes
    <3>3. /\ sentData'[j].updates = sentData[j].updates /\ sentData'[j].eos = sentData[j].eos
          /\ sentData'[j].key = sentData[j].key
          /\ \A k \in RowKeys : sentData'[j].rows[k] # Nothing => sentData'[j].rows[k] = sentData[j].rows[k]
      BY <1>2, <1>3, <3>2
    <3>4. \/ oldValuesByKey'[j] = NoRows /\ forgotten'[j] = RowKeys
          \/ oldValuesByKey'[j] = oldValuesByKey[j] /\ forgotten'[j] = forgotten[j]
      BY <2>1
    <3>5. Counted(snapshotByItem[j], sentData'[j])
      BY <3>1, <3>3 DEF Counted
    <3>6. RowsKept(sentData'[j], keyByItem[j], oldValuesByKey'[j], forgotten'[j])
      BY <1>2, <3>1, <3>3, <3>4 DEF RowsKept
    <3> QED
      BY <2>1, <3>5, <3>6 DEF ItemKept
  <2> QED
    BY <2>1, <2>2, <2>3 DEF ItemsIInv
<1>6. CASE Unheard(i)
  BY <1>3, <1>4, <1>6, UnheardStep
<1> QED
  BY <1>5, <1>6 DEF ItemClearSnapshot

(* What is kept of an item is what was sent of it. *)
THEOREM ItemsInductive == DataSpec => []ItemsIInv
<1>1. DataInit => ItemsIInv
  <2> SUFFICES ASSUME DataInit PROVE ItemsIInv
    OBVIOUS
  <2>1. FlagsAreRight
    BY DEF DataInit, FlagsAreRight
  <2>2. ItemsTypes
    <3>1. snapshot \in {"", "no", "yes"}
      BY DEF DataInit
    <3> QED
      BY <3>1, NewIsCounted DEF DataInit, ItemsTypes
  <2> QED
    BY <2>1, <2>2, NewIsCounted DEF DataInit, ItemsIInv, ItemKept
<1>2. ItemsIInv /\ [DataNext]_dataVars => ItemsIInv'
  <2> SUFFICES ASSUME ItemsIInv, [DataNext]_dataVars PROVE ItemsIInv'
    OBVIOUS
  <2>1. ASSUME UNCHANGED <<dataMode, snapshot, ofValues, monitors, flagged>> PROVE ItemsIInv'
    BY <2>1 DEF ofValues, monitors, ItemsIInv, ItemsTypes, FlagsAreRight, ItemKept
  <2>2. ASSUME OnSubscribed PROVE ItemsIInv'
    <3>1. /\ snapshotByItem' = [i \in Items |-> NewManager] /\ sentData' = [i \in Items |-> NothingSent]
          /\ forgotten' = [i \in Items |-> {}]
          /\ UNCHANGED <<dataMode, snapshot, keyByItem, oldValuesByKey, flagged>>
      BY <2>2 DEF OnSubscribed
    <3>2. ItemsTypes' /\ FlagsAreRight'
      BY <3>1, NewIsCounted DEF ItemsIInv, ItemsTypes, FlagsAreRight
    <3>3. \A i \in Items : ItemKept(i)'
      BY <3>1, NewIsCounted DEF ItemKept
    <3> QED
      BY <3>2, <3>3 DEF ItemsIInv
  <2>3. CASE TurnActive \/ OnAdd \/ OnStart \/ OnSubscriptionSent \/ OnSubscriptionAck \/ OnItemsError \/ OnPause \/ OnRemove
    BY <2>1, <2>3 DEF TurnActive, OnAdd, OnStart, OnSubscriptionSent, OnSubscriptionAck, OnItemsError, OnPause, OnRemove, Moves
  <2>4. CASE UNCHANGED dataVars
    BY <2>1, <2>4 DEF dataVars
  <2> QED
    BY <2>2, <2>3, <2>4, UpdateStep, EndOfSnapshotStep, ClearSnapshotStep DEF DataNext
<1> QED
  BY <1>1, <1>2, PTL DEF DataSpec

(* Whatever the items, their rows and values: they are read as they were sent,
   and an update is flagged as of the snapshot when it is (Subscription: update,
   SnapshotManager). *)
THEOREM ItemsReadAsSent == DataSpec => []ItemsAsSent
<1>1. ItemsIInv => ItemsAsSent
  BY DEF ItemsIInv, ItemKept, RowsKept, ItemsAsSent, RowsAsSent
<1> QED
  BY <1>1, ItemsInductive, PTL

(* The types that the invariant does not need.                               *)
ItemsOthers ==
  /\ dataMode \in {"MERGE", "DISTINCT", "COMMAND", "RAW"}
  /\ itemsPhase \in TablePhases /\ itemsSubscribed \in BOOLEAN /\ itemsActive \in BOOLEAN
  /\ unheard \subseteq Items
  /\ flagged \in [is : BOOLEAN, first : BOOLEAN, eos : BOOLEAN, late : BOOLEAN]
  /\ dataEvents \in 0..MaxDataEvents
  /\ \A i \in Items : sentData[i].updates <= dataEvents

(* An event counts, and adds at most one update to an item. *)
LEMMA EventCounts ==
  ASSUME ItemsTypes, ItemsOthers, Event,
         NEW i \in Items, NEW t \in SentItems, t.updates \in {sentData[i].updates, sentData[i].updates + 1},
         sentData' = [sentData EXCEPT ![i] = t]
  PROVE  dataEvents' \in 0..MaxDataEvents /\ \A j \in Items : sentData'[j].updates <= dataEvents'
<1>1. dataEvents' = dataEvents + 1 /\ dataEvents' \in 0..MaxDataEvents /\ dataEvents \in Nat
  BY DataAssumption DEF Event, ItemsOthers
<1>2. ASSUME NEW j \in Items PROVE sentData'[j].updates <= dataEvents'
  <2>1. sentData[j].updates \in Nat /\ sentData[i].updates \in Nat
        /\ sentData[j].updates <= dataEvents /\ sentData[i].updates <= dataEvents
    BY DEF ItemsTypes, ItemsOthers, SentItems
  <2>2. sentData'[j] = IF j = i THEN t ELSE sentData[j]
    BY DEF ItemsTypes
  <2> QED
    BY <1>1, <2>1, <2>2
<1> QED
  BY <1>1, <1>2

(* The items keep their types. *)
LEMMA ItemsTyped == DataSpec => []DataTypeOK
<1>1. DataInit => ItemsOthers
  <2> SUFFICES ASSUME DataInit PROVE ItemsOthers
    OBVIOUS
  <2>1. dataEvents = 0 /\ \A i \in Items : sentData[i].updates = 0
    BY DEF DataInit, NothingSent
  <2>2. dataEvents \in 0..MaxDataEvents /\ \A i \in Items : sentData[i].updates <= dataEvents
    BY <2>1, DataAssumption
  <2> QED
    BY <2>2 DEF DataInit, ItemsOthers, TablePhases
<1>2. ItemsIInv /\ ItemsOthers /\ [DataNext]_dataVars => ItemsOthers'
  <2> SUFFICES ASSUME ItemsIInv, ItemsOthers, [DataNext]_dataVars PROVE ItemsOthers'
    OBVIOUS
  <2>1. ASSUME NEW i \in Items, NEW key \in RowKeys \cup {Nothing}, NEW value \in RowValues, ItemUpdate(i, key, value)
        PROVE  ItemsOthers'
    <3> DEFINE data == sentData[i]
               t == SentUpdate(data, key, value)
    <3>1. data \in SentItems /\ data.eos \in BOOLEAN
      BY DEF ItemsIInv, ItemsTypes, SentItems
    <3>2. t \in SentItems /\ t.updates = data.updates + 1
      BY <2>1, <3>1, UpdateIsSent DEF ItemUpdate
    <3>3. sentData' = [sentData EXCEPT ![i] = t] /\ UNCHANGED <<dataMode, itemsPhase, itemsSubscribed, itemsActive>>
      BY <2>1 DEF ItemUpdate, Event, ofPhase
    <3> HIDE DEF t
    <3>4. dataEvents' \in 0..MaxDataEvents /\ \A j \in Items : sentData'[j].updates <= dataEvents'
      BY <2>1, <3>2, <3>3, EventCounts DEF ItemUpdate, ItemsIInv
    <3>5. flagged' \in [is : BOOLEAN, first : BOOLEAN, eos : BOOLEAN, late : BOOLEAN] /\ unheard' \subseteq Items
      <4>1. CASE Update(i, key, value)
        <5>1. /\ flagged' = [is |-> IsSnapshot(snapshotByItem'[i]), first |-> data.updates = 0, eos |-> data.eos,
                             late |-> i \in unheard]
              /\ unheard' = unheard
          BY <4>1 DEF Update
        <5>2. IsSnapshot(snapshotByItem'[i]) \in BOOLEAN
          BY DEF IsSnapshot
        <5>3. (data.updates = 0) \in BOOLEAN /\ (i \in unheard) \in BOOLEAN
          OBVIOUS
        <5> QED
          BY <3>1, <5>1, <5>2, <5>3 DEF ItemsOthers
      <4>2. CASE Unheard(i)
        BY <4>2 DEF Unheard, ItemsOthers
      <4> QED
        BY <2>1, <4>1, <4>2 DEF ItemUpdate
    <3> QED
      BY <3>3, <3>4, <3>5 DEF ItemsOthers
  <2>2. ASSUME NEW i \in Items, ItemEndOfSnapshot(i) PROVE ItemsOthers'
    <3> DEFINE t == [sentData[i] EXCEPT !.eos = TRUE]
    <3>1. t \in SentItems /\ t.updates = sentData[i].updates
      BY DEF ItemsIInv, ItemsTypes, SentItems
    <3>2. /\ sentData' = [sentData EXCEPT ![i] = t] /\ UNCHANGED <<dataMode, itemsPhase, itemsSubscribed, itemsActive, flagged>>
          /\ unheard' \subseteq Items
      BY <2>2 DEF ItemEndOfSnapshot, HeardEndOfSnapshot, Unheard, Event, ofPhase, ItemsOthers
    <3> HIDE DEF t
    <3>3. dataEvents' \in 0..MaxDataEvents /\ \A j \in Items : sentData'[j].updates <= dataEvents'
      BY <2>2, <3>1, <3>2, EventCounts DEF ItemEndOfSnapshot, ItemsIInv
    <3> QED
      BY <3>2, <3>3 DEF ItemsOthers
  <2>3. ASSUME NEW i \in Items, ItemClearSnapshot(i) PROVE ItemsOthers'
    <3> DEFINE t == [sentData[i] EXCEPT !.rows = NoRows]
    <3>1. t \in SentItems /\ t.updates = sentData[i].updates
      BY NewIsCounted DEF ItemsIInv, ItemsTypes, SentItems
    <3>2. /\ sentData' = [sentData EXCEPT ![i] = t] /\ UNCHANGED <<dataMode, itemsPhase, itemsSubscribed, itemsActive, flagged>>
          /\ unheard' \subseteq Items
      BY <2>3 DEF ItemClearSnapshot, HeardClearSnapshot, Unheard, Event, ofPhase, ItemsOthers
    <3> HIDE DEF t
    <3>3. dataEvents' \in 0..MaxDataEvents /\ \A j \in Items : sentData'[j].updates <= dataEvents'
      BY <2>3, <3>1, <3>2, EventCounts DEF ItemClearSnapshot, ItemsIInv
    <3> QED
      BY <3>2, <3>3 DEF ItemsOthers
  <2>4. CASE TurnActive \/ OnAdd \/ OnStart \/ OnSubscriptionSent \/ OnSubscriptionAck \/ OnItemsError \/ OnPause \/ OnRemove
    <3>1. /\ itemsPhase' \in TablePhases /\ itemsSubscribed' \in BOOLEAN /\ itemsActive' \in BOOLEAN
          /\ UNCHANGED <<dataMode, sentData, unheard, flagged, dataEvents>>
      BY <2>4 DEF TurnActive, OnAdd, OnStart, OnSubscriptionSent, OnSubscriptionAck, OnItemsError, OnPause, OnRemove, Moves,
                  TablePhases, ItemsOthers, monitors
    <3> QED
      BY <3>1 DEF ItemsOthers
  <2>5. ASSUME OnSubscribed PROVE ItemsOthers'
    <3>1. /\ itemsPhase' = "PUSHING" /\ itemsSubscribed' = TRUE /\ unheard' = {}
          /\ sentData' = [i \in Items |-> NothingSent] /\ UNCHANGED <<dataMode, itemsActive, flagged, dataEvents>>
      BY <2>5 DEF OnSubscribed
    <3>2. \A i \in Items : sentData'[i].updates <= dataEvents
      BY <3>1 DEF NothingSent, ItemsOthers
    <3> QED
      BY <3>1, <3>2 DEF ItemsOthers, TablePhases
  <2>6. CASE UNCHANGED dataVars
    BY <2>6 DEF dataVars, ofPhase, ofValues, monitors, ItemsOthers
  <2> QED
    BY <2>1, <2>2, <2>3, <2>4, <2>5, <2>6 DEF DataNext
<1>3. ItemsIInv /\ ItemsOthers => DataTypeOK
  <2> SUFFICES ASSUME ItemsIInv, ItemsOthers PROVE DataTypeOK
    OBVIOUS
  <2>1. ASSUME NEW i \in Items
        PROVE  sentData[i] \in [updates : 0..MaxDataEvents, eos : BOOLEAN, key : RowKeys \cup {Nothing}, rows : RowTables]
    <3>1. sentData[i] \in SentItems /\ sentData[i].updates <= dataEvents /\ dataEvents \in 0..MaxDataEvents
      BY DEF ItemsIInv, ItemsTypes, ItemsOthers
    <3>2. sentData[i].updates \in Nat
      BY <3>1 DEF SentItems
    <3>3. sentData[i].updates \in 0..MaxDataEvents
      BY <3>1, <3>2, DataAssumption
    <3> QED
      BY <3>1, <3>3 DEF SentItems
  <2>2. DOMAIN sentData = Items /\ sentData = [i \in DOMAIN sentData |-> sentData[i]]
    BY DEF ItemsIInv, ItemsTypes
  <2> QED
    BY <2>1, <2>2 DEF ItemsIInv, ItemsTypes, ItemsOthers, Managers, SnapshotStates, RowTables, DataTypeOK
<1> QED
  BY <1>1, <1>2, <1>3, ItemsInductive, PTL DEF DataSpec

-----------------------------------------------------------------------------
(* Its fields. *)

Levels == {"main", "sub"}
(* A descriptor of a level: a list has the length of its names. *)
WellDescribed(d) ==
  /\ d.names \in Seq(FieldNames) /\ d.length \in Nat /\ d.length <= MaxWidth
  /\ IsList(d) => d.length = Len(d.names)
  /\ d = [names |-> d.names, length |-> d.length]
Conversions == [fields : SUBSET (1..MaxWidth), behind : Nat, value : Nat, resized : BOOLEAN]
FieldsTypes ==
  /\ DOMAIN descriptors = Levels /\ \A level \in Levels : WellDescribed(descriptors[level])
  /\ GetMainSize <= MaxWidth
  /\ fieldValues \in [1..2 * MaxWidth -> Nat] /\ fieldEvents \in Nat
  /\ converting \in Conversions
  /\ fieldsSent \in [Levels -> [1..MaxWidth -> Nat]]
ConvertedForNow == converting # NoConversion /\ ~converting.resized => converting.behind = GetMainSize
ValuesAsSent(size) ==
  \A i \in 1..MaxWidth :
    /\ fieldsSent["main"][i] # 0 => i <= size /\ fieldValues[i] = fieldsSent["main"][i]
    /\ fieldsSent["sub"][i] # 0 => fieldValues[i + size] = fieldsSent["sub"][i]
FieldsIInv == FieldsTypes /\ ConvertedForNow /\ (~shifted => ValuesAsSent(GetMainSize))

(* The place of a name in a list. *)
LEMMA PlaceOfName ==
  ASSUME NEW d, WellDescribed(d), NEW name
  PROVE  LET place == ReverseList(d, name)
         IN  IF \E i \in DOMAIN d.names : d.names[i] = name
             THEN place \in 1..d.length /\ d.names[place] = name /\ IsList(d) /\ place \in DOMAIN d.names
             ELSE place = -1
<1> DEFINE places == {i \in DOMAIN d.names : d.names[i] = name}
<1>1. DOMAIN d.names = 1..Len(d.names) /\ Len(d.names) \in Nat
  BY DEF WellDescribed
<1>2. CASE places = {}
  BY <1>2 DEF ReverseList
<1>3. CASE places # {}
  <2>1. places \subseteq 1..Len(d.names)
    BY <1>1
  <2>2. IsFiniteSet(places)
    <3>1. IsFiniteSet(1..Len(d.names))
      BY <1>1, FS_Interval
    <3> QED
      BY <2>1, <3>1, FS_Subset
  <2>3. places \in SUBSET Int
    BY <2>1, <1>1
  <2>4. ReverseList(d, name) = Max(places)
    BY <1>3 DEF ReverseList
  <2>5. Max(places) \in places
    <3> HIDE DEF places
    <3> QED
      BY <1>3, <2>2, <2>3, MaxProperty
  <2>6. IsList(d)
    BY <1>1, <1>3, <2>1 DEF IsList
  <2>7. d.length = Len(d.names)
    BY <2>6 DEF WellDescribed
  <2> QED
    BY <1>1, <2>4, <2>5, <2>6, <2>7
<1> QED
  BY <1>2, <1>3

(* The length of a level that is not a list may change. *)
LEMMA ResizedIsWell ==
  ASSUME NEW d, WellDescribed(d), NEW size \in Nat, size <= MaxWidth, IsList(d) => size = Len(d.names)
  PROVE  WellDescribed([d EXCEPT !.length = size]) /\ [d EXCEPT !.length = size].length = size
<1>1. d = [names |-> d.names, length |-> d.length] /\ d.names \in Seq(FieldNames)
  BY DEF WellDescribed
<1>2. [d EXCEPT !.length = size] = [names |-> d.names, length |-> size]
  BY <1>1
<1>3. [names |-> d.names, length |-> size].names = d.names /\ [names |-> d.names, length |-> size].length = size
  OBVIOUS
<1> QED
  BY <1>1, <1>2, <1>3 DEF WellDescribed, IsList

(* The width of a level, in numbers. *)
LEMMA WidthIsTwo == MaxWidth = 2
BY DEF MaxWidth

(* onSubscribed moves the second level, of which nothing is sent yet. *)
LEMMA SubscribedStep ==
  ASSUME FieldsIInv, NEW size \in 1..MaxWidth, FieldsSubscribed(size)
  PROVE  FieldsIInv'
<1>1. /\ descriptors' = [descriptors EXCEPT !["main"] = [descriptors["main"] EXCEPT !.length = size]]
      /\ IsList(descriptors["main"]) => size = GetMainSize
      /\ fieldsSent' = [level \in {"main", "sub"} |-> [i \in 1..MaxWidth |-> 0]]
      /\ UNCHANGED <<fieldValues, fieldEvents, shifted>>
  BY DEF FieldsSubscribed, FieldsIInv, FieldsTypes
<1>2. /\ DOMAIN descriptors = Levels /\ WellDescribed(descriptors["main"]) /\ WellDescribed(descriptors["sub"])
      /\ converting \in Conversions
  BY DEF FieldsIInv, FieldsTypes, Levels
<1>3. /\ WellDescribed([descriptors["main"] EXCEPT !.length = size])
      /\ [descriptors["main"] EXCEPT !.length = size].length = size
  <2>1. IsList(descriptors["main"]) => size = Len(descriptors["main"].names)
    BY <1>1, <1>2 DEF WellDescribed, GetMainSize
  <2>2. size \in Nat /\ size <= MaxWidth
    BY WidthIsTwo
  <2> QED
    BY <1>2, <2>1, <2>2, ResizedIsWell
<1>4. /\ DOMAIN descriptors' = Levels /\ \A level \in Levels : WellDescribed(descriptors'[level])
      /\ GetMainSize' = size
  BY <1>1, <1>2, <1>3 DEF Levels, GetMainSize
<1>5. fieldsSent' \in [Levels -> [1..MaxWidth -> Nat]]
      /\ \A i \in 1..MaxWidth : fieldsSent'["main"][i] = 0 /\ fieldsSent'["sub"][i] = 0
  BY <1>1 DEF Levels
<1>6. PICK r \in BOOLEAN : /\ r <=> converting.resized \/ (converting # NoConversion /\ size # GetMainSize)
                           /\ converting' = [converting EXCEPT !.resized = r]
  BY <1>2 DEF FieldsSubscribed, Conversions
<1>7. PICK fs \in SUBSET (1..MaxWidth), b \in Nat, v \in Nat, q \in BOOLEAN :
        converting = [fields |-> fs, behind |-> b, value |-> v, resized |-> q]
  BY <1>2, Zenon DEF Conversions
<1>8. converting' = [fields |-> fs, behind |-> b, value |-> v, resized |-> r]
  BY <1>6, <1>7
<1>9. converting' \in Conversions
  BY <1>8 DEF Conversions
<1>10. ConvertedForNow'
  <2>1. SUFFICES ASSUME converting' # NoConversion, ~converting'.resized PROVE converting'.behind = GetMainSize'
    BY DEF ConvertedForNow
  <2>2. ~r
    BY <2>1, <1>8
  <2>3. CASE converting = NoConversion
    <3>1. fs = {} /\ b = 0 /\ v = 0
      BY <2>3, <1>7 DEF NoConversion
    <3>2. r = FALSE
      BY <2>2
    <3>3. converting' = NoConversion
      BY <3>1, <3>2, <1>8, Zenon DEF NoConversion
    <3> QED
      BY <3>3, <2>1
  <2>4. CASE converting # NoConversion
    <3>1. size = GetMainSize /\ ~converting.resized
      BY <1>6, <2>2, <2>4
    <3>2. converting.behind = GetMainSize
      BY <2>4, <3>1 DEF FieldsIInv, ConvertedForNow
    <3> QED
      BY <3>1, <3>2, <1>4, <1>7, <1>8
  <2> QED
    BY <2>3, <2>4
<1>11. FieldsTypes'
  BY <1>1, <1>4, <1>5, <1>9, WidthIsTwo DEF FieldsIInv, FieldsTypes
<1>12. ValuesAsSent(GetMainSize)'
  BY <1>5 DEF ValuesAsSent
<1> QED
  BY <1>10, <1>11, <1>12 DEF FieldsIInv

(* An update of the first level writes its own positions alone. *)
LEMMA MainUpdateStep ==
  ASSUME FieldsIInv, NEW changed \in SUBSET (1..MaxWidth), MainUpdate(changed)
  PROVE  FieldsIInv'
<1>1. /\ changed \subseteq 1..GetMainSize /\ fieldEvents' = fieldEvents + 1
      /\ fieldValues' = [p \in DOMAIN fieldValues |-> IF p \in changed THEN fieldEvents' ELSE fieldValues[p]]
      /\ fieldsSent' = [fieldsSent EXCEPT !["main"] = [i \in 1..MaxWidth |-> IF i \in changed THEN fieldEvents' ELSE fieldsSent["main"][i]]]
      /\ UNCHANGED <<descriptors, behavior, fieldsPush, converting, shifted>>
  BY DEF MainUpdate, FieldsIInv, FieldsTypes, Levels
<1>2. /\ fieldValues \in [1..2 * MaxWidth -> Nat] /\ fieldEvents \in Nat /\ fieldsSent \in [Levels -> [1..MaxWidth -> Nat]]
      /\ GetMainSize \in Nat /\ GetMainSize <= 2 /\ MaxWidth = 2
  BY WidthIsTwo DEF FieldsIInv, FieldsTypes, Levels, WellDescribed, GetMainSize
<1>3. fieldEvents' \in Nat /\ fieldEvents' # 0
  BY <1>1, <1>2
<1>4. fieldValues' \in [1..2 * MaxWidth -> Nat]
  BY <1>1, <1>2, <1>3
<1>5. /\ fieldsSent' \in [Levels -> [1..MaxWidth -> Nat]] /\ fieldsSent'["sub"] = fieldsSent["sub"]
      /\ \A i \in 1..MaxWidth : fieldsSent'["main"][i] = IF i \in changed THEN fieldEvents' ELSE fieldsSent["main"][i]
  BY <1>1, <1>2, <1>3 DEF Levels
<1>6. FieldsTypes' /\ ConvertedForNow' /\ GetMainSize' = GetMainSize
  BY <1>1, <1>3, <1>4, <1>5 DEF FieldsIInv, FieldsTypes, ConvertedForNow, GetMainSize
<1>7. ASSUME ~shifted PROVE ValuesAsSent(GetMainSize)'
  <2>1. PICK size \in Nat : size = GetMainSize /\ size <= 2
    BY <1>2
  <2>2. ValuesAsSent(size)
    BY <1>7, <2>1 DEF FieldsIInv
  <2>3. \A p \in 1..4 : fieldValues'[p] = IF p \in changed THEN fieldEvents' ELSE fieldValues[p]
    BY <1>1, <1>2
  <2>4. \A p \in changed : p \in 1..size
    BY <1>1, <2>1
  <2>5. ASSUME NEW i \in 1..MaxWidth
        PROVE  /\ fieldsSent'["main"][i] # 0 => i <= size /\ fieldValues'[i] = fieldsSent'["main"][i]
               /\ fieldsSent'["sub"][i] # 0 => fieldValues'[i + size] = fieldsSent'["sub"][i]
    <3>1. i \in 1..2 /\ i \in 1..4 /\ i + size \in 1..4 /\ i + size \notin changed
      BY <1>2, <2>1, <2>4
    <3>2. /\ fieldsSent["main"][i] # 0 => i <= size /\ fieldValues[i] = fieldsSent["main"][i]
          /\ fieldsSent["sub"][i] # 0 => fieldValues[i + size] = fieldsSent["sub"][i]
      BY <2>2 DEF ValuesAsSent
    <3>3. fieldValues'[i + size] = fieldValues[i + size] /\ fieldsSent'["sub"][i] = fieldsSent["sub"][i]
      BY <2>3, <3>1, <1>5
    <3>4. CASE i \in changed
      BY <3>1, <3>2, <3>3, <3>4, <2>3, <2>4, <1>5
    <3>5. CASE i \notin changed
      BY <3>1, <3>2, <3>3, <3>5, <2>3, <1>5
    <3> QED
      BY <3>4, <3>5
  <2> QED
    BY <2>1, <2>5, <1>6 DEF ValuesAsSent
<1> QED
  BY <1>1, <1>6, <1>7 DEF FieldsIInv

(* A converted update is behind the first level's fields as they are now. *)
LEMMA ConvertedStep ==
  ASSUME FieldsIInv, NEW size \in 1..MaxWidth, NEW changed \in SUBSET (1..MaxWidth), SubUpdateConverted(changed, size)
  PROVE  FieldsIInv'
<1>1. /\ descriptors' = [descriptors EXCEPT !["sub"] = [descriptors["sub"] EXCEPT !.length = size]]
      /\ IsList(descriptors["sub"]) => size = Len(descriptors["sub"].names)
      /\ converting' = [fields |-> changed, behind |-> GetMainSize, value |-> fieldEvents', resized |-> FALSE]
      /\ fieldEvents' = fieldEvents + 1
      /\ UNCHANGED <<behavior, fieldsPush, fieldValues, fieldsSent, shifted>>
  BY DEF SubUpdateConverted, FieldsIInv, FieldsTypes
<1>2. /\ DOMAIN descriptors = Levels /\ WellDescribed(descriptors["main"]) /\ WellDescribed(descriptors["sub"])
      /\ fieldEvents \in Nat /\ GetMainSize \in Nat
  BY DEF FieldsIInv, FieldsTypes, Levels, WellDescribed, GetMainSize
<1>3. WellDescribed([descriptors["sub"] EXCEPT !.length = size])
  <2>1. size \in Nat /\ size <= MaxWidth
    BY WidthIsTwo
  <2> QED
    BY <1>1, <1>2, <2>1, ResizedIsWell
<1>4. /\ DOMAIN descriptors' = Levels /\ \A level \in Levels : WellDescribed(descriptors'[level])
      /\ GetMainSize' = GetMainSize
  BY <1>1, <1>2, <1>3 DEF Levels, GetMainSize
<1>5. converting' \in Conversions /\ fieldEvents' \in Nat
  <2>1. fieldEvents' \in Nat
    BY <1>1, <1>2
  <2> QED
    BY <1>1, <1>2, <2>1 DEF Conversions
<1>6. FieldsTypes' /\ ConvertedForNow'
  BY <1>1, <1>4, <1>5 DEF FieldsIInv, FieldsTypes, ConvertedForNow
<1>7. ValuesAsSent(GetMainSize) => ValuesAsSent(GetMainSize)'
  BY <1>1, <1>4 DEF ValuesAsSent
<1> QED
  BY <1>1, <1>6, <1>7 DEF FieldsIInv

(* Stored, it writes the second level's positions alone. *)
LEMMA PassedStep ==
  ASSUME FieldsIInv, SubUpdatePassed
  PROVE  FieldsIInv'
<1>1. PICK fs \in SUBSET (1..MaxWidth), b \in Nat, v \in Nat, q \in BOOLEAN :
        converting = [fields |-> fs, behind |-> b, value |-> v, resized |-> q]
  <2>1. converting \in Conversions
    BY DEF FieldsIInv, FieldsTypes
  <2> QED
    BY <2>1, Zenon DEF Conversions
<1>2. /\ converting # NoConversion /\ converting' = NoConversion
      /\ UNCHANGED <<descriptors, behavior, fieldsPush, fieldEvents>>
  BY DEF SubUpdatePassed
<1>3. NoConversion \in Conversions
  BY DEF NoConversion, Conversions
<1>4. GetMainSize' = GetMainSize /\ GetMainSize \in Nat /\ GetMainSize <= 2 /\ MaxWidth = 2
  BY <1>2, WidthIsTwo DEF FieldsIInv, FieldsTypes, Levels, WellDescribed, GetMainSize
<1>5. CASE fieldsPush
  <2>1. /\ fieldValues' = [p \in DOMAIN fieldValues |-> IF p - b \in fs THEN v ELSE fieldValues[p]]
        /\ fieldsSent' = [fieldsSent EXCEPT !["sub"] = [i \in 1..MaxWidth |-> IF i \in fs THEN v ELSE fieldsSent["sub"][i]]]
        /\ shifted' <=> shifted \/ q
    BY <1>1, <1>5 DEF SubUpdatePassed, FieldsIInv, FieldsTypes, Levels
  <2>2. fieldValues \in [1..2 * MaxWidth -> Nat] /\ fieldsSent \in [Levels -> [1..MaxWidth -> Nat]]
    BY DEF FieldsIInv, FieldsTypes
  <2>3. fieldValues' \in [1..2 * MaxWidth -> Nat]
    BY <2>1, <2>2
  <2>4. /\ fieldsSent' \in [Levels -> [1..MaxWidth -> Nat]] /\ fieldsSent'["main"] = fieldsSent["main"]
        /\ \A i \in 1..MaxWidth : fieldsSent'["sub"][i] = IF i \in fs THEN v ELSE fieldsSent["sub"][i]
    BY <2>1, <2>2 DEF Levels
  <2>5. FieldsTypes' /\ ConvertedForNow'
    BY <1>2, <1>3, <1>4, <2>3, <2>4 DEF FieldsIInv, FieldsTypes, ConvertedForNow
  <2>6. ASSUME ~shifted' PROVE ValuesAsSent(GetMainSize)'
    <3>1. ~shifted /\ ~q
      BY <2>1, <2>6
    <3>2. PICK size \in Nat : size = GetMainSize /\ size <= 2 /\ b = size
      BY <1>1, <1>2, <1>4, <3>1 DEF FieldsIInv, ConvertedForNow
    <3>3. ValuesAsSent(size)
      BY <3>1, <3>2 DEF FieldsIInv
    <3>4. \A p \in 1..4 : fieldValues'[p] = IF p - size \in fs THEN v ELSE fieldValues[p]
      BY <2>1, <2>2, <3>2, <1>4
    <3>5. ASSUME NEW i \in 1..MaxWidth
          PROVE  /\ fieldsSent'["main"][i] # 0 => i <= size /\ fieldValues'[i] = fieldsSent'["main"][i]
                 /\ fieldsSent'["sub"][i] # 0 => fieldValues'[i + size] = fieldsSent'["sub"][i]
      <4>1. i \in 1..2 /\ i \in 1..4 /\ i + size \in 1..4 /\ (i + size) - size = i
        BY <1>4, <3>2
      <4>2. i <= size => i - size \notin fs
        BY <1>4, <3>2, <4>1
      <4>3. /\ fieldsSent["main"][i] # 0 => i <= size /\ fieldValues[i] = fieldsSent["main"][i]
            /\ fieldsSent["sub"][i] # 0 => fieldValues[i + size] = fieldsSent["sub"][i]
        BY <3>3 DEF ValuesAsSent
      <4>4. fieldValues'[i + size] = IF i \in fs THEN v ELSE fieldValues[i + size]
        BY <3>4, <4>1
      <4>5. i <= size => fieldValues'[i] = fieldValues[i]
        BY <3>4, <4>1, <4>2
      <4> QED
        BY <4>3, <4>4, <4>5, <2>4
    <3> QED
      BY <3>2, <3>5, <1>4 DEF ValuesAsSent
  <2> QED
    BY <2>5, <2>6 DEF FieldsIInv
<1>6. CASE ~fieldsPush
  <2>1. UNCHANGED <<fieldValues, fieldsSent, shifted>>
    BY <1>6 DEF SubUpdatePassed
  <2>2. FieldsTypes' /\ ConvertedForNow'
    BY <1>2, <1>3, <1>4, <2>1 DEF FieldsIInv, FieldsTypes, ConvertedForNow
  <2>3. ValuesAsSent(GetMainSize) => ValuesAsSent(GetMainSize)'
    BY <1>4, <2>1 DEF ValuesAsSent
  <2> QED
    BY <2>1, <2>2, <2>3 DEF FieldsIInv
<1> QED
  BY <1>5, <1>6

(* The descriptors that a subscription starts with. *)
LEMMA DescribedIsWell ==
  ASSUME NEW d \in {ListDescriptor(names) : names \in Lists} \cup {NameDescriptor}
  PROVE  WellDescribed(d)
<1>1. ASSUME NEW names \in Lists, d = ListDescriptor(names) PROVE WellDescribed(d)
  <2>1. PICK w \in 1..MaxWidth : names \in [1..w -> FieldNames]
    BY DEF Lists
  <2>2. w \in Nat /\ w <= MaxWidth
    BY WidthIsTwo
  <2>3. names \in Seq(FieldNames)
    BY <2>1, <2>2, SeqDef
  <2>4. Len(names) = w /\ Len(names) \in Nat
    BY <2>1, <2>2, <2>3
  <2>5. d = [names |-> names, length |-> Len(names)]
    BY <1>1 DEF ListDescriptor
  <2> QED
    BY <2>2, <2>3, <2>4, <2>5 DEF WellDescribed
<1>2. ASSUME d = NameDescriptor PROVE WellDescribed(d)
  <2>1. d = [names |-> << >>, length |-> 0] /\ << >> \in Seq(FieldNames)
    BY <1>2 DEF NameDescriptor
  <2> QED
    BY <2>1, WidthIsTwo DEF WellDescribed, IsList
<1> QED
  BY <1>1, <1>2

(* The old values are those sent, at the positions that the sizes give. *)
THEOREM FieldsInductive == FieldsSpec => []FieldsIInv
<1>1. FieldsInit => FieldsIInv
  <2> SUFFICES ASSUME FieldsInit PROVE FieldsIInv
    OBVIOUS
  <2>1. /\ descriptors \in [{"main", "sub"} -> {ListDescriptor(names) : names \in Lists} \cup {NameDescriptor}]
        /\ shifted = FALSE /\ fieldEvents = 0
        /\ fieldValues = [p \in 1..2 * MaxWidth |-> 0] /\ converting = NoConversion
        /\ fieldsSent = [level \in {"main", "sub"} |-> [i \in 1..MaxWidth |-> 0]]
    BY DEF FieldsInit
  <2>2. /\ DOMAIN descriptors = Levels
        /\ \A level \in Levels : WellDescribed(descriptors[level])
    BY <2>1, DescribedIsWell DEF Levels
  <2>3. NoConversion \in Conversions
    BY DEF NoConversion, Conversions
  <2>4. /\ fieldsSent \in [Levels -> [1..MaxWidth -> Nat]] /\ fieldValues \in [1..2 * MaxWidth -> Nat]
        /\ \A i \in 1..MaxWidth : fieldsSent["main"][i] = 0 /\ fieldsSent["sub"][i] = 0
    BY <2>1 DEF Levels
  <2>5. FieldsTypes
    <3>1. GetMainSize <= MaxWidth
      BY <2>2 DEF Levels, GetMainSize, WellDescribed
    <3> QED
      BY <2>1, <2>2, <2>3, <2>4, <3>1 DEF FieldsTypes
  <2> QED
    BY <2>1, <2>4, <2>5 DEF FieldsIInv, ConvertedForNow, ValuesAsSent
<1>2. FieldsIInv /\ [FieldsNext]_fieldsVars => FieldsIInv'
  <2> SUFFICES ASSUME FieldsIInv, [FieldsNext]_fieldsVars PROVE FieldsIInv'
    OBVIOUS
  <2>1. ASSUME UNCHANGED <<descriptors, fieldValues, converting, fieldsSent, shifted, fieldEvents>> PROVE FieldsIInv'
    BY <2>1 DEF FieldsIInv, FieldsTypes, ConvertedForNow, ValuesAsSent, GetMainSize
  <2>2. CASE FieldsPaused
    BY <2>1, <2>2 DEF FieldsPaused
  <2>3. CASE UNCHANGED fieldsVars
    BY <2>1, <2>3 DEF fieldsVars
  <2> QED
    BY <2>2, <2>3, SubscribedStep, MainUpdateStep, ConvertedStep, PassedStep DEF FieldsNext
<1> QED
  BY <1>1, <1>2, PTL DEF FieldsSpec

(* Whatever the names and the sizes told by the server, a declared name has a
   position, which has that name and reads the value sent for it (Subscription:
   getValue, toFieldPos; Descriptor: getPos, getName). *)
THEOREM NamesAreRead == FieldsSpec => []NamesReadAsSent
<1>1. FieldsIInv => NamesReadAsSent
  <2> SUFFICES ASSUME FieldsIInv, fieldsPush, ~shifted, NEW name \in FieldNames
               PROVE  IF Declared(name) = {} THEN GetPos(name) = -1
                      ELSE /\ VerifyFieldPos(GetPos(name), TRUE) /\ GetName(GetPos(name)) = name
                           /\ LastSent(name) # 0 => ValueOf(name) = LastSent(name)
    BY DEF NamesReadAsSent
  <2> DEFINE main == descriptors["main"]
             sub == descriptors["sub"]
             own == ReverseList(main, name)
             fromSub == ReverseList(sub, name)
             InMain == \E i \in DOMAIN main.names : main.names[i] = name
             InSub == \E i \in DOMAIN sub.names : sub.names[i] = name
  <2>1. WellDescribed(main) /\ WellDescribed(sub)
    BY DEF FieldsIInv, FieldsTypes, Levels
  <2>2. /\ main.length \in Nat /\ main.length <= 2 /\ GetMainSize = main.length /\ sub.length \in Nat
        /\ GetFullSize = IF SubDescriptor THEN main.length + sub.length ELSE main.length
    BY <2>1, WidthIsTwo DEF WellDescribed, GetMainSize, GetFullSize
  <2>3. IF InMain THEN own \in 1..main.length /\ main.names[own] = name /\ IsList(main) /\ own \in DOMAIN main.names
        ELSE own = -1
    BY <2>1, PlaceOfName
  <2>4. IF InSub THEN fromSub \in 1..sub.length /\ sub.names[fromSub] = name /\ IsList(sub) /\ fromSub \in DOMAIN sub.names
        ELSE fromSub = -1
    BY <2>1, PlaceOfName
  <2>5. /\ "main" \in Declared(name) <=> InMain
        /\ "sub" \in Declared(name) <=> InSub /\ SubDescriptor
        /\ \A level \in Declared(name) : level \in {"main", "sub"}
    BY DEF Declared
  <2>6. GetPos(name) = IF own # -1 THEN own
                       ELSE IF SubDescriptor /\ fromSub > -1 THEN fromSub + main.length
                       ELSE -1
    BY <2>2 DEF GetPos
  <2>7. ValuesAsSent(main.length)
    BY <2>2 DEF FieldsIInv
  <2>8. CASE InMain
    <3>1. GetPos(name) = own /\ own \in 1..main.length /\ own \in 1..MaxWidth
      BY <2>2, <2>3, <2>6, <2>8, WidthIsTwo
    <3>2. VerifyFieldPos(own, TRUE)
      BY <2>2, <3>1 DEF VerifyFieldPos
    <3>3. GetName(own) = name
      <4>1. IsList(main) /\ own <= GetMainSize
        BY <2>2, <2>3, <2>8, <3>1
      <4>2. NameAt(main, own) = name
        BY <2>3, <2>8, Zenon DEF NameAt
      <4> QED
        BY <4>1, <4>2 DEF GetName
    <3>4. LastSent(name) = fieldsSent["main"][own]
      BY <2>5, <2>8 DEF LastSent
    <3>5. fieldsSent["main"][own] # 0 => fieldValues[own] = fieldsSent["main"][own]
      BY <2>7, <3>1 DEF ValuesAsSent
    <3> QED
      BY <2>5, <2>8, <3>1, <3>2, <3>3, <3>4, <3>5 DEF ValueOf
  <2>9. CASE ~InMain /\ InSub /\ SubDescriptor
    <3>1. GetPos(name) = fromSub + main.length /\ fromSub \in 1..sub.length
      BY <2>2, <2>3, <2>4, <2>6, <2>9
    <3>2. VerifyFieldPos(fromSub + main.length, TRUE)
      BY <2>2, <2>9, <3>1 DEF VerifyFieldPos
    <3>3. GetName(fromSub + main.length) = name
      <4>1. ~(fromSub + main.length <= main.length) /\ (fromSub + main.length) - main.length = fromSub
        BY <2>2, <3>1
      <4> QED
        BY <2>2, <2>4, <2>9, <4>1 DEF GetName, NameAt
    <3>4. LastSent(name) = fieldsSent["sub"][fromSub]
      BY <2>5, <2>9 DEF LastSent
    <3>5. fromSub \in 1..MaxWidth
      BY <2>1, <3>1, WidthIsTwo DEF WellDescribed
    <3>6. fieldsSent["sub"][fromSub] # 0 => fieldValues[fromSub + main.length] = fieldsSent["sub"][fromSub]
      BY <2>7, <3>5 DEF ValuesAsSent
    <3> QED
      BY <2>5, <2>9, <3>1, <3>2, <3>3, <3>4, <3>6 DEF ValueOf
  <2>10. CASE ~InMain /\ ~(InSub /\ SubDescriptor)
    <3>1. Declared(name) = {}
      BY <2>5, <2>10
    <3> QED
      BY <2>3, <2>4, <2>6, <2>10, <3>1
  <2> QED
    BY <2>8, <2>9, <2>10
<1> QED
  BY <1>1, FieldsInductive, PTL

(* The types that the invariant does not need: no value is of an update to    *)
(* come.                                                                     *)
NamesListed == \A level \in Levels : descriptors[level].names \in Lists \cup {<<>>}
UpTo(n) ==
  /\ \A p \in 1..2 * MaxWidth : fieldValues[p] <= n
  /\ converting.value <= n
  /\ \A level \in Levels, i \in 1..MaxWidth : fieldsSent[level][i] <= n
FieldsFlags == behavior \in {"METAPUSH", "MULTIMETAPUSH"} /\ fieldsPush \in BOOLEAN /\ shifted \in BOOLEAN
FieldsOthers ==
  /\ FieldsFlags /\ NamesListed
  /\ fieldEvents <= MaxFieldEvents /\ converting.behind <= MaxWidth /\ UpTo(fieldEvents)

(* A level that is resized keeps its names. *)
LEMMA NamesStayListed ==
  ASSUME NamesListed, DOMAIN descriptors = Levels, NEW level \in Levels, NEW size,
         descriptors' = [descriptors EXCEPT ![level] = [descriptors[level] EXCEPT !.length = size]],
         WellDescribed(descriptors[level])
  PROVE  NamesListed'
<1>1. descriptors[level] = [names |-> descriptors[level].names, length |-> descriptors[level].length]
  BY DEF WellDescribed
<1>2. [descriptors[level] EXCEPT !.length = size].names = descriptors[level].names
  BY <1>1
<1>3. \A l \in Levels : descriptors'[l] = IF l = level THEN [descriptors[level] EXCEPT !.length = size] ELSE descriptors[l]
  OBVIOUS
<1> QED
  BY <1>2, <1>3 DEF NamesListed

(* The fields keep their types. *)
LEMMA FieldsTyped == FieldsSpec => []FieldsTypeOK
<1>1. FieldsInit => FieldsOthers
  <2> SUFFICES ASSUME FieldsInit PROVE FieldsOthers
    OBVIOUS
  <2>1. FieldsFlags
    BY DEF FieldsInit, PrepareSecondLevel, FieldsFlags
  <2>2. NamesListed
    <3>1. ASSUME NEW level \in Levels PROVE descriptors[level].names \in Lists \cup {<<>>}
      <4>1. descriptors[level] \in {ListDescriptor(names) : names \in Lists} \cup {NameDescriptor}
        BY DEF FieldsInit, Levels
      <4> QED
        BY <4>1 DEF ListDescriptor, NameDescriptor
    <3> QED
      BY <3>1 DEF NamesListed
  <2>3. /\ fieldEvents = 0 /\ converting = NoConversion
        /\ \A p \in 1..2 * MaxWidth : fieldValues[p] = 0
        /\ \A level \in Levels, i \in 1..MaxWidth : fieldsSent[level][i] = 0
    BY DEF FieldsInit, Levels
  <2>4. UpTo(0)
    BY <2>3 DEF UpTo, NoConversion
  <2>5. fieldEvents <= MaxFieldEvents /\ converting.behind <= MaxWidth
    BY <2>3, FieldsAssumption, WidthIsTwo DEF NoConversion
  <2> QED
    BY <2>1, <2>2, <2>3, <2>4, <2>5 DEF FieldsOthers
<1>2. FieldsIInv /\ FieldsOthers /\ [FieldsNext]_fieldsVars => FieldsOthers'
  <2> SUFFICES ASSUME FieldsIInv, FieldsOthers, [FieldsNext]_fieldsVars PROVE FieldsOthers'
    OBVIOUS
  <2>0. /\ DOMAIN descriptors = Levels /\ \A level \in Levels : WellDescribed(descriptors[level])
        /\ GetMainSize \in Nat /\ GetMainSize <= MaxWidth /\ fieldEvents \in Nat
        /\ fieldValues \in [1..2 * MaxWidth -> Nat] /\ fieldsSent \in [Levels -> [1..MaxWidth -> Nat]]
    BY DEF FieldsIInv, FieldsTypes, WellDescribed, Levels, GetMainSize
  <2>01. PICK fs \in SUBSET (1..MaxWidth), b \in Nat, v \in Nat, q \in BOOLEAN :
           converting = [fields |-> fs, behind |-> b, value |-> v, resized |-> q]
    <3>1. converting \in Conversions
      BY DEF FieldsIInv, FieldsTypes
    <3> QED
      BY <3>1, Zenon DEF Conversions
  <2>02. v <= fieldEvents /\ b <= MaxWidth
    BY <2>01 DEF FieldsOthers, UpTo
  <2>1. ASSUME NEW size \in 1..MaxWidth, FieldsSubscribed(size) PROVE FieldsOthers'
    <3>1. /\ descriptors' = [descriptors EXCEPT !["main"] = [descriptors["main"] EXCEPT !.length = size]]
          /\ fieldsPush' = TRUE /\ UNCHANGED <<behavior, fieldValues, shifted, fieldEvents>>
          /\ \A level \in Levels, i \in 1..MaxWidth : fieldsSent'[level][i] = 0
          /\ \E r : converting' = [converting EXCEPT !.resized = r]
      BY <2>1, <2>0 DEF FieldsSubscribed, Levels
    <3>2. converting'.behind = b /\ converting'.value = v
      BY <3>1, <2>01
    <3>3. NamesListed'
      BY <2>0, <3>1, NamesStayListed DEF FieldsOthers, Levels
    <3>4. UpTo(fieldEvents)'
      BY <2>0, <2>02, <3>1, <3>2 DEF FieldsOthers, UpTo
    <3>5. FieldsFlags'
      BY <3>1 DEF FieldsOthers, FieldsFlags
    <3> QED
      BY <2>02, <3>1, <3>2, <3>3, <3>4, <3>5 DEF FieldsOthers
  <2>2. ASSUME NEW changed \in SUBSET (1..MaxWidth), MainUpdate(changed) PROVE FieldsOthers'
    <3>1. /\ fieldEvents' = fieldEvents + 1 /\ fieldEvents < MaxFieldEvents
          /\ fieldValues' = [p \in DOMAIN fieldValues |-> IF p \in changed THEN fieldEvents' ELSE fieldValues[p]]
          /\ fieldsSent' = [fieldsSent EXCEPT !["main"] =
                              [i \in 1..MaxWidth |-> IF i \in changed THEN fieldEvents' ELSE fieldsSent["main"][i]]]
          /\ UNCHANGED <<descriptors, behavior, fieldsPush, converting, shifted>>
      BY <2>2, <2>0 DEF MainUpdate, Levels
    <3>2. PICK n \in Nat : n = fieldEvents' /\ fieldEvents <= n /\ n <= MaxFieldEvents
      BY <2>0, <3>1, FieldsAssumption
    <3>3. \A p \in 1..2 * MaxWidth : fieldValues'[p] \in {fieldValues[p], n}
      BY <2>0, <3>1, <3>2
    <3>4. \A level \in Levels, i \in 1..MaxWidth : fieldsSent'[level][i] \in {fieldsSent[level][i], n}
      BY <2>0, <3>1, <3>2 DEF Levels
    <3>5. /\ \A p \in 1..2 * MaxWidth : fieldValues'[p] <= n
          /\ \A level \in Levels, i \in 1..MaxWidth : fieldsSent'[level][i] <= n
          /\ v <= n
      <4>1. \A m \in Nat : m <= fieldEvents => m <= n
        BY <2>0, <3>2
      <4>2. /\ \A p \in 1..2 * MaxWidth : fieldValues[p] \in Nat /\ fieldValues[p] <= fieldEvents
            /\ \A level \in Levels, i \in 1..MaxWidth : fieldsSent[level][i] \in Nat /\ fieldsSent[level][i] <= fieldEvents
        BY <2>0 DEF FieldsOthers, UpTo
      <4>3. n <= n
        BY <3>2
      <4> QED
        BY <2>02, <3>3, <3>4, <4>1, <4>2, <4>3
    <3>6. UpTo(fieldEvents)'
      BY <2>01, <3>1, <3>2, <3>5 DEF UpTo
    <3>7. FieldsFlags' /\ NamesListed' /\ converting'.behind <= MaxWidth
      BY <3>1 DEF FieldsOthers, FieldsFlags, NamesListed
    <3> QED
      BY <3>2, <3>6, <3>7 DEF FieldsOthers
  <2>3. ASSUME NEW size \in 1..MaxWidth, NEW changed \in SUBSET (1..MaxWidth), SubUpdateConverted(changed, size)
        PROVE  FieldsOthers'
    <3>1. /\ fieldEvents' = fieldEvents + 1 /\ fieldEvents < MaxFieldEvents
          /\ descriptors' = [descriptors EXCEPT !["sub"] = [descriptors["sub"] EXCEPT !.length = size]]
          /\ converting' = [fields |-> changed, behind |-> GetMainSize, value |-> fieldEvents', resized |-> FALSE]
          /\ UNCHANGED <<behavior, fieldsPush, fieldValues, fieldsSent, shifted>>
      BY <2>3, <2>0 DEF SubUpdateConverted, Levels
    <3>2. PICK n \in Nat : n = fieldEvents' /\ fieldEvents <= n /\ n <= MaxFieldEvents
      BY <2>0, <3>1, FieldsAssumption
    <3>3. NamesListed'
      BY <2>0, <3>1, NamesStayListed DEF FieldsOthers, Levels
    <3>4. /\ \A p \in 1..2 * MaxWidth : fieldValues[p] <= n
          /\ \A level \in Levels, i \in 1..MaxWidth : fieldsSent[level][i] <= n
      <4>1. \A m \in Nat : m <= fieldEvents => m <= n
        BY <2>0, <3>2
      <4>2. /\ \A p \in 1..2 * MaxWidth : fieldValues[p] \in Nat /\ fieldValues[p] <= fieldEvents
            /\ \A level \in Levels, i \in 1..MaxWidth : fieldsSent[level][i] \in Nat /\ fieldsSent[level][i] <= fieldEvents
        BY <2>0 DEF FieldsOthers, UpTo
      <4> QED
        BY <4>1, <4>2
    <3>5. UpTo(fieldEvents)'
      BY <3>1, <3>2, <3>4 DEF UpTo
    <3>6. FieldsFlags' /\ converting'.behind <= MaxWidth
      BY <2>0, <3>1 DEF FieldsOthers, FieldsFlags
    <3> QED
      BY <3>2, <3>3, <3>5, <3>6 DEF FieldsOthers
  <2>4. ASSUME SubUpdatePassed PROVE FieldsOthers'
    <3>1. /\ converting' = NoConversion
          /\ UNCHANGED <<descriptors, behavior, fieldsPush, fieldEvents>>
          /\ \/ /\ fieldValues' = [p \in DOMAIN fieldValues |-> IF p - b \in fs THEN v ELSE fieldValues[p]]
                /\ fieldsSent' = [fieldsSent EXCEPT !["sub"] =
                                    [i \in 1..MaxWidth |-> IF i \in fs THEN v ELSE fieldsSent["sub"][i]]]
             \/ UNCHANGED <<fieldValues, fieldsSent>>
      BY <2>4, <2>0, <2>01 DEF SubUpdatePassed, Levels
    <3>2. \A p \in 1..2 * MaxWidth : fieldValues'[p] \in {fieldValues[p], v}
      BY <2>0, <3>1
    <3>3. \A level \in Levels, i \in 1..MaxWidth : fieldsSent'[level][i] \in {fieldsSent[level][i], v}
      <4>1. CASE fieldsSent' = [fieldsSent EXCEPT !["sub"] =
                                  [i \in 1..MaxWidth |-> IF i \in fs THEN v ELSE fieldsSent["sub"][i]]]
        BY <2>0, <4>1 DEF Levels
      <4>2. CASE UNCHANGED fieldsSent
        BY <4>2
      <4> QED
        BY <3>1, <4>1, <4>2
    <3>4. UpTo(fieldEvents)'
      BY <2>0, <2>02, <3>1, <3>2, <3>3 DEF FieldsOthers, UpTo, NoConversion
    <3>5. shifted' \in BOOLEAN
      BY <2>4 DEF SubUpdatePassed, FieldsOthers, FieldsFlags
    <3>6. converting'.behind <= MaxWidth
      BY <3>1, WidthIsTwo DEF NoConversion
    <3> QED
      BY <3>1, <3>4, <3>5, <3>6 DEF FieldsOthers, FieldsFlags, NamesListed
  <2>5. CASE FieldsPaused
    BY <2>5 DEF FieldsPaused, FieldsOthers, FieldsFlags, NamesListed, UpTo
  <2>6. CASE UNCHANGED fieldsVars
    BY <2>6 DEF fieldsVars, FieldsOthers, FieldsFlags, NamesListed, UpTo
  <2> QED
    BY <2>1, <2>2, <2>3, <2>4, <2>5, <2>6 DEF FieldsNext
<1>3. FieldsIInv /\ FieldsOthers => FieldsTypeOK
  <2> SUFFICES ASSUME FieldsIInv, FieldsOthers PROVE FieldsTypeOK
    OBVIOUS
  <2>1. /\ fieldValues \in [1..2 * MaxWidth -> Nat] /\ fieldEvents \in Nat
        /\ fieldsSent \in [Levels -> [1..MaxWidth -> Nat]]
        /\ \A level \in Levels : descriptors[level].length \in Nat /\ descriptors[level].length <= MaxWidth
        /\ converting \in Conversions
    BY DEF FieldsIInv, FieldsTypes, WellDescribed
  <2>2. \A n \in Nat : n <= fieldEvents => n \in 0..MaxFieldEvents
    BY <2>1, FieldsAssumption DEF FieldsOthers
  <2>3. fieldValues \in [1..2 * MaxWidth -> 0..MaxFieldEvents]
    BY <2>1, <2>2 DEF FieldsOthers, UpTo
  <2>4. fieldsSent \in [Levels -> [1..MaxWidth -> 0..MaxFieldEvents]]
    <3>1. ASSUME NEW level \in Levels PROVE fieldsSent[level] \in [1..MaxWidth -> 0..MaxFieldEvents]
      BY <2>1, <2>2 DEF FieldsOthers, UpTo
    <3> QED
      BY <2>1, <3>1
  <2>5. converting \in [fields : SUBSET (1..MaxWidth), behind : 0..MaxWidth, value : 0..MaxFieldEvents, resized : BOOLEAN]
    <3>1. PICK fs \in SUBSET (1..MaxWidth), b \in Nat, v \in Nat, q \in BOOLEAN :
            converting = [fields |-> fs, behind |-> b, value |-> v, resized |-> q]
      BY <2>1, Zenon DEF Conversions
    <3>2. b <= MaxWidth /\ v \in 0..MaxFieldEvents
      BY <2>2, <3>1 DEF FieldsOthers, UpTo
    <3>3. b \in 0..MaxWidth
      BY <3>2, WidthIsTwo
    <3> QED
      BY <3>1, <3>2, <3>3
  <2>6. fieldEvents \in 0..MaxFieldEvents
    BY <2>1, <2>2
  <2>7. \A level \in {"main", "sub"} : /\ descriptors[level].names \in Lists \cup {<<>>}
                                       /\ descriptors[level].length \in 0..MaxWidth
    <3>1. \A n \in Nat : n <= MaxWidth => n \in 0..MaxWidth
      BY WidthIsTwo
    <3> QED
      BY <2>1, <3>1 DEF FieldsOthers, NamesListed, Levels
  <2> QED
    BY <2>3, <2>4, <2>5, <2>6, <2>7 DEF FieldsOthers, FieldsFlags, FieldsTypeOK, Levels
<1> QED
  BY <1>1, <1>2, <1>3, FieldsInductive, PTL DEF FieldsSpec

-----------------------------------------------------------------------------
(* The matrices it keeps values in. *)

(* Rows and columns that are there are numbers, and no row is empty. *)
HasCell(r, c) == r \in DOMAIN matrix /\ c \in DOMAIN matrix[r]
RowsAreThere ==
  /\ DOMAIN matrix \subseteq RowIds
  /\ \A r \in DOMAIN matrix : DOMAIN matrix[r] \subseteq ColumnIds /\ DOMAIN matrix[r] # {}
(* A cell is there when it was written and not erased, with what was written. *)
CellIsWritten(r, c) ==
  IF HasCell(r, c)
  THEN written[<<r, c>>] # Erased /\ Decoded(matrix[r][c]) = Decoded(written[<<r, c>>])
  ELSE written[<<r, c>>] = Erased
CellsAreWritten == \A r \in RowIds, c \in ColumnIds : CellIsWritten(r, c)
MatrixIInv == RowsAreThere /\ DOMAIN written = Cells /\ CellsAreWritten

(* No value is the mark of an erased cell, nor is what is kept for it.        *)
LEMMA ValuesAreNotErased ==
  ASSUME NEW value \in CellValues
  PROVE  /\ value # Erased /\ Decoded(value) # Erased
         /\ Decoded(Encoded(value)) = Decoded(value) /\ Decoded(Decoded(value)) = Decoded(value)
BY MatrixAssumption DEF Erased, Decoded, Encoded, NULL_VALUE

(* insert adds its cell, and a row if there was none. *)
LEMMA InsertStep ==
  ASSUME MatrixIInv, NEW row \in RowIds, NEW column \in ColumnIds, NEW value \in CellValues,
         MatrixInsert(value, row, column)
  PROVE  MatrixIInv'
<1> DEFINE new == With(GetRow(row), column, Encoded(value))
<1>1. /\ matrix' = With(matrix, row, new)
      /\ written' = [written EXCEPT ![<<row, column>>] = value]
      /\ concurrent' = concurrent
  BY DEF MatrixInsert
<1>2. DOMAIN GetRow(row) = IF row \in DOMAIN matrix THEN DOMAIN matrix[row] ELSE {}
  BY DEF GetRow
<1>3. /\ DOMAIN new = DOMAIN GetRow(row) \cup {column}
      /\ new[column] = Encoded(value)
      /\ \A c \in DOMAIN GetRow(row) : c # column => new[c] = GetRow(row)[c]
  BY DEF With
<1> HIDE DEF new
<1>4. /\ DOMAIN matrix' = DOMAIN matrix \cup {row}
      /\ matrix'[row] = new
      /\ \A r \in DOMAIN matrix : r # row => matrix'[r] = matrix[r]
  BY <1>1 DEF With
<1>5. RowsAreThere'
  BY <1>2, <1>3, <1>4 DEF MatrixIInv, RowsAreThere
<1>6. DOMAIN written' = Cells /\ written'[<<row, column>>] = value
      /\ \A cell \in Cells : cell # <<row, column>> => written'[cell] = written[cell]
  BY <1>1 DEF MatrixIInv, Cells
<1>7. ASSUME NEW r \in RowIds, NEW c \in ColumnIds PROVE CellIsWritten(r, c)'
  <2>1. CellIsWritten(r, c)
    BY DEF MatrixIInv, CellsAreWritten
  <2>2. CASE r = row /\ c = column
    <3>1. HasCell(r, c)' /\ matrix'[r][c] = Encoded(value) /\ written'[<<r, c>>] = value
      BY <1>3, <1>4, <1>6, <2>2 DEF HasCell
    <3>2. value # Erased /\ Decoded(Encoded(value)) = Decoded(value)
      BY ValuesAreNotErased
    <3>3. Decoded(matrix[r][c])' = Decoded(matrix'[r][c]) /\ Decoded(written[<<r, c>>])' = Decoded(written'[<<r, c>>])
      BY <1>1 DEF Decoded
    <3> QED
      BY <3>1, <3>2, <3>3 DEF CellIsWritten, Erased
  <2>3. CASE ~(r = row /\ c = column)
    <3>1. <<r, c>> \in Cells /\ <<r, c>> # <<row, column>>
      BY <2>3 DEF Cells
    <3>2. written'[<<r, c>>] = written[<<r, c>>]
      BY <1>6, <3>1
    <3>3. HasCell(r, c)' <=> HasCell(r, c)
      BY <1>2, <1>3, <1>4, <2>3 DEF HasCell
    <3>4. HasCell(r, c) => matrix'[r][c] = matrix[r][c]
      BY <1>2, <1>3, <1>4, <2>3 DEF HasCell, GetRow
    <3> QED
      BY <1>1, <2>1, <3>2, <3>3, <3>4 DEF CellIsWritten, Decoded, Erased
  <2> QED
    BY <2>2, <2>3
<1> QED
  BY <1>5, <1>6, <1>7 DEF MatrixIInv, CellsAreWritten, Cells

(* insertRow replaces a row. *)
LEMMA InsertRowStep ==
  ASSUME MatrixIInv, NEW row \in RowIds, NEW columns \in SUBSET ColumnIds, columns # {}, NEW value \in CellValues,
         MatrixInsertRow(columns, value, row)
  PROVE  MatrixIInv'
<1> DEFINE new == [c \in columns |-> value]
<1>1. /\ matrix' = With(matrix, row, new)
      /\ written' = [cell \in Cells |-> IF cell[1] # row THEN written[cell]
                                        ELSE IF cell[2] \in columns THEN Decoded(value) ELSE Erased]
      /\ concurrent' = concurrent
  BY DEF MatrixInsertRow
<1>2. DOMAIN new = columns /\ \A c \in columns : new[c] = value
  OBVIOUS
<1> HIDE DEF new
<1>3. /\ DOMAIN matrix' = DOMAIN matrix \cup {row}
      /\ matrix'[row] = new
      /\ \A r \in DOMAIN matrix : r # row => matrix'[r] = matrix[r]
  BY <1>1 DEF With
<1>4. RowsAreThere'
  BY <1>2, <1>3 DEF MatrixIInv, RowsAreThere
<1>5. ASSUME NEW r \in RowIds, NEW c \in ColumnIds PROVE CellIsWritten(r, c)'
  <2>1. CellIsWritten(r, c)
    BY DEF MatrixIInv, CellsAreWritten
  <2>2. <<r, c>> \in Cells /\ <<r, c>>[1] = r /\ <<r, c>>[2] = c
    BY DEF Cells
  <2>3. CASE r # row
    <3>1. written'[<<r, c>>] = written[<<r, c>>]
      <4>1. PICK cell \in Cells : cell = <<r, c>> /\ cell[1] # row
        BY <2>2, <2>3
      <4> QED
        BY <1>1, <4>1
    <3>2. (HasCell(r, c)' <=> HasCell(r, c)) /\ (HasCell(r, c) => matrix'[r][c] = matrix[r][c])
      BY <1>3, <2>3 DEF HasCell
    <3> QED
      BY <1>1, <2>1, <3>1, <3>2 DEF CellIsWritten, Decoded, Erased
  <2>4. CASE r = row /\ c \in columns
    <3>1. written'[<<r, c>>] = Decoded(value)
      BY <1>1, <2>2, <2>4
    <3>2. HasCell(r, c)' /\ matrix'[r][c] = value
      BY <1>2, <1>3, <2>4 DEF HasCell
    <3>3. Decoded(value) # Erased /\ Decoded(Decoded(value)) = Decoded(value)
      BY ValuesAreNotErased
    <3>4. concurrent' = concurrent
      BY <1>1
    <3>5. Decoded(matrix[r][c])' = Decoded(value)
      BY <3>2, <3>4 DEF Decoded
    <3>6. PICK w : w = Decoded(value)
      OBVIOUS
    <3>7. Decoded(written[<<r, c>>])' = Decoded(w)
      BY <3>1, <3>4, <3>6 DEF Decoded
    <3> QED
      BY <3>1, <3>2, <3>3, <3>5, <3>6, <3>7 DEF CellIsWritten, Erased
  <2>5. CASE r = row /\ c \notin columns
    <3>1. written'[<<r, c>>] = Erased
      BY <1>1, <2>2, <2>5
    <3>2. ~HasCell(r, c)'
      BY <1>2, <1>3, <2>5 DEF HasCell
    <3> QED
      BY <3>1, <3>2 DEF CellIsWritten, Erased
  <2> QED
    BY <2>3, <2>4, <2>5
<1>6. DOMAIN written' = Cells
  BY <1>1
<1> QED
  BY <1>4, <1>5, <1>6 DEF MatrixIInv, CellsAreWritten, Cells

(* Whatever is erased, what remains is as it was. *)
LEMMA EraseStep ==
  ASSUME MatrixIInv, NEW cells, Erase(cells)
  PROVE  MatrixIInv'
<1>1. /\ matrix' = [row \in {r \in DOMAIN matrix : Remaining(r, cells) # {}} |->
                      [column \in Remaining(row, cells) |-> matrix[row][column]]]
      /\ written' = [cell \in Cells |-> IF cell \in cells THEN Erased ELSE written[cell]]
      /\ concurrent' = concurrent
  BY DEF Erase
<1>2. /\ DOMAIN matrix' = {r \in DOMAIN matrix : Remaining(r, cells) # {}}
      /\ \A r \in DOMAIN matrix' : /\ DOMAIN matrix'[r] = Remaining(r, cells)
                                   /\ \A c \in Remaining(r, cells) : matrix'[r][c] = matrix[r][c]
  BY <1>1
<1>3. RowsAreThere'
  BY <1>2 DEF MatrixIInv, RowsAreThere, Remaining
<1>4. ASSUME NEW r \in RowIds, NEW c \in ColumnIds PROVE CellIsWritten(r, c)'
  <2>1. CellIsWritten(r, c)
    BY DEF MatrixIInv, CellsAreWritten
  <2>2. written'[<<r, c>>] = IF <<r, c>> \in cells THEN Erased ELSE written[<<r, c>>]
    BY <1>1 DEF Cells
  <2>3. HasCell(r, c)' <=> HasCell(r, c) /\ <<r, c>> \notin cells
    BY <1>2 DEF HasCell, Remaining
  <2>4. HasCell(r, c)' => matrix'[r][c] = matrix[r][c]
    BY <1>2 DEF HasCell
  <2> QED
    BY <1>1, <2>1, <2>2, <2>3, <2>4 DEF CellIsWritten, Decoded, Erased
<1>5. DOMAIN written' = Cells
  BY <1>1
<1> QED
  BY <1>3, <1>4, <1>5 DEF MatrixIInv, CellsAreWritten, Cells

(* A cell that is there was written and not erased since, and the other way. *)
THEOREM MatrixInductive == MatrixSpec => []MatrixIInv
<1>1. MatrixInit => MatrixIInv
  BY DEF MatrixInit, MatrixIInv, RowsAreThere, CellsAreWritten, CellIsWritten, HasCell, Cells
<1>2. MatrixIInv /\ [MatrixNext]_matrixVars => MatrixIInv'
  <2> SUFFICES ASSUME MatrixIInv, [MatrixNext]_matrixVars PROVE MatrixIInv'
    OBVIOUS
  <2>1. ASSUME NEW row \in RowIds, NEW column \in ColumnIds,
               (\E value \in CellValues : MatrixInsert(value, row, column)) \/ MatrixDel(row, column)
        PROVE  MatrixIInv'
    BY <2>1, InsertStep, EraseStep DEF MatrixDel
  <2>2. ASSUME NEW row \in RowIds, NEW columns \in (SUBSET ColumnIds) \ {{}},
               (\E value \in CellValues : MatrixInsertRow(columns, value, row)) \/ ForEachElementInRow(row, columns)
        PROVE  MatrixIInv'
    <3>1. columns \in SUBSET ColumnIds /\ columns # {}
      OBVIOUS
    <3> QED
      BY <2>2, <3>1, InsertRowStep, EraseStep DEF ForEachElementInRow
  <2>3. ASSUME NEW row \in RowIds, MatrixDelRow(row) PROVE MatrixIInv'
    BY <2>3, EraseStep DEF MatrixDelRow
  <2>4. ASSUME NEW rows \in SUBSET RowIds, ForEachRow(rows) PROVE MatrixIInv'
    BY <2>4, EraseStep DEF ForEachRow
  <2>5. ASSUME NEW refused \in SUBSET Cells, ForEachElement(refused) PROVE MatrixIInv'
    BY <2>5, EraseStep DEF ForEachElement
  <2>6. CASE MatrixClear
    BY <2>6, EraseStep DEF MatrixClear
  <2>7. CASE UNCHANGED matrixVars
    <3>1. UNCHANGED <<concurrent, matrix, written>>
      BY <2>7 DEF matrixVars
    <3> QED
      BY <3>1 DEF MatrixIInv, RowsAreThere, CellsAreWritten, CellIsWritten, HasCell, Decoded
  <2> QED
    BY <2>1, <2>2, <2>3, <2>4, <2>5, <2>6, <2>7 DEF MatrixNext
<1> QED
  BY <1>1, <1>2, PTL DEF MatrixSpec

(* What an element may hold, and what a cell may have been given.             *)
Held == CellValues \cup {NULL_VALUE}
MatrixOthers ==
  /\ concurrent \in BOOLEAN
  /\ \A r \in DOMAIN matrix : \A c \in DOMAIN matrix[r] : matrix[r][c] \in Held
  /\ written \in [Cells -> CellValues \cup {"", Erased}]

(* What is erased leaves the rest as it is. *)
LEMMA ErasedStaysTyped ==
  ASSUME MatrixIInv, MatrixOthers, NEW cells, Erase(cells)
  PROVE  MatrixOthers'
<1>1. ASSUME NEW r \in DOMAIN matrix', NEW c \in DOMAIN matrix'[r] PROVE matrix'[r][c] \in Held
  <2>1. /\ r \in DOMAIN matrix /\ matrix'[r] = [column \in Remaining(r, cells) |-> matrix[r][column]]
    BY DEF Erase
  <2>2. c \in DOMAIN matrix[r] /\ matrix'[r][c] = matrix[r][c]
    BY <2>1 DEF Remaining
  <2> QED
    BY <2>1, <2>2 DEF MatrixOthers
<1>2. written' \in [Cells -> CellValues \cup {"", Erased}]
  BY DEF Erase, MatrixOthers
<1>3. concurrent' = concurrent
  BY DEF Erase
<1> QED
  BY <1>1, <1>2, <1>3 DEF MatrixOthers

(* A map with one more key has its value there and the others elsewhere.      *)
LEMMA WithIs ==
  ASSUME NEW f, NEW key, NEW value, NEW k \in DOMAIN With(f, key, value)
  PROVE  IF k = key THEN With(f, key, value)[k] = value
         ELSE k \in DOMAIN f /\ With(f, key, value)[k] = f[k]
BY DEF With

(* A matrix keeps its types. *)
LEMMA MatrixTyped == MatrixSpec => []MatrixTypeOK
<1>1. MatrixInit => MatrixOthers
  BY DEF MatrixInit, MatrixOthers
<1>2. MatrixIInv /\ MatrixOthers /\ [MatrixNext]_matrixVars => MatrixOthers'
  <2> SUFFICES ASSUME MatrixIInv, MatrixOthers, [MatrixNext]_matrixVars PROVE MatrixOthers'
    OBVIOUS
  <2>1. ASSUME NEW row \in RowIds, NEW column \in ColumnIds, NEW value \in CellValues, MatrixInsert(value, row, column)
        PROVE  MatrixOthers'
    <3> DEFINE new == With(GetRow(row), column, Encoded(value))
    <3>1. matrix' = With(matrix, row, new) /\ written' = [written EXCEPT ![<<row, column>>] = value] /\ concurrent' = concurrent
      BY <2>1 DEF MatrixInsert
    <3>2. Encoded(value) \in Held
      BY DEF Encoded, Held
    <3>3. ASSUME NEW c \in DOMAIN new PROVE new[c] \in Held
      <4>1. CASE c = column
        BY <4>1, <3>2, WithIs
      <4>2. CASE c # column
        <5>1. c \in DOMAIN GetRow(row) /\ new[c] = GetRow(row)[c]
          BY <4>2, WithIs
        <5>2. row \in DOMAIN matrix /\ GetRow(row) = matrix[row]
          BY <5>1 DEF GetRow
        <5> QED
          BY <5>1, <5>2 DEF MatrixOthers
      <4> QED
        BY <4>1, <4>2
    <3> HIDE DEF new
    <3>4. ASSUME NEW r \in DOMAIN matrix', NEW c \in DOMAIN matrix'[r] PROVE matrix'[r][c] \in Held
      <4>1. CASE r = row
        <5>1. matrix'[r] = new
          BY <3>1, <4>1, WithIs
        <5> QED
          BY <3>3, <5>1
      <4>2. CASE r # row
        <5>1. r \in DOMAIN matrix /\ matrix'[r] = matrix[r]
          BY <3>1, <4>2, WithIs
        <5> QED
          BY <5>1 DEF MatrixOthers
      <4> QED
        BY <4>1, <4>2
    <3>5. written' \in [Cells -> CellValues \cup {"", Erased}]
      BY <3>1 DEF MatrixOthers
    <3> QED
      BY <3>1, <3>4, <3>5 DEF MatrixOthers
  <2>2. ASSUME NEW row \in RowIds, NEW columns \in (SUBSET ColumnIds) \ {{}}, NEW value \in CellValues,
               MatrixInsertRow(columns, value, row)
        PROVE  MatrixOthers'
    <3>1. /\ matrix' = With(matrix, row, [c \in columns |-> value]) /\ concurrent' = concurrent
          /\ written' = [cell \in Cells |-> IF cell[1] # row THEN written[cell]
                                            ELSE IF cell[2] \in columns THEN Decoded(value) ELSE Erased]
      BY <2>2 DEF MatrixInsertRow
    <3>2. ASSUME NEW r \in DOMAIN matrix', NEW c \in DOMAIN matrix'[r] PROVE matrix'[r][c] \in Held
      <4>1. CASE r = row
        <5>1. matrix'[r] = [d \in columns |-> value]
          BY <3>1, <4>1, WithIs
        <5> QED
          BY <5>1 DEF Held
      <4>2. CASE r # row
        <5>1. r \in DOMAIN matrix /\ matrix'[r] = matrix[r]
          BY <3>1, <4>2, WithIs
        <5> QED
          BY <5>1 DEF MatrixOthers
      <4> QED
        BY <4>1, <4>2
    <3>3. Decoded(value) \in CellValues \cup {""}
      BY DEF Decoded
    <3> QED
      BY <3>1, <3>2, <3>3 DEF MatrixOthers
  <2>3. ASSUME NEW cells, Erase(cells) PROVE MatrixOthers'
    BY <2>3, ErasedStaysTyped
  <2>4. ASSUME NEW row \in RowIds, NEW column \in ColumnIds, MatrixDel(row, column) PROVE MatrixOthers'
    BY <2>3, <2>4 DEF MatrixDel
  <2>5. ASSUME NEW row \in RowIds, NEW columns, ForEachElementInRow(row, columns) PROVE MatrixOthers'
    BY <2>3, <2>5 DEF ForEachElementInRow
  <2>6. ASSUME NEW row \in RowIds, MatrixDelRow(row) PROVE MatrixOthers'
    BY <2>3, <2>6 DEF MatrixDelRow
  <2>7. ASSUME NEW rows, ForEachRow(rows) PROVE MatrixOthers'
    BY <2>3, <2>7 DEF ForEachRow
  <2>8. ASSUME NEW refused, ForEachElement(refused) PROVE MatrixOthers'
    BY <2>3, <2>8 DEF ForEachElement
  <2>9. CASE MatrixClear
    BY <2>3, <2>9 DEF MatrixClear
  <2>10. CASE UNCHANGED matrixVars
    BY <2>10 DEF matrixVars, MatrixOthers
  <2> QED
    BY <2>1, <2>2, <2>4, <2>5, <2>6, <2>7, <2>8, <2>9, <2>10 DEF MatrixNext
<1>3. MatrixIInv /\ MatrixOthers => MatrixTypeOK
  <2> SUFFICES ASSUME MatrixIInv, MatrixOthers PROVE MatrixTypeOK
    OBVIOUS
  <2>1. \A r \in DOMAIN matrix : Range(matrix[r]) \subseteq CellValues \cup {NULL_VALUE}
    BY DEF MatrixOthers, Held, Range
  <2> QED
    BY <2>1 DEF MatrixIInv, RowsAreThere, MatrixOthers, MatrixTypeOK
<1> QED
  BY <1>1, <1>2, <1>3, MatrixInductive, PTL DEF MatrixSpec

(* A sequence of numbers that grow. *)
Rises(s, n) == \A i, j \in 1..n : i < j => s[i] < s[j]
(* Every finite set of numbers can be gone through in order. *)
LEMMA OrderExists ==
  ASSUME NEW S \in SUBSET Nat, IsFiniteSet(S)
  PROVE  \E s \in [1..Cardinality(S) -> S] : Rises(s, Cardinality(S))
<1> DEFINE Ordered(T, n) == \E s \in [1..n -> T] : Rises(s, n)
           P == {n \in Nat : \A T \in SUBSET Nat : IsFiniteSet(T) /\ Cardinality(T) = n => Ordered(T, n)}
<1>1. 0 \in P
  <2> SUFFICES ASSUME NEW T \in SUBSET Nat, IsFiniteSet(T), Cardinality(T) = 0 PROVE Ordered(T, 0)
    OBVIOUS
  <2>1. [i \in 1..0 |-> 0] \in [1..0 -> T] /\ Rises([i \in 1..0 |-> 0], 0)
    BY DEF Rises
  <2> QED
    BY <2>1
<1>2. ASSUME NEW n \in Nat, n \in P PROVE n + 1 \in P
  <2> SUFFICES ASSUME NEW T \in SUBSET Nat, IsFiniteSet(T), Cardinality(T) = n + 1 PROVE Ordered(T, n + 1)
    OBVIOUS
  <2>1. T # {} /\ T \in SUBSET Int
    BY FS_EmptySet
  <2>2. PICK m \in T : \A x \in T : x <= m
    BY <2>1, Extremes
  <2>3. T \ {m} \in SUBSET Nat /\ IsFiniteSet(T \ {m}) /\ Cardinality(T \ {m}) = n
    <3>1. IsFiniteSet(T \ {m}) /\ Cardinality(T \ {m}) = Cardinality(T) - 1
      BY <2>2, FS_RemoveElement
    <3> QED
      BY <3>1
  <2>4. PICK s \in [1..n -> T \ {m}] : Rises(s, n)
    BY <1>2, <2>3
  <2> DEFINE t == [i \in 1..(n + 1) |-> IF i = n + 1 THEN m ELSE s[i]]
  <2>5. \A i \in 1..n : s[i] \in T /\ s[i] # m /\ s[i] <= m /\ s[i] \in Nat
    BY <2>2, <2>4
  <2>6. m \in Nat
    OBVIOUS
  <2>7. t \in [1..(n + 1) -> T]
    <3>1. ASSUME NEW i \in 1..(n + 1), i # n + 1 PROVE i \in 1..n
      BY <3>1
    <3> QED
      BY <2>5, <3>1
  <2>8. Rises(t, n + 1)
    <3> SUFFICES ASSUME NEW i \in 1..(n + 1), NEW j \in 1..(n + 1), i < j PROVE t[i] < t[j]
      BY DEF Rises
    <3>1. i \in 1..n /\ t[i] = s[i]
      OBVIOUS
    <3>2. CASE j = n + 1
      <4>1. t[j] = m
        BY <3>2
      <4> HIDE DEF t
      <4> QED
        BY <2>5, <2>6, <3>1, <4>1
    <3>3. CASE j # n + 1
      <4>1. j \in 1..n /\ t[j] = s[j]
        BY <3>3
      <4> HIDE DEF t
      <4> QED
        BY <2>4, <3>1, <4>1 DEF Rises
    <3> QED
      BY <3>2, <3>3
  <2> HIDE DEF t
  <2> QED
    BY <2>7, <2>8
<1>3. Cardinality(S) \in Nat
  BY FS_CardinalityType
<1>4. \A n \in Nat : n \in P
  <2> HIDE DEF P
  <2> QED
    BY <1>1, <1>2, SetInduction
<1> QED
  BY <1>3, <1>4

(* A std::set is gone through in order, and whole. *)
LEMMA AscendingIs ==
  ASSUME NEW S \in SUBSET Nat, IsFiniteSet(S)
  PROVE  /\ Cardinality(S) \in Nat
         /\ Ascending(S) \in [1..Cardinality(S) -> S] /\ Rises(Ascending(S), Cardinality(S))
         /\ \A x \in S : \E i \in 1..Cardinality(S) : Ascending(S)[i] = x
<1> DEFINE n == Cardinality(S)  s == Ascending(S)
<1>1. n \in Nat
  BY FS_CardinalityType
<1>2. s \in [1..n -> S] /\ Rises(s, n)
  <2>1. \E t \in [1..n -> S] : \A i, j \in DOMAIN t : i < j => t[i] < t[j]
    <3>1. PICK t \in [1..n -> S] : Rises(t, n)
      BY OrderExists
    <3>2. DOMAIN t = 1..n
      BY <3>1
    <3> QED
      BY <3>1, <3>2 DEF Rises
  <2>2. s \in [1..n -> S] /\ \A i, j \in DOMAIN s : i < j => s[i] < s[j]
    BY <2>1, Zenon DEF Ascending
  <2>3. DOMAIN s = 1..n
    BY <2>2
  <2> HIDE DEF s
  <2> QED
    BY <2>2, <2>3 DEF Rises
<1> HIDE DEF s
<1>3. \A i, j \in 1..n : s[i] = s[j] => i = j
  <2> SUFFICES ASSUME NEW i \in 1..n, NEW j \in 1..n, s[i] = s[j], i # j PROVE FALSE
    OBVIOUS
  <2>1. s[i] \in Nat /\ s[j] \in Nat
    BY <1>2
  <2>2. i < j \/ j < i
    BY <1>1
  <2> QED
    BY <1>2, <2>1, <2>2 DEF Rises
<1>4. s \in Injection(1..n, S)
  BY <1>2, <1>3 DEF Injection, IsInjective
<1>5. Cardinality(1..n) = n /\ IsFiniteSet(1..n)
  <2>1. 1 \in Int /\ n \in Int
    BY <1>1
  <2> QED
    BY <1>1, <2>1, FS_Interval
<1>6. s \in Surjection(1..n, S)
  BY <1>4, <1>5, FS_Injection
<1> QED
  BY <1>1, <1>2, <1>6 DEF Surjection, s

(* A sorted matrix. *)
WellOrdered(order, n) == \A i, j \in 1..n : i < j => Before(order[i], order[j])
(* What the first rows of a matrix come to. *)
OfRows(rows, n) == {cell \in WrittenCells : \E k \in 1..n : cell[1] = rows[k]}
ListsUpTo(order, m, rows, n) ==
  /\ order \in [1..m -> OfRows(rows, n)] /\ WellOrdered(order, m)
  /\ \A cell \in OfRows(rows, n) : \E i \in 1..m : order[i] = cell
IsOf(v, order, m) == v = [i \in 1..m |-> written[order[i]]]

(* One more row, after the others. *)
LEMMA OneMoreRow ==
  ASSUME NEW rows, NEW n \in Nat, NEW m \in Nat, NEW order, ListsUpTo(order, m, rows, n),
         NEW columns, NEW w \in Nat, columns \in [1..w -> Nat], Rises(columns, w),
         \A cell \in WrittenCells : cell = <<cell[1], cell[2]>> /\ cell[1] \in Nat /\ cell[2] \in Nat,
         rows[n + 1] \in Nat, \A k \in 1..n : rows[k] \in Nat /\ rows[k] < rows[n + 1],
         \A j \in 1..w : <<rows[n + 1], columns[j]>> \in WrittenCells,
         \A cell \in WrittenCells : cell[1] = rows[n + 1] => \E j \in 1..w : columns[j] = cell[2],
         NEW T, NEW v \in Seq(T), IsOf(v, order, m), NEW u \in Seq(T), u = [j \in 1..w |-> written[<<rows[n + 1], columns[j]>>]]
  PROVE  \E next : ListsUpTo(next, m + w, rows, n + 1) /\ IsOf(v \o u, next, m + w)
<1> DEFINE row == rows[n + 1]
           next == [i \in 1..(m + w) |-> IF i <= m THEN order[i] ELSE <<row, columns[i - m]>>]
<1>1. OfRows(rows, n + 1) = OfRows(rows, n) \cup {cell \in WrittenCells : cell[1] = row}
  <2>1. 1..(n + 1) = (1..n) \cup {n + 1}
    OBVIOUS
  <2> QED
    BY <2>1 DEF OfRows
<1>2. /\ \A i \in 1..m : order[i] \in OfRows(rows, n)
      /\ \A cell \in OfRows(rows, n) : cell \in WrittenCells /\ cell[1] \in Nat /\ cell[1] < row
  BY DEF ListsUpTo, OfRows
<1>3. /\ \A i \in 1..m : next[i] = order[i] /\ i \in 1..(m + w)
      /\ \A i \in 1..(m + w) : i > m => i - m \in 1..w /\ next[i] = <<row, columns[i - m]>>
      /\ \A i \in 1..(m + w) : ~(i > m) => i \in 1..m
      /\ \A j \in 1..w : m + j \in 1..(m + w) /\ m + j > m /\ (m + j) - m = j
      /\ DOMAIN next = 1..(m + w)
  OBVIOUS
<1>w. row \in Nat /\ next = [i \in 1..(m + w) |-> next[i]]
  OBVIOUS
<1> HIDE DEF next, row
<1>4. ASSUME NEW i \in 1..(m + w) PROVE next[i] \in OfRows(rows, n + 1)
  <2>1. CASE i > m
    <3>1. next[i] = <<row, columns[i - m]>> /\ next[i] \in WrittenCells
      BY <1>3, <2>1 DEF row
    <3> QED
      BY <1>1, <3>1
  <2>2. CASE ~(i > m)
    <3>1. i \in 1..m
      BY <1>3, <2>2
    <3>2. next[i] = order[i] /\ order[i] \in OfRows(rows, n)
      BY <1>2, <1>3, <3>1
    <3> QED
      BY <1>1, <3>2
  <2> QED
    BY <2>1, <2>2
<1>5. next \in [1..(m + w) -> OfRows(rows, n + 1)]
  BY <1>w, <1>4
<1>6. WellOrdered(next, m + w)
  <2> SUFFICES ASSUME NEW i \in 1..(m + w), NEW j \in 1..(m + w), i < j PROVE Before(next[i], next[j])
    BY DEF WellOrdered
  <2>1. CASE ~(j > m)
    <3>1. i \in 1..m /\ j \in 1..m
      BY <2>1
    <3>2. next[i] = order[i] /\ next[j] = order[j]
      BY <1>3, <3>1
    <3> QED
      BY <3>1, <3>2 DEF ListsUpTo, WellOrdered
  <2>2. CASE j > m /\ ~(i > m)
    <3>a. i \in 1..m
      BY <1>3, <2>2
    <3>b. next[i] = order[i] /\ order[i] \in OfRows(rows, n)
      BY <1>2, <1>3, <3>a
    <3>c. next[j] = <<row, columns[j - m]>>
      BY <1>3, <2>2
    <3>1. next[i] \in OfRows(rows, n) /\ next[j][1] = row
      BY <3>b, <3>c
    <3> QED
      BY <1>2, <3>1 DEF Before
  <2>3. CASE i > m
    <3>1. j > m /\ i - m \in 1..w /\ j - m \in 1..w /\ i - m < j - m
      BY <2>3
    <3>2. columns[i - m] < columns[j - m]
      BY <3>1 DEF Rises
    <3>3. next[i] = <<row, columns[i - m]>> /\ next[j] = <<row, columns[j - m]>>
      BY <1>3, <2>3, <3>1
    <3> QED
      BY <3>2, <3>3 DEF Before
  <2> QED
    BY <2>1, <2>2, <2>3
<1>7. ASSUME NEW cell \in OfRows(rows, n + 1) PROVE \E i \in 1..(m + w) : next[i] = cell
  <2>1. CASE cell \in OfRows(rows, n)
    <3>1. PICK i \in 1..m : order[i] = cell
      BY <2>1 DEF ListsUpTo
    <3> QED
      BY <1>3, <3>1
  <2>2. CASE cell \notin OfRows(rows, n)
    <3>1. cell \in WrittenCells /\ cell[1] = row
      BY <1>1, <2>2
    <3>2. PICK j \in 1..w : columns[j] = cell[2]
      BY <3>1 DEF row
    <3>3. next[m + j] = <<row, columns[j]>> /\ m + j \in 1..(m + w)
      BY <1>3
    <3>4. cell = <<row, columns[j]>>
      BY <3>1, <3>2
    <3> QED
      BY <3>3, <3>4
  <2> QED
    BY <2>1, <2>2
<1>8. IsOf(v \o u, next, m + w)
  <2>1. v = [i \in 1..m |-> written[order[i]]]
    BY DEF IsOf
  <2>2. v \o u = [i \in 1..(m + w) |-> IF i <= m THEN v[i] ELSE u[i - m]]
    <3>1. Len(v) = m /\ Len(u) = w
      BY <2>1
    <3> QED
      BY <3>1
  <2>3. ASSUME NEW i \in 1..(m + w)
        PROVE  (IF i <= m THEN v[i] ELSE u[i - m]) = written[next[i]]
    <3>1. CASE i <= m
      <4>1. i \in 1..m
        BY <3>1
      <4> QED
        BY <1>3, <2>1, <3>1, <4>1
    <3>2. CASE ~(i <= m)
      <4>1. i > m /\ i - m \in 1..w
        BY <3>2
      <4>2. next[i] = <<row, columns[i - m]>>
        BY <1>3, <4>1
      <4>3. u[i - m] = written[<<row, columns[i - m]>>]
        BY <4>1 DEF row
      <4> QED
        BY <3>2, <4>2, <4>3
    <3> QED
      BY <3>1, <3>2
  <2> QED
    BY <2>2, <2>3 DEF IsOf
<1> QED
  BY <1>5, <1>6, <1>7, <1>8 DEF ListsUpTo

(* What is sorted is what was written. *)
LEMMA MatrixIsSorted ==
  ASSUME MatrixIInv, MatrixOthers, ~concurrent
  PROVE  SortedAsWritten
<1> DEFINE rows == Ascending(DOMAIN matrix)
           n == Cardinality(DOMAIN matrix)
           V == Seq(Held)
           step == [p \in V \X DOMAIN matrix |-> p[1] \o SortedRow(p[2])]
           P == [k \in Nat |-> {v \in V : \E m \in Nat : \E order : ListsUpTo(order, m, rows, k) /\ IsOf(v, order, m)}]
<1>1. /\ RowIds \subseteq Nat /\ IsFiniteSet(RowIds) /\ ColumnIds \subseteq Nat /\ IsFiniteSet(ColumnIds)
      /\ DOMAIN matrix \subseteq RowIds
      /\ \A r \in DOMAIN matrix : DOMAIN matrix[r] \subseteq ColumnIds
  BY MatrixAssumption DEF MatrixIInv, RowsAreThere
<1>2. /\ n \in Nat /\ rows \in [1..n -> DOMAIN matrix] /\ Rises(rows, n)
      /\ \A x \in DOMAIN matrix : \E i \in 1..n : rows[i] = x
  <2>1. DOMAIN matrix \in SUBSET Nat /\ IsFiniteSet(DOMAIN matrix)
    BY <1>1, FS_Subset
  <2> QED
    BY <2>1, AscendingIs
<1>3. \A cell \in WrittenCells : /\ cell = <<cell[1], cell[2]>> /\ cell[1] \in Nat /\ cell[2] \in Nat
                                  /\ cell[1] \in DOMAIN matrix /\ cell[2] \in DOMAIN matrix[cell[1]]
  <2> SUFFICES ASSUME NEW cell \in WrittenCells
               PROVE  /\ cell = <<cell[1], cell[2]>> /\ cell[1] \in Nat /\ cell[2] \in Nat
                      /\ cell[1] \in DOMAIN matrix /\ cell[2] \in DOMAIN matrix[cell[1]]
    OBVIOUS
  <2>1. cell = <<cell[1], cell[2]>> /\ cell[1] \in RowIds /\ cell[2] \in ColumnIds /\ written[cell] # Erased
    BY DEF WrittenCells, Cells
  <2>2. HasCell(cell[1], cell[2])
    BY <2>1 DEF MatrixIInv, CellsAreWritten, CellIsWritten
  <2> QED
    BY <1>1, <2>1, <2>2 DEF HasCell
<1>4. ASSUME NEW r \in DOMAIN matrix, NEW c \in DOMAIN matrix[r]
      PROVE  <<r, c>> \in WrittenCells /\ matrix[r][c] = written[<<r, c>>] /\ matrix[r][c] \in Held
  <2>1. HasCell(r, c) /\ r \in RowIds /\ c \in ColumnIds
    BY <1>1 DEF HasCell
  <2>2. written[<<r, c>>] # Erased /\ Decoded(matrix[r][c]) = Decoded(written[<<r, c>>])
    BY <2>1 DEF MatrixIInv, CellsAreWritten, CellIsWritten
  <2> QED
    BY <2>1, <2>2 DEF WrittenCells, Cells, Decoded, MatrixOthers
<1>5. ASSUME NEW r \in DOMAIN matrix
      PROVE  LET columns == Ascending(DOMAIN matrix[r])
                 w == Cardinality(DOMAIN matrix[r])
             IN  /\ w \in Nat /\ columns \in [1..w -> DOMAIN matrix[r]] /\ Rises(columns, w)
                 /\ \A x \in DOMAIN matrix[r] : \E j \in 1..w : columns[j] = x
                 /\ SortedRow(r) = [j \in 1..w |-> matrix[r][columns[j]]]
                 /\ SortedRow(r) = [j \in 1..w |-> written[<<r, columns[j]>>]]
                 /\ SortedRow(r) \in V
  <2> DEFINE columns == Ascending(DOMAIN matrix[r])
             w == Cardinality(DOMAIN matrix[r])
  <2>1. DOMAIN matrix[r] \in SUBSET Nat /\ IsFiniteSet(DOMAIN matrix[r])
    BY <1>1, FS_Subset
  <2>2. /\ w \in Nat /\ columns \in [1..w -> DOMAIN matrix[r]] /\ Rises(columns, w)
        /\ \A x \in DOMAIN matrix[r] : \E j \in 1..w : columns[j] = x
    BY <2>1, AscendingIs
  <2>3. SortedRow(r) = [j \in DOMAIN columns |-> matrix[r][columns[j]]]
    BY DEF SortedRow
  <2> HIDE DEF columns, w
  <2>4. SortedRow(r) = [j \in 1..w |-> matrix[r][columns[j]]]
    BY <2>2, <2>3
  <2>5. \A j \in 1..w : matrix[r][columns[j]] = written[<<r, columns[j]>>] /\ matrix[r][columns[j]] \in Held
    BY <1>4, <2>2
  <2>6. SortedRow(r) = [j \in 1..w |-> written[<<r, columns[j]>>]] /\ SortedRow(r) \in V
    <3>1. [j \in 1..w |-> matrix[r][columns[j]]] = [j \in 1..w |-> written[<<r, columns[j]>>]]
      BY <2>5
    <3>2. [j \in 1..w |-> matrix[r][columns[j]]] \in Seq(Held)
      <4>1. [j \in 1..w |-> matrix[r][columns[j]]] \in [1..w -> Held]
        BY <2>5
      <4>2. ASSUME NEW T, NEW k \in Nat, NEW f \in [1..k -> T] PROVE f \in Seq(T)
        OBVIOUS
      <4>3. w \in Nat
        BY <2>2
      <4> QED
        BY <4>1, <4>2, <4>3, Zenon
    <3> QED
      BY <2>4, <3>1, <3>2
  <2> QED
    BY <2>2, <2>4, <2>6 DEF columns, w
<1>6. Sorted = Folded(step, << >>, rows)
  BY DEF Sorted, Held
<1>7. rows \in Seq(DOMAIN matrix) /\ Len(rows) = n
  <2> HIDE DEF rows, n
  <2> QED
    BY <1>2
<1>8. step \in [V \X DOMAIN matrix -> V] /\ << >> \in V
  <2>1. \A v \in V, r \in DOMAIN matrix : SortedRow(r) \in V
    BY <1>5, Zenon
  <2>2. \A v \in V, u \in V : v \o u \in V
    OBVIOUS
  <2>3. \A v \in V, r \in DOMAIN matrix : v \o SortedRow(r) \in V
    BY <2>1, <2>2, Zenon
  <2> HIDE DEF V
  <2> QED
    BY <2>3 DEF V
<1>9. << >> \in P[0]
  <2>1. ListsUpTo(<< >>, 0, rows, 0)
    <3>1. OfRows(rows, 0) = {}
      BY DEF OfRows
    <3>2. << >> \in [1..0 -> OfRows(rows, 0)] /\ 1..0 = {}
      OBVIOUS
    <3> QED
      BY <3>1, <3>2 DEF ListsUpTo, WellOrdered
  <2>2. IsOf(<< >>, << >>, 0)
    BY DEF IsOf
  <2>3. << >> \in V /\ 0 \in Nat
    OBVIOUS
  <2> QED
    BY <2>1, <2>2, <2>3
<1>10. ASSUME NEW k \in 1..n, NEW v \in V, v \in P[k - 1]
       PROVE  step[<<v, rows[k]>>] \in P[k]
  <2>1. k - 1 \in Nat /\ k \in Nat /\ k - 1 + 1 = k /\ \A i \in 1..(k - 1) : i \in 1..n /\ i < k
    BY <1>2
  <2>2. PICK m \in Nat : \E order : ListsUpTo(order, m, rows, k - 1) /\ IsOf(v, order, m)
    BY <1>10, <2>1
  <2>3. PICK order : ListsUpTo(order, m, rows, k - 1) /\ IsOf(v, order, m)
    BY <2>2
  <2> DEFINE r == rows[k]
             columns == Ascending(DOMAIN matrix[r])
             w == Cardinality(DOMAIN matrix[r])
             u == SortedRow(r)
  <2>4. r \in DOMAIN matrix
    BY <1>2
  <2>5. /\ w \in Nat /\ columns \in [1..w -> DOMAIN matrix[r]] /\ Rises(columns, w)
        /\ \A x \in DOMAIN matrix[r] : \E j \in 1..w : columns[j] = x
        /\ u = [j \in 1..w |-> written[<<r, columns[j]>>]] /\ u \in V
    BY <1>5, <2>4
  <2>6. step[<<v, r>>] = v \o u
    BY <2>4
  <2>7. \A i \in 1..(k - 1) : rows[i] \in Nat /\ rows[i] < r
    BY <1>1, <1>2, <2>1 DEF Rises
  <2> HIDE DEF rows, n, u, columns, w
  <2>8. columns \in [1..w -> Nat] /\ rows[k] \in Nat
    BY <1>1, <2>4, <2>5
  <2>9. \A j \in 1..w : <<rows[k], columns[j]>> \in WrittenCells
    BY <1>4, <2>4, <2>5
  <2>10. \A cell \in WrittenCells : cell[1] = rows[k] => \E j \in 1..w : columns[j] = cell[2]
    BY <1>3, <2>5
  <2>11. \E next : ListsUpTo(next, m + w, rows, k) /\ IsOf(v \o u, next, m + w)
    <3> DEFINE l == k - 1
    <3>1. l \in Nat /\ l + 1 = k
      BY <2>1
    <3>2. /\ ListsUpTo(order, m, rows, l) /\ rows[l + 1] \in Nat
          /\ \A i \in 1..l : rows[i] \in Nat /\ rows[i] < rows[l + 1]
          /\ \A j \in 1..w : <<rows[l + 1], columns[j]>> \in WrittenCells
          /\ \A cell \in WrittenCells : cell[1] = rows[l + 1] => \E j \in 1..w : columns[j] = cell[2]
          /\ u = [j \in 1..w |-> written[<<rows[l + 1], columns[j]>>]]
      BY <2>3, <2>5, <2>7, <2>8, <2>9, <2>10, <3>1
    <3>3. \A cell \in WrittenCells : cell = <<cell[1], cell[2]>> /\ cell[1] \in Nat /\ cell[2] \in Nat
      BY <1>3
    <3>4. v \in Seq(Held) /\ u \in Seq(Held) /\ w \in Nat
      BY <2>5
    <3> HIDE DEF l
    <3>5. \E next : ListsUpTo(next, m + w, rows, l + 1) /\ IsOf(v \o u, next, m + w)
      <4>1. IsOf(v, order, m) /\ columns \in [1..w -> Nat] /\ Rises(columns, w)
        BY <2>3, <2>5, <2>8
      <4> QED
        BY <3>1, <3>2, <3>3, <3>4, <4>1, OneMoreRow, ZenonT(30)
    <3> QED
      BY <3>1, <3>5
  <2>12. v \o u \in V /\ m + w \in Nat
    BY <2>5
  <2>13. v \o u \in {x \in V : \E q \in Nat : \E next : ListsUpTo(next, q, rows, k) /\ IsOf(x, next, q)}
    BY <2>11, <2>12, Zenon
  <2>14. P[k] = {x \in V : \E q \in Nat : \E next : ListsUpTo(next, q, rows, k) /\ IsOf(x, next, q)}
    BY <2>1
  <2> QED
    BY <2>6, <2>13, <2>14
<1>11. Sorted \in P[n]
  <2> HIDE DEF rows, n, step, P, V
  <2> QED
    BY <1>6, <1>7, <1>8, <1>9, <1>10, FoldedInduction
<1>12. PICK m \in Nat : \E order : ListsUpTo(order, m, rows, n) /\ IsOf(Sorted, order, m)
  BY <1>2, <1>11
<1>13. PICK order : ListsUpTo(order, m, rows, n) /\ IsOf(Sorted, order, m)
  BY <1>12
<1>14. OfRows(rows, n) = WrittenCells
  <2> HIDE DEF rows, n
  <2> QED
    BY <1>2, <1>3 DEF OfRows
<1>15. /\ order \in [1..m -> WrittenCells] /\ WellOrdered(order, m)
       /\ \A cell \in WrittenCells : \E i \in 1..m : order[i] = cell
  BY <1>13, <1>14, Zenon DEF ListsUpTo
<1>16. \A i, j \in 1..m : order[i] = order[j] => i = j
  <2> SUFFICES ASSUME NEW i \in 1..m, NEW j \in 1..m, order[i] = order[j], i # j PROVE FALSE
    OBVIOUS
  <2>1. i < j \/ j < i
    OBVIOUS
  <2>2. Before(order[i], order[i])
    BY <1>15, <2>1 DEF WellOrdered
  <2>3. order[i][1] \in Nat /\ order[i][2] \in Nat
    BY <1>3, <1>15
  <2> QED
    BY <2>2, <2>3 DEF Before
<1>17. Cardinality(WrittenCells) = m
  <2>1. order \in Bijection(1..m, WrittenCells)
    BY <1>15, <1>16 DEF Bijection, Injection, Surjection, IsInjective
  <2> QED
    BY <2>1, FS_CountingElements DEF ExistsBijection
<1>18. Sorted = [i \in 1..m |-> written[order[i]]] /\ DOMAIN order = 1..m
  BY <1>13, <1>15 DEF IsOf
<1> QED
  BY <1>15, <1>17, <1>18 DEF SortedAsWritten, WellOrdered

(* Whatever the numbers and values, a Matrix and a ConcurrentMatrix hold what *)
(* was written and not erased, count it, and a Matrix sorts it (Matrix,       *)
(* ConcurrentMatrix: insert, del, get, sortAndCleanMatrix).                   *)
THEOREM MatrixHolds == MatrixSpec => []HoldsWhatIsWritten
<1>1. MatrixIInv /\ MatrixTypeOK => HoldsWhatIsWritten
  <2> SUFFICES ASSUME MatrixIInv, MatrixTypeOK PROVE HoldsWhatIsWritten
    OBVIOUS
  <2>1. \A r \in RowIds, c \in ColumnIds : <<r, c>> \in WrittenCells <=> HasCell(r, c)
    BY DEF MatrixIInv, CellsAreWritten, CellIsWritten, WrittenCells, Cells
  <2>2. \A cell \in Cells : cell = <<cell[1], cell[2]>> /\ cell[1] \in RowIds /\ cell[2] \in ColumnIds
    BY DEF Cells
  <2>3. ASSUME NEW cell \in Cells
        PROVE  Get(cell[1], cell[2]) = (IF cell \in WrittenCells THEN Decoded(written[cell]) ELSE "")
    <3>1. CellIsWritten(cell[1], cell[2]) /\ (cell \in WrittenCells <=> HasCell(cell[1], cell[2]))
      BY <2>1, <2>2 DEF MatrixIInv, CellsAreWritten
    <3>2. <<cell[1], cell[2]>> = cell
      BY <2>2
    <3> QED
      BY <3>1, <3>2 DEF Get, HasCell, CellIsWritten
  <2>4. ASSUME NEW row \in RowIds
        PROVE  Count(row) = Cardinality({cell \in WrittenCells : cell[1] = row})
    <3> DEFINE ofRow == {cell \in WrittenCells : cell[1] = row}
    <3>1. \A cell \in ofRow : cell \in Cells /\ cell = <<row, cell[2]>> /\ HasCell(row, cell[2])
      BY <2>1, <2>2 DEF WrittenCells
    <3>2. CASE row \in DOMAIN matrix
      <4> DEFINE columns == DOMAIN matrix[row]
                 f == [c \in columns |-> <<row, c>>]
      <4>1. IsFiniteSet(columns) /\ columns \subseteq ColumnIds
        BY <3>2, MatrixAssumption, FS_Subset DEF MatrixIInv, RowsAreThere
      <4>2. \A c \in columns : <<row, c>> \in ofRow
        BY <2>1, <3>2, <4>1 DEF HasCell
      <4>3. f \in [columns -> ofRow]
        BY <4>2
      <4>4. \A a, b \in columns : f[a] = f[b] => a = b
        OBVIOUS
      <4>5. \A cell \in ofRow : cell[2] \in columns /\ f[cell[2]] = cell
        BY <3>1 DEF HasCell
      <4> HIDE DEF f, columns, ofRow
      <4>6. f \in Bijection(columns, ofRow)
        BY <4>3, <4>4, <4>5 DEF Bijection, Injection, Surjection, IsInjective
      <4>7. Cardinality(ofRow) = Cardinality(columns)
        BY <4>1, <4>6, FS_Bijection DEF ExistsBijection
      <4> QED
        BY <3>2, <4>7 DEF Count, columns, ofRow
    <3>3. CASE row \notin DOMAIN matrix
      <4>1. ofRow = {}
        BY <3>1, <3>3 DEF HasCell
      <4> QED
        BY <3>3, <4>1, FS_EmptySet DEF Count
    <3> QED
      BY <3>2, <3>3
  <2>5. Empty <=> WrittenCells = {}
    <3>1. ASSUME ~Empty PROVE WrittenCells # {}
      <4>1. PICK r \in DOMAIN matrix : DOMAIN matrix[r] # {}
        BY <3>1 DEF Empty, MatrixIInv, RowsAreThere
      <4>2. PICK c \in DOMAIN matrix[r] : TRUE
        BY <4>1
      <4>3. r \in RowIds /\ c \in ColumnIds /\ HasCell(r, c)
        BY <4>1, <4>2 DEF MatrixIInv, RowsAreThere, HasCell
      <4> QED
        BY <2>1, <4>3
    <3>2. ASSUME WrittenCells # {} PROVE ~Empty
      <4>1. PICK cell \in Cells : cell \in WrittenCells
        BY <3>2 DEF WrittenCells
      <4> QED
        BY <2>1, <2>2, <4>1 DEF HasCell, Empty
    <3> QED
      BY <3>1, <3>2
  <2>6. ~concurrent => SortedAsWritten
    <3>1. MatrixOthers
      BY DEF MatrixTypeOK, MatrixOthers, Held, Range
    <3> QED
      BY <3>1, MatrixIsSorted
  <2> QED
    BY <2>3, <2>4, <2>5, <2>6 DEF HoldsWhatIsWritten
<1> QED
  BY <1>1, MatrixInductive, MatrixTyped, PTL

-----------------------------------------------------------------------------
(* The listeners of control requests over HTTP. *)

(* A connection that is over leaves no batch. *)
LEMMA OverIsNothing ==
  ASSUME Over
  PROVE  (wire' = "none" <=> batch' = <<>>) /\ wire' = "none" /\ batch' \in Seq(Members) /\ messages' \in Seq(Answers)
         /\ Len(messages') <= Len(batch')
BY DEF Over

(* The variables that few steps change. *)
ListenRest ==
  /\ request \in [Members -> {"subscription", "force_rebind", "none"}] /\ asked \in [Members -> 0..MaxPhase]
  /\ aborted \subseteq Members
  /\ sessionPhase \in 0..MaxPhase /\ switches \in 0..MaxSwitches
ListenWire ==
  /\ queue \in Seq(Members) /\ batch \in Seq(Members)
  /\ (wire = "none" <=> batch = <<>>) /\ wire \in {"none", "connecting", "open"}
  /\ messages \in Seq(Answers) /\ Len(messages) <= Len(batch)
ListenMembers ==
  /\ opened \in [Members -> BOOLEAN] /\ timer \in [Members -> BOOLEAN] /\ discarded \in [Members -> BOOLEAN]
  /\ heard \in [Members -> Answers \cup {"nothing"}] /\ again \in [Members -> {"no", "timeout", "unopened"}]
ListenManager == manager \in {"IDLE", "WAITING", "ENDING", "END"} /\ sessionOpen \in BOOLEAN
(* Together they are the types. *)
LEMMA ListenParts == ListenTypeOK <=> ListenRest /\ ListenWire /\ ListenMembers /\ ListenManager
BY Zenon DEF ListenTypeOK, ListenRest, ListenWire, ListenMembers, ListenManager

(* Whatever the requests and how their batches end: the variables have their  *)
(* types, a batch is on the wire as long as its connection is there, and never *)
(* has more answers than requests.                                           *)
THEOREM ListenersTyped == ListenInit /\ [][ListenNext]_listenVars => []ListenTypeOK
<1>1. ListenInit => ListenTypeOK
  <2> SUFFICES ASSUME ListenInit PROVE ListenTypeOK
    OBVIOUS
  <2>1. [i \in Members |-> i] \in Seq(Members)
    BY ListenersAssumption DEF Members
  <2>2. queue \in Seq(Members)
    BY <2>1, KeptIsKept DEF ListenInit
  <2>3. ListenWire
    BY <2>2 DEF ListenInit, ListenWire
  <2>4. ListenMembers
    BY DEF ListenInit, ListenMembers
  <2>5. ListenManager
    BY DEF ListenInit, ListenManager
  <2>6. ListenRest
    BY ListenersAssumption DEF ListenInit, ListenRest
  <2> QED
    BY <2>3, <2>4, <2>5, <2>6, ListenParts
<1>2. ListenTypeOK /\ [ListenNext]_listenVars => ListenTypeOK'
  <2> SUFFICES ASSUME ListenTypeOK, [ListenNext]_listenVars PROVE ListenTypeOK'
    OBVIOUS
  <2> SUFFICES ListenRest' /\ ListenWire' /\ ListenMembers' /\ ListenManager'
    BY ListenParts, Zenon DEF ListenTypeOK, ListenRest, ListenWire, ListenMembers, ListenManager
  <2>0. ListenRest /\ ListenWire /\ ListenMembers /\ ListenManager
    BY ListenParts
  <2>1. CASE SendBatch
    <3>1. UNCHANGED <<request, asked, opened, heard, timer, discarded, again, sessionOpen, sessionPhase, switches>>
      BY <2>1 DEF SendBatch, ofMembers
    <3>2. aborted' \subseteq Members
      <4>1. ToSet(queue) \subseteq Members
        BY <2>0, ToSetFinite DEF ListenWire
      <4> QED
        BY <2>0, <2>1, <4>1 DEF SendBatch, ListenRest
    <3>3. batch' \in Seq(Members)
      BY <2>0, <2>1, KeptIsKept DEF SendBatch, ListenWire
    <3>4. ListenWire'
      <4>1. /\ queue' = << >> /\ messages' = << >>
            /\ wire' = (IF batch' = <<>> THEN "none" ELSE "connecting")
        BY <2>1 DEF SendBatch
      <4> QED
        BY <3>3, <4>1 DEF ListenWire
    <3>5. manager' \in {"IDLE", "WAITING"}
      BY <2>1 DEF SendBatch
    <3> QED
      BY <2>0, <3>1, <3>2, <3>4, <3>5 DEF ListenRest, ListenMembers, ListenManager
  <2>2. CASE BatchOpens
    <3>1. /\ UNCHANGED <<request, asked, queue, batch, manager, messages, heard, discarded, again, aborted, sessionOpen, sessionPhase, switches>>
          /\ wire = "connecting" /\ wire' = "open"
      BY <2>2 DEF BatchOpens
    <3>2. opened' \in [Members -> BOOLEAN] /\ timer' \in [Members -> BOOLEAN]
      <4>1. CASE manager = "END"
        BY <2>0, <2>2, <4>1 DEF BatchOpens, ListenMembers
      <4>2. CASE manager # "END"
        <5>1. /\ opened' = [i \in Members |-> opened[i] \/ Contains(batch, i)]
              /\ timer' = [i \in Members |-> timer[i] \/ Contains(batch, i)]
          BY <2>2, <4>2 DEF BatchOpens
        <5> QED
          BY <5>1
      <4> QED
        BY <4>1, <4>2
    <3>3. ListenWire'
      BY <2>0, <3>1 DEF ListenWire
    <3> QED
      BY <2>0, <3>1, <3>2, <3>3 DEF ListenRest, ListenMembers, ListenManager
  <2>3. CASE \E answer \in Answers : BatchMessage(answer)
    <3>1. PICK answer \in Answers : BatchMessage(answer)
      BY <2>3
    <3>2. /\ UNCHANGED <<request, asked, queue, batch, wire, manager, opened, heard, timer, discarded, again, aborted, sessionOpen, sessionPhase, switches>>
          /\ Len(messages) < Len(batch) /\ messages' = Append(messages, answer)
      BY <3>1 DEF BatchMessage, ofMembers, ofTutors
    <3>3. messages' \in Seq(Answers) /\ Len(messages') <= Len(batch)
      BY <2>0, <3>2 DEF ListenWire
    <3>4. ListenWire'
      BY <2>0, <3>2, <3>3, Zenon DEF ListenWire
    <3> QED
      BY <2>0, <3>2, <3>4, Zenon DEF ListenRest, ListenMembers, ListenManager
  <2>4. CASE BatchClosed
    <3>1. UNCHANGED <<request, asked, queue, opened, timer, aborted, sessionPhase, switches>> /\ Over
      BY <2>4 DEF BatchClosed
    <3>2. ListenWire'
      BY <2>0, <3>1, OverIsNothing, Zenon DEF ListenWire
    <3> DEFINE HearsOf(i) == i \in Told(TRUE) /\ opened[i] /\ AnswerOf(i) # "nothing"
               closes == \E i \in Members : HearsOf(i) /\ ClosesSession(AnswerOf(i))
    <3>3. /\ heard' = [i \in Members |-> IF HearsOf(i) /\ SubscriptionHears(i, AnswerOf(i)) THEN AnswerOf(i) ELSE heard[i]]
          /\ discarded' = [i \in Members |-> discarded[i] \/ (HearsOf(i) /\ ForceRebindDiscards(i, AnswerOf(i)))]
          /\ again' = [i \in Members |-> IF Recovers(i, TRUE) THEN "unopened" ELSE again[i]]
          /\ sessionOpen' = (sessionOpen /\ ~closes)
          /\ manager' = (IF closes THEN "END" ELSE AfterEnd)
      BY <2>4 DEF BatchClosed
    <3> HIDE DEF HearsOf, closes
    <3>4. heard' \in [Members -> Answers \cup {"nothing"}]
      <4>1. ASSUME NEW i \in Members PROVE (IF HearsOf(i) /\ SubscriptionHears(i, AnswerOf(i)) THEN AnswerOf(i) ELSE heard[i]) \in Answers \cup {"nothing"}
        BY <2>0 DEF ListenMembers, SubscriptionHears, Answers
      <4> QED
        BY <3>3, <4>1
    <3>5. discarded' \in [Members -> BOOLEAN]
      BY <3>3
    <3>6. again' \in [Members -> {"no", "timeout", "unopened"}]
      BY <2>0, <3>3 DEF ListenMembers
    <3>7. ListenManager'
      <4>1. sessionOpen' \in BOOLEAN
        BY <3>3
      <4>2. manager' \in {"IDLE", "END"}
        BY <3>3 DEF AfterEnd
      <4> QED
        BY <4>1, <4>2 DEF ListenManager
    <3>8. ListenMembers'
      BY <2>0, <3>1, <3>4, <3>5, <3>6 DEF ListenMembers
    <3> QED
      BY <2>0, <3>1, <3>2, <3>7, <3>8 DEF ListenRest
  <2>5. CASE BatchBroken
    <3>1. UNCHANGED <<request, asked, queue, sessionOpen, opened, heard, timer, discarded, aborted, sessionPhase, switches>> /\ Over
      BY <2>5 DEF BatchBroken
    <3>2. ListenWire'
      BY <2>0, <3>1, OverIsNothing, Zenon DEF ListenWire
    <3>3. again' \in [Members -> {"no", "timeout", "unopened"}]
      BY <2>0, <2>5 DEF BatchBroken, ListenMembers
    <3>4. manager' \in {"IDLE", "END"}
      BY <2>5 DEF BatchBroken, AfterEnd
    <3> QED
      BY <2>0, <3>1, <3>2, <3>3, <3>4 DEF ListenRest, ListenMembers, ListenManager
  <2>6. CASE EndUnheard
    <3>1. UNCHANGED <<request, asked, queue, manager, opened, heard, timer, discarded, again, aborted, sessionOpen, sessionPhase, switches>> /\ Over
      BY <2>6 DEF EndUnheard, ofMembers, ofTutors
    <3>2. ListenWire'
      BY <2>0, <3>1, OverIsNothing, Zenon DEF ListenWire
    <3> QED
      BY <2>0, <3>1, <3>2 DEF ListenRest, ListenMembers, ListenManager
  <2>7. CASE ListenerTimeouts
    <3>1. PICK i \in Members : ListenerTimeout(i)
      BY <2>7 DEF ListenerTimeouts
    <3>2. /\ UNCHANGED <<request, asked, queue, batch, wire, manager, messages, opened, heard, discarded, aborted, sessionOpen, sessionPhase, switches>>
          /\ timer' = [timer EXCEPT ![i] = FALSE]
          /\ again' = [again EXCEPT ![i] = IF discarded[i] \/ VerifyRequest(i) \/ ~sessionOpen THEN @ ELSE "timeout"]
      BY <3>1 DEF ListenerTimeout, ofMembers
    <3>3. timer' \in [Members -> BOOLEAN] /\ again' \in [Members -> {"no", "timeout", "unopened"}]
      BY <2>0, <3>2 DEF ListenMembers
    <3>4. ListenWire'
      BY <2>0, <3>2, Zenon DEF ListenWire
    <3> QED
      BY <2>0, <3>2, <3>3, <3>4, Zenon DEF ListenRest, ListenMembers, ListenManager
  <2>8. CASE ChangePhase
    <3>1. /\ UNCHANGED <<request, asked, queue, batch, wire, manager, messages, opened, heard, timer, discarded, again, aborted, sessionOpen, switches>>
          /\ sessionPhase < MaxPhase /\ sessionPhase' = sessionPhase + 1
      BY <2>8 DEF ChangePhase, ofMembers, ofTutors
    <3>2. sessionPhase' \in 0..MaxPhase
      BY <2>0, <3>1, ListenersAssumption DEF ListenRest
    <3> QED
      BY <2>0, <3>1, <3>2, Zenon DEF ListenRest, ListenMembers, ListenManager, ListenWire
  <2>9. CASE \E waitPending \in BOOLEAN : StopProtocol(waitPending)
    <3>1. /\ UNCHANGED <<request, asked, queue, batch, wire, messages, opened, heard, timer, discarded, again, aborted, sessionPhase, switches>>
          /\ sessionOpen' = FALSE
      BY <2>9 DEF StopProtocol, ofMembers, ofTutors
    <3>2. manager' \in {"ENDING", "END"}
      BY <2>9 DEF StopProtocol
    <3>3. ListenManager'
      BY <3>1, <3>2 DEF ListenManager
    <3> QED
      BY <2>0, <3>1, <3>3, Zenon DEF ListenRest, ListenMembers, ListenWire
  <2>10. CASE HandOver
    <3>1. /\ UNCHANGED <<request, asked, opened, heard, timer, discarded, again, aborted, sessionOpen, sessionPhase>>
          /\ switches < MaxSwitches /\ switches' = switches + 1 /\ queue' = batch \o queue /\ Over /\ manager' = "IDLE"
      BY <2>10 DEF HandOver, ofMembers, ofTutors
    <3>2. switches' \in 0..MaxSwitches
      BY <2>0, <3>1, ListenersAssumption DEF ListenRest
    <3>3. queue' \in Seq(Members)
      BY <2>0, <3>1 DEF ListenWire
    <3>4. ListenWire'
      BY <3>1, <3>3, OverIsNothing, Zenon DEF ListenWire
    <3>5. ListenManager'
      BY <2>0, <3>1 DEF ListenManager
    <3> QED
      BY <2>0, <3>1, <3>2, <3>4, <3>5, Zenon DEF ListenRest, ListenMembers
  <2>11. CASE UNCHANGED listenVars
    BY <2>0, <2>11, Zenon DEF listenVars, ofMembers, ofTutors, ListenRest, ListenWire, ListenMembers, ListenManager
  <2> QED
    BY <2>1, <2>2, <2>3, <2>4, <2>5, <2>6, <2>7, <2>8, <2>9, <2>10, <2>11 DEF ListenNext
<1> QED
  BY <1>1, <1>2, PTL

-----------------------------------------------------------------------------
(* The protocol as a whole. *)

(* The requests of a WebSocket. *)
LEMMA WsPart == Spec => WsSpec
<1>1. Init => WsInit
  BY DEF Init
<1>2. [Next]_vars => [WsNext]_wsVars
  BY DEF Next, vars
<1> QED
  BY <1>1, <1>2, PTL DEF Spec, WsSpec

(* The heartbeats. *)
LEMMA TimerPart == Spec => TimerSpec
<1>1. Init => TimerInit
  BY DEF Init
<1>2. [Next]_vars => [TimerNext]_timerVars
  BY DEF Next, vars
<1> QED
  BY <1>1, <1>2, PTL DEF Spec, TimerSpec

(* The stream connections. *)
LEMMA ConnectionsPart == Spec => ConnectionsSpec
<1>1. Init => ConnectionsInit
  BY DEF Init
<1>2. [Next]_vars => [ConnectionsNext]_connectionsVars
  BY DEF Next, vars
<1> QED
  BY <1>1, <1>2, PTL DEF Spec, ConnectionsSpec

(* The channels of WebSockets. *)
LEMMA PoolPart == Spec => PoolSpec
<1>1. Init => PoolInit
  BY DEF Init
<1>2. [Next]_vars => [PoolNext]_poolVars
  BY DEF Next, vars
<1> QED
  BY <1>1, <1>2, PTL DEF Spec, PoolSpec

(* The threads that work on queues. *)
LEMMA WorkerPart == Spec => WorkerInit /\ [][WorkerNext]_workerVars
<1>1. Init => WorkerInit
  BY DEF Init
<1>2. [Next]_vars => [WorkerNext]_workerVars
  BY DEF Next, vars
<1> QED
  BY <1>1, <1>2, PTL DEF Spec

(* The configuration of a subscription. *)
LEMMA SettingsPart == Spec => SettingsSpec
<1>1. Init => SettingsInit
  BY DEF Init
<1>2. [Next]_vars => [SettingsNext]_settingsVars
  BY DEF Next, vars
<1> QED
  BY <1>1, <1>2, PTL DEF Spec, SettingsSpec

(* Its items. *)
LEMMA DataPart == Spec => DataSpec
<1>1. Init => DataInit
  BY DEF Init
<1>2. [Next]_vars => [DataNext]_dataVars
  BY DEF Next, vars
<1> QED
  BY <1>1, <1>2, PTL DEF Spec, DataSpec

(* Its fields. *)
LEMMA FieldsPart == Spec => FieldsSpec
<1>1. Init => FieldsInit
  BY DEF Init
<1>2. [Next]_vars => [FieldsNext]_fieldsVars
  BY DEF Next, vars
<1> QED
  BY <1>1, <1>2, PTL DEF Spec, FieldsSpec

(* The matrices. *)
LEMMA MatrixPart == Spec => MatrixSpec
<1>1. Init => MatrixInit
  BY DEF Init
<1>2. [Next]_vars => [MatrixNext]_matrixVars
  BY DEF Next, vars
<1> QED
  BY <1>1, <1>2, PTL DEF Spec, MatrixSpec

(* The pace of retries. *)
LEMMA PacePart == Spec => PaceSpec
<1>1. Init => PaceInit
  BY DEF Init
<1>2. [Next]_vars => [PaceNext]_paceVars
  BY DEF Next, vars
<1> QED
  BY <1>1, <1>2, PTL DEF Spec, PaceSpec

(* Its second level. *)
LEMMA TablesPart == Spec => TablesSpec
<1>1. Init => TablesInit
  BY DEF Init
<1>2. [Next]_vars => [TablesNext]_tablesVars
  BY DEF Next, vars
<1> QED
  BY <1>1, <1>2, PTL DEF Spec, TablesSpec

(* The server that requests go to. *)
LEMMA AddressPart == Spec => AddressSpec
<1>1. Init => AddressInit
  BY DEF Init
<1>2. [Next]_vars => [AddressNext]_addressVars
  BY DEF Next, vars
<1> QED
  BY <1>1, <1>2, PTL DEF Spec, AddressSpec

(* What is late in the stream. *)
LEMMA SlowingPart == Spec => SlowingSpec
<1>1. Init => SlowingInit
  BY DEF Init
<1>2. [Next]_vars => [SlowingNext]_slowingVars
  BY DEF Next, vars
<1> QED
  BY <1>1, <1>2, PTL DEF Spec, SlowingSpec

(* The messages of the stream. *)
LEMMA StreamPart == Spec => StreamSpec
<1>1. Init => StreamInit
  BY DEF Init
<1>2. [Next]_vars => [StreamNext]_streamVars
  BY DEF Next, vars
<1> QED
  BY <1>1, <1>2, PTL DEF Spec, StreamSpec

(* The requests that change something. *)
LEMMA ChangePart == Spec => ChangeInit /\ [][ChangeNext]_changeVars
<1>1. Init => ChangeInit
  BY DEF Init
<1>2. [Next]_vars => [ChangeNext]_changeVars
  BY DEF Next, vars
<1> QED
  BY <1>1, <1>2, PTL DEF Spec

(* The listeners of control requests over HTTP. *)
LEMMA BatchPart == Spec => ListenInit /\ [][ListenNext]_listenVars
<1>1. Init => ListenInit
  BY DEF Init
<1>2. [Next]_vars => [ListenNext]_listenVars
  BY DEF Next, vars
<1> QED
  BY <1>1, <1>2, PTL DEF Spec

(* The futures. *)
LEMMA FuturePart == Spec => ListenableFutureSpec
<1>1. Init => ListenableFutureInit
  BY DEF Init
<1>2. [Next]_vars => [ListenableFutureNext]_listenableFutureVars
  BY DEF Next, vars
<1> QED
  BY <1>1, <1>2, PTL DEF Spec, ListenableFutureSpec

(* Whatever part is under way, a channel is in one place and a listener is    *)
(* told once. *)
THEOREM NothingIsTwice == Spec => []NothingTwice
<1>1. OnePlace /\ ToldOnce => NothingTwice
  BY DEF NothingTwice
<1> QED
  BY <1>1, PoolPart, FuturePart, ChannelsInOnePlace, ListenersAreToldOnce, PTL

(* The protocol's parts together: the highest frequency of a subscription's
   second level is told (Subscription: onLocalFrequencyChanged). *)
THEOREM SecondLevelIsTold == Spec => []HighestIsTold
BY TablesPart, HighestIsKnown, PTL

(* Heartbeats are sent in time, whatever the intervals (ReverseHeartbeatTimer). *)
THEOREM InTime == Spec => []HeartbeatInTime
BY TimerPart, HeartbeatsAreInTime, PTL

(* The requests of a session go to one server (Session: getPushServerAddress,
   onSessionBound). *)
THEOREM OneServer == Spec => []OneServerPerSession
BY AddressPart, SessionHasOneServer, PTL

(* The manager of a WebSocket is a channel of control requests
   (WebSocketRequestManager implements ControlChannel). *)
THEOREM ChannelIsImplemented == Spec => ImplementsChannel
BY WsPart, ManagerIsAChannel, PTL

(* The threads that work on queues are a queue of tasks (CSJoinableExecutor and
   the others implement TaskQueue). *)
THEOREM QueueIsImplemented == Spec => ImplementsQueue
BY WorkerPart, ThreadsAreAQueue, PTL

(* Only the race of two changes of the interval makes a second task
   (ReverseHeartbeatTimer: setMaxIntervalMs). *)
THEOREM RaceAddsTasks == Spec => SecondTaskByRace
BY TimerPart, OnlyTheRaceAddsTasks, PTL

(* Attempts are as far apart as their delays (RetryDelayCounter: increase;
   Session: calculateRetryDelay). *)
THEOREM Paced == Spec => AttemptsArePaced
BY PacePart, RetriesArePaced, PTL

(* What a subscription tells of its configuration, items, fields and values is
   so, whatever its parts do (Subscription, SnapshotManager, Matrix). *)
THEOREM SubscriptionTellsTheTruth == Spec => []SubscriptionIsAsTold
<1>1. GettersTellTheRequest /\ ItemsAsSent /\ NamesReadAsSent /\ HoldsWhatIsWritten => SubscriptionIsAsTold
  BY Zenon DEF SubscriptionIsAsTold
<1> QED
  BY <1>1, SettingsPart, DataPart, FieldsPart, MatrixPart, RequestIsAsTold, ItemsReadAsSent, NamesAreRead, MatrixHolds, PTL

(* What the stream brings is told once, in order, from the newest connection,
   and slow only as measured (TextProtocol, SlowingHandler). *)
THEOREM StreamIsHeardOnce == Spec => []StreamIsHeard
<1>1. PassedOnceInOrder /\ HearsTheNewest /\ SlowIsMeasured => StreamIsHeard
  BY DEF StreamIsHeard
<1> QED
  BY <1>1, StreamPart, ConnectionsPart, SlowingPart, NotesArePassedOnce, NewestIsHeard, StreamIsSlowAsMeasured, PTL

(* The server never goes back to an older frequency or bandwidth
   (SubscriptionManager: changeFrequency; Session: sendConstrain). *)
THEOREM NeverAnOlderValue == Spec => NoOldValue
BY ChangePart, NeverAnOldValue, PTL

(* One part is under way, and stays so. *)
OnePart ==
  part \in {"socket", "timer", "change", "batch", "connections", "stream", "pool", "worker", "settings", "items",
            "fields", "matrix", "pace", "tables", "address", "slowing", "future"}

(* Whatever part is under way, its variables have their types. *)
THEOREM PartsAreTyped == Spec => []TypeOK
<1>1. Spec => []WsTypeOK
  BY WsPart, WsTyped, PTL
<1>2. Spec => []TimerTypeOK
  BY TimerPart, TimerTyped, PTL
<1>3. Spec => []ChangeTypeOK
  BY ChangePart, ChangeTyped, PTL
<1>4. Spec => []ListenTypeOK
  BY BatchPart, ListenersTyped, PTL
<1>5. Spec => []ConnectionsTypeOK
  BY ConnectionsPart, ConnectionsTyped, PTL
<1>6. Spec => []StreamTypeOK
  BY StreamPart, StreamTyped, PTL
<1>7. Spec => []PoolTypeOK
  BY PoolPart, PoolTyped, PTL
<1>8. Spec => []WorkerTypeOK
  BY WorkerPart, WorkerTyped, PTL
<1>9. Spec => []SettingsTypeOK
  BY SettingsPart, SettingsTyped, PTL
<1>10. Spec => []DataTypeOK
  BY DataPart, ItemsTyped, PTL
<1>11. Spec => []FieldsTypeOK
  BY FieldsPart, FieldsTyped, PTL
<1>12. Spec => []MatrixTypeOK
  BY MatrixPart, MatrixTyped, PTL
<1>13. Spec => []PaceTypeOK
  BY PacePart, PaceTyped, PTL
<1>14. Spec => []TablesTypeOK
  BY TablesPart, TablesTyped, PTL
<1>15. Spec => []AddressTypeOK
  BY AddressPart, AddressTyped, PTL
<1>16. Spec => []SlowingTypeOK
  BY SlowingPart, SlowingTyped, PTL
<1>17. Spec => []ListenableFutureTypeOK
  BY FuturePart, FutureTyped, PTL
<1>18. Spec => []OnePart
  <2>1. Init => OnePart
    BY DEF Init, OnePart
  <2>2. OnePart /\ [Next]_vars => OnePart'
    BY DEF OnePart, Next, vars
  <2> QED
    BY <2>1, <2>2, PTL DEF Spec
<1>19. OnePart /\ WsTypeOK /\ TimerTypeOK /\ ChangeTypeOK /\ ListenTypeOK /\ ConnectionsTypeOK /\ StreamTypeOK /\ PoolTypeOK /\ WorkerTypeOK /\ SettingsTypeOK /\ DataTypeOK /\ FieldsTypeOK /\ MatrixTypeOK /\ PaceTypeOK /\ TablesTypeOK /\ AddressTypeOK /\ SlowingTypeOK /\ ListenableFutureTypeOK => TypeOK
  BY Zenon DEF OnePart, TypeOK
<1> QED
  BY <1>1, <1>2, <1>3, <1>4, <1>5, <1>6, <1>7, <1>8, <1>9, <1>10, <1>11, <1>12, <1>13, <1>14, <1>15, <1>16, <1>17, <1>18, <1>19, PTL
==============================================================================
