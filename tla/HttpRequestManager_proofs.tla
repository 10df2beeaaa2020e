---------------------- MODULE HttpRequestManager_proofs ----------------------
(***************************************************************************)
(* For every set of requests, connections and limits: a manager has at most *)
(* one control connection, an idle one with requests is about to dequeue    *)
(* them, and its status tells what is on the wire.                          *)
(***************************************************************************)
EXTENDS HttpRequestManager, DataLemmas

(* The variables the argument is about keep their types, and an idle        *)
(* manager has no connection: it is the end of the only one that makes the  *)
(* manager idle, and whoever opens the next makes it wait.                  *)
Types ==
  /\ status \in {"IDLE", "WAITING", "ENDING", "END"}
  /\ DOMAIN batch = Connections
IdleIsClosed == status = "IDLE" => \A c \in Connections : ~Open(c)
IInv == Types /\ IdleIsClosed /\ OneConnection /\ NoLostWakeup

(* Whoever sends a batch leaves the manager waiting for the only connection, *)
(* provided that those not ending at that moment are closed.                 *)
LEMMA SendNextStep ==
  ASSUME NEW qs, NEW u, NEW k, NEW ended, NEW late,
         \A c \in Connections : Open(c) => c \in ended,
         SendNext(qs, u, k, ended, late)
  PROVE  IInv'
<1> DEFINE sent == Wanted(SubSeq(qs[Turn(Min(Turns(qs, u)))], 1,
                                 Taken(qs[Turn(Min(Turns(qs, u)))], u)), u)
<1>1. status' = "WAITING"
  BY DEF SendNext
<1>2. PICK c \in Connections :
        batch' = [d \in Connections |-> IF d = c THEN sent
                                        ELSE IF d \in ended THEN <<>> ELSE batch[d]]
  BY DEF SendNext
<1>3. \A d \in Connections : d # c => ~Open(d)'
  BY <1>2 DEF Open
<1>4. DOMAIN batch' = Connections
  BY <1>2
<1> QED
  BY <1>1, <1>3, <1>4 DEF IInv, Types, IdleIsClosed, OneConnection, NoLostWakeup

(* A step that leaves these variables alone keeps the invariant. *)
LEMMA QuietStep ==
  ASSUME IInv, UNCHANGED <<status, statusPhase, queues, deferredDequeue, batch>>
  PROVE  IInv'
BY DEF IInv, Types, IdleIsClosed, OneConnection, NoLostWakeup, Open

(* A step to ENDING or END that opens no connection keeps the invariant. *)
LEMMA DismissStep ==
  ASSUME IInv, status' \in {"ENDING", "END"}, DOMAIN batch' = Connections,
         \A c \in Connections : Open(c)' => Open(c)
  PROVE  IInv'
BY DEF IInv, Types, IdleIsClosed, OneConnection, NoLostWakeup

(* An added request is sent at once or waits for the end of a connection. *)
LEMMA AddRequestStep ==
  ASSUME IInv, NEW r \in Requests, AddRequest(r)
  PROVE  IInv'
<1> DEFINE added == [queues EXCEPT ![Kind[r]] = Put(@, <<r>>)]
<1>1. CASE DequeuesAtOnce
  <2>1. \A c \in Connections : Open(c) => c \in {}
    BY <1>1 DEF IInv, IdleIsClosed, DequeuesAtOnce
  <2>2. SendNext(added, unwanted \ {r}, 1, {}, <<>>)
    BY <1>1 DEF AddRequest
  <2> HIDE DEF added
  <2> QED
    BY <2>1, <2>2, SendNextStep
<1>2. CASE ~DequeuesAtOnce
  <2>1. status # "IDLE" /\ UNCHANGED <<status, batch>>
    BY <1>2 DEF AddRequest, DequeuesAtOnce, networkVars
  <2> QED
    BY <2>1 DEF IInv, Types, IdleIsClosed, OneConnection, NoLostWakeup, Open
<1> QED
  BY <1>1, <1>2

(* The deferred dequeue sends, or finds nothing, or comes too late; when it *)
(* comes too late the manager is not idle with requests, for then the phase *)
(* it captured would be the current one.                                    *)
LEMMA DeferredDequeueStep ==
  ASSUME IInv, DeferredDequeue
  PROVE  IInv'
<1>1. CASE deferredDequeue # statusPhase \/ status \in {"WAITING", "END"}
  <2>1. UNCHANGED <<status, queues, batch>>
    BY <1>1 DEF DeferredDequeue, managerVars, networkVars, IInv, Types
  <2> QED
    BY <1>1, <2>1 DEF IInv, Types, IdleIsClosed, OneConnection, NoLostWakeup, Open
<1>2. CASE deferredDequeue = statusPhase /\ status = "ENDING"
  <2>1. status' = "END" /\ batch' = batch
    BY <1>2 DEF DeferredDequeue, networkVars
  <2> QED
    BY <2>1, DismissStep DEF IInv, Types, Open
<1>3. CASE deferredDequeue = statusPhase /\ status = "IDLE" /\ Turns(queues, unwanted) # {}
  <2>1. SendNext(queues, unwanted, 1, {}, <<>>)
    BY <1>3 DEF DeferredDequeue
  <2>2. \A c \in Connections : Open(c) => c \in {}
    BY <1>3 DEF IInv, IdleIsClosed
  <2> QED
    BY <2>1, <2>2, SendNextStep
<1>4. CASE deferredDequeue = statusPhase /\ status = "IDLE" /\ Turns(queues, unwanted) = {}
  <2>1. UNCHANGED <<status, batch>> /\ queues' = [q \in Queues |-> <<>>]
    BY <1>4 DEF DeferredDequeue, networkVars
  <2> QED
    BY <1>4, <2>1 DEF IInv, Types, IdleIsClosed, OneConnection, NoLostWakeup, Open
<1> QED
  BY <1>1, <1>2, <1>3, <1>4 DEF IInv, Types

(* The end of the connection closes the only one there is.  A manager that   *)
(* is left idle has just queued a dequeue with its new phase.                *)
LEMMA ConnectionEndsStep ==
  ASSUME IInv, NEW c \in Connections, ConnectionEnds(c)
  PROVE  IInv'
<1>1. \A d \in Connections : Open(d) => d \in {c}
  BY DEF ConnectionEnds, IInv, OneConnection
<1>2. CASE Live /\ Recovered(c) # <<>>
  <2> DEFINE added == [queues EXCEPT ![Control] = Put(@, <<Head(Recovered(c))>>)]
             later == Tail(Recovered(c))
  <2>1. SendNext(added, unwanted, 2, {c}, later)
    BY <1>2 DEF ConnectionEnds, OnComplete
  <2> HIDE DEF added, later
  <2> QED
    BY <1>1, <2>1, SendNextStep
<1>3. CASE Live /\ Recovered(c) = <<>>
  <2>1. /\ status' = "IDLE"
        /\ deferredDequeue' = statusPhase'
        /\ batch' = [batch EXCEPT ![c] = <<>>]
    BY <1>3 DEF ConnectionEnds, OnComplete, CapturedPhase
  <2>2. DOMAIN batch' = Connections /\ \A d \in Connections : ~Open(d)'
    BY <1>1, <2>1 DEF IInv, Types, Open
  <2> QED
    BY <2>1, <2>2 DEF IInv, Types, IdleIsClosed, OneConnection, NoLostWakeup
<1>4. CASE ~Live
  <2>1. /\ status' \in {"ENDING", "END"}
        /\ batch' = [batch EXCEPT ![c] = <<>>]
    BY <1>4 DEF ConnectionEnds, Live, IInv, Types
  <2>2. DOMAIN batch' = Connections /\ \A d \in Connections : Open(d)' => Open(d)
    BY <2>1 DEF IInv, Types, Open
  <2> QED
    BY <2>1, <2>2, DismissStep
<1> QED
  BY <1>2, <1>3, <1>4

(* A close dismisses the manager, whatever it waits for. *)
LEMMA CloseStep ==
  ASSUME IInv, NEW waitPending \in BOOLEAN, DoClose(waitPending)
  PROVE  IInv'
<1>1. status' \in {"ENDING", "END"}
  BY DEF DoClose
<1>2. \/ batch' = batch
      \/ batch' = [c \in Connections |-> IF c \in Shut THEN <<>> ELSE batch[c]]
  BY DEF DoClose, networkVars
<1>3. DOMAIN batch' = Connections /\ \A c \in Connections : Open(c)' => Open(c)
  BY <1>2 DEF IInv, Types, Open
<1> QED
  BY <1>1, <1>3, DismissStep

(* IInv is inductive: it holds at first and every step keeps it. *)
THEOREM Inductive == Spec => []IInv
<1>1. Init => IInv
  BY DEF Init, IInv, Types, IdleIsClosed, OneConnection, NoLostWakeup, Open, Queues
<1>2. IInv /\ [Next]_vars => IInv'
  <2> SUFFICES ASSUME IInv, [Next]_vars PROVE IInv'
    OBVIOUS
  <2>1. CASE UNCHANGED vars
    BY <2>1, QuietStep DEF vars, managerVars, networkVars
  <2>2. ASSUME NEW r \in Requests, AddRequest(r) PROVE IInv'
    BY <2>2, AddRequestStep
  <2>3. ASSUME NEW r \in Requests, Lapse(r) PROVE IInv'
    BY <2>3, QuietStep DEF Lapse, managerVars, networkVars
  <2>4. CASE DeferredDequeue
    BY <2>4, DeferredDequeueStep
  <2>5. ASSUME NEW c \in Connections, OnOpen(c) PROVE IInv'
    BY <2>5, QuietStep DEF OnOpen, managerVars
  <2>6. ASSUME NEW c \in Connections, ConnectionEnds(c) PROVE IInv'
    BY <2>6, ConnectionEndsStep
  <2>7. ASSUME NEW limit \in Limits, SetRequestLimit(limit) PROVE IInv'
    BY <2>7, QuietStep DEF SetRequestLimit, managerVars, networkVars
  <2>8. ASSUME NEW waitPending \in BOOLEAN, Close(waitPending) PROVE IInv'
    BY <2>8, CloseStep DEF Close
  <2>9. CASE CopyTo
    BY <2>9, CloseStep DEF CopyTo
  <2> QED
    BY <2>1, <2>2, <2>3, <2>4, <2>5, <2>6, <2>7, <2>8, <2>9 DEF Next
<1> QED
  BY <1>1, <1>2, PTL DEF Spec

(* At most one control connection is open at any time. *)
THEOREM AtMostOneConnection == Spec => []OneConnection
<1>1. IInv => OneConnection
  BY DEF IInv
<1> QED
  BY <1>1, Inductive, PTL

(* No request is left in an idle manager without a dequeue to come. *)
THEOREM NoWakeupIsLost == Spec => []NoLostWakeup
<1>1. IInv => NoLostWakeup
  BY DEF IInv
<1> QED
  BY <1>1, Inductive, PTL
-----------------------------------------------------------------------------
(* Batches: what the operators on queues do to a batch of one kind.         *)

(* A batch of requests of one kind.                                          *)
BatchOf(q, x) == IsBatch(q) /\ \A i \in DOMAIN q : Kind[q[i]] = x

(* The requests of a batch that are in a set are a batch. *)
LEMMA KeptBatch ==
  ASSUME NEW x, NEW q, BatchOf(q, x), NEW S
  PROVE  BatchOf(Kept(q, S), x)
<1> DEFINE w == Kept(q, S)
<1>1. q \in Seq(Requests)
  BY DEF BatchOf, IsBatch
<1>2. /\ w \in Seq(Requests)
      /\ \A i \in 1..Len(w) : w[i] \in S /\ \E k \in 1..Len(q) : w[i] = q[k]
  BY <1>1, KeptElements DEF SameElements
<1>3. ASSUME NEW i \in 1..Len(w), NEW j \in 1..Len(w), i # j PROVE Key[w[i]] # Key[w[j]]
  <2>1. PICK k \in 1..Len(q), l \in 1..Len(q) : k # l /\ w[i] = q[k] /\ w[j] = q[l]
    BY <1>1, <1>3, KeptApart
  <2> QED
    BY <1>1, <2>1 DEF BatchOf, IsBatch
<1> HIDE DEF w
<1>4. \A i \in 1..Len(w) : Kind[w[i]] = x
  BY <1>1, <1>2 DEF BatchOf
<1>5. DOMAIN w = 1..Len(w)
  BY <1>2
<1>6. BatchOf(w, x)
  BY <1>2, <1>3, <1>4, <1>5 DEF BatchOf, IsBatch
<1> QED
  BY <1>6 DEF w

(* Wanted requests of a batch are a batch, empty when all are unwanted. *)
LEMMA WantedBatch ==
  ASSUME NEW x, NEW q, BatchOf(q, x), NEW u
  PROVE  /\ BatchOf(Wanted(q, u), x)
         /\ Wanted(q, u) = << >> <=> \A i \in DOMAIN q : q[i] \in u
<1>1. BatchOf(Wanted(q, u), x)
  BY KeptBatch DEF Wanted
<1>2. q \in Seq(Requests) /\ DOMAIN q = 1..Len(q) /\ \A i \in DOMAIN q : q[i] \in Requests
  BY DEF BatchOf, IsBatch
<1> DEFINE w == Wanted(q, u)
<1>3. /\ w \in Seq(Requests)
      /\ \A i \in 1..Len(w) : w[i] \in Requests \ u /\ \E k \in 1..Len(q) : w[i] = q[k]
      /\ \A k \in 1..Len(q) : q[k] \in Requests \ u => \E i \in 1..Len(w) : w[i] = q[k]
  <2>1. w \in Seq(Requests) /\ SameElements(w, q, Requests \ u)
    BY <1>2, KeptElements DEF Wanted
  <2> QED
    BY <2>1 DEF SameElements
<1>4. w = << >> <=> 1..Len(w) = {}
  BY <1>3
<1> HIDE DEF w
<1>5. ASSUME w = << >>, NEW k \in DOMAIN q PROVE q[k] \in u
  BY <1>2, <1>3, <1>4, <1>5
<1>6. ASSUME \A i \in DOMAIN q : q[i] \in u, w # << >> PROVE FALSE
  <2>1. PICK i \in 1..Len(w) : TRUE
    BY <1>4, <1>6
  <2>2. PICK k \in 1..Len(q) : w[i] = q[k]
    BY <1>3
  <2> QED
    BY <1>2, <1>3, <1>6, <2>2
<1> QED
  BY <1>1, <1>5, <1>6 DEF w

(* A piece of a batch is one. *)
LEMMA SubBatch ==
  ASSUME NEW x, NEW q, BatchOf(q, x), NEW m \in Nat \ {0}, NEW n \in 0..Len(q)
  PROVE  BatchOf(SubSeq(q, m, n), x)
<1>1. q \in Seq(Requests) /\ DOMAIN q = 1..Len(q)
  BY DEF BatchOf, IsBatch
<1> DEFINE w == SubSeq(q, m, n)
<1>2. /\ w \in Seq(Requests) /\ DOMAIN w = 1..Len(w)
      /\ \A i \in 1..Len(w) : i + (m - 1) \in 1..Len(q) /\ w[i] = q[i + (m - 1)]
  <2>1. n \in Nat /\ n <= Len(q)
    BY <1>1
  <2>2. CASE m <= n + 1
    <3>1. \A i \in m..n : q[i] \in Requests
      BY <1>1, <2>1
    <3>2. w \in Seq(Requests) /\ Len(w) = n - m + 1 /\ \A i \in 1..(n - m + 1) : w[i] = q[m + i - 1]
      BY <1>1, <2>1, <2>2, <3>1
    <3> QED
      BY <2>1, <3>2
  <2>3. CASE m > n + 1
    BY <1>1, <2>1, <2>3
  <2> QED
    BY <2>1, <2>2, <2>3
<1> HIDE DEF w
<1>3. \A i, j \in 1..Len(w) : Key[w[i]] = Key[w[j]] => i = j
  <2> TAKE i, j \in 1..Len(w)
  <2>1. i + (m - 1) \in DOMAIN q /\ j + (m - 1) \in DOMAIN q
    BY <1>1, <1>2
  <2>2. Key[w[i]] = Key[w[j]] => i + (m - 1) = j + (m - 1)
    BY <1>2, <2>1 DEF BatchOf, IsBatch
  <2>3. i \in Int /\ j \in Int /\ m \in Int
    OBVIOUS
  <2> QED
    BY <2>2, <2>3
<1>4. \A i \in 1..Len(w) : Kind[w[i]] = x
  BY <1>1, <1>2 DEF BatchOf
<1> QED
  BY <1>2, <1>3, <1>4 DEF BatchOf, IsBatch, w

(* Put leaves a batch of the kind, with all the keys it had and the requests's. *)
LEMMA PutBatch ==
  ASSUME NEW x, NEW q, BatchOf(q, x), NEW s, BatchOf(s, x)
  PROVE  BatchOf(Put(q, s), x)
<1> DEFINE A == [i \in DOMAIN q |-> IF \E r \in Range(s) : i \in SameKey(q, r)
                                    THEN CHOOSE r \in Range(s) : i \in SameKey(q, r)
                                    ELSE q[i]]
           B == Kept(s, {r \in Requests : SameKey(q, r) = {}})
<1>1. Put(q, s) = A \o B
  BY DEF Put
<1>2. q \in Seq(Requests) /\ DOMAIN q = 1..Len(q) /\ s \in Seq(Requests) /\ DOMAIN s = 1..Len(s)
  BY DEF BatchOf, IsBatch
<1>3. ASSUME NEW i \in DOMAIN q PROVE A[i] \in Requests /\ Key[A[i]] = Key[q[i]] /\ Kind[A[i]] = x
  <2>1. CASE \E r \in Range(s) : i \in SameKey(q, r)
    <3>1. A[i] \in Range(s) /\ i \in SameKey(q, A[i])
      BY <2>1
    <3>2. PICK k \in DOMAIN s : A[i] = s[k]
      BY <3>1 DEF Range
    <3> HIDE DEF A
    <3> QED
      BY <1>2, <3>1, <3>2 DEF SameKey, BatchOf
  <2>2. CASE ~ \E r \in Range(s) : i \in SameKey(q, r)
    <3>1. A[i] = q[i]
      BY <2>2
    <3> HIDE DEF A
    <3> QED
      BY <1>2, <3>1 DEF BatchOf
  <2> QED
    BY <2>1, <2>2
<1>4. A \in Seq(Requests) /\ Len(A) = Len(q) /\ DOMAIN A = 1..Len(q)
  <2>1. A = [i \in 1..Len(q) |-> A[i]] /\ \A i \in 1..Len(q) : A[i] \in Requests
    BY <1>2, <1>3
  <2> HIDE DEF A
  <2> QED
    BY <1>2, <2>1
<1>5. BatchOf(B, x)
  BY KeptBatch
<1>6. \A j \in 1..Len(B) : SameKey(q, B[j]) = {}
  <2>1. SameElements(B, s, {r \in Requests : SameKey(q, r) = {}})
    BY <1>2, KeptElements
  <2> QED
    BY <2>1 DEF SameElements
<1> HIDE DEF A, B
<1>7. B \in Seq(Requests) /\ DOMAIN B = 1..Len(B)
  BY <1>5 DEF BatchOf, IsBatch
<1> DEFINE p == A \o B
<1>8. /\ p \in Seq(Requests) /\ Len(p) = Len(q) + Len(B) /\ DOMAIN p = 1..Len(p)
      /\ \A i \in 1..Len(p) : p[i] = IF i <= Len(q) THEN A[i] ELSE B[i - Len(q)]
  BY <1>4, <1>7
<1> HIDE DEF p
<1>9. \A i \in 1..Len(p) : i \in 1..Len(q) \/ (i > Len(q) /\ i - Len(q) \in 1..Len(B))
  BY <1>2, <1>7, <1>8
<1>10. ASSUME NEW i \in 1..Len(p) PROVE Kind[p[i]] = x
  <2>1. CASE i \in 1..Len(q)
    BY <1>2, <1>3, <1>8, <2>1
  <2>2. CASE i > Len(q) /\ i - Len(q) \in 1..Len(B)
    <3>1. p[i] = B[i - Len(q)]
      BY <1>2, <1>8, <2>2
    <3> QED
      BY <1>5, <1>7, <2>2, <3>1 DEF BatchOf
  <2> QED
    BY <1>9, <2>1, <2>2
<1>11. ASSUME NEW i \in 1..Len(p), NEW j \in 1..Len(p), Key[p[i]] = Key[p[j]] PROVE i = j
  <2>1. CASE i \in 1..Len(q) /\ j \in 1..Len(q)
    <3>1. Key[q[i]] = Key[q[j]]
      BY <1>2, <1>3, <1>8, <1>11, <2>1, SMTT(30)
    <3> QED
      BY <1>2, <2>1, <3>1 DEF BatchOf, IsBatch
  <2>2. CASE i \in 1..Len(q) /\ j \notin 1..Len(q)
    <3>1. Key[q[i]] = Key[B[j - Len(q)]] /\ j - Len(q) \in 1..Len(B)
      BY <1>2, <1>3, <1>8, <1>9, <1>11, <2>2, SMTT(30)
    <3> QED
      BY <1>2, <1>6, <2>2, <3>1 DEF SameKey
  <2>3. CASE i \notin 1..Len(q) /\ j \in 1..Len(q)
    <3>1. Key[q[j]] = Key[B[i - Len(q)]] /\ i - Len(q) \in 1..Len(B)
      BY <1>2, <1>3, <1>8, <1>9, <1>11, <2>3, SMTT(30)
    <3> QED
      BY <1>2, <1>6, <2>3, <3>1 DEF SameKey
  <2>4. CASE i \notin 1..Len(q) /\ j \notin 1..Len(q)
    <3>1. /\ i - Len(q) \in 1..Len(B) /\ j - Len(q) \in 1..Len(B)
          /\ Key[B[i - Len(q)]] = Key[B[j - Len(q)]]
      BY <1>2, <1>8, <1>9, <1>11, <2>4
    <3>2. i - Len(q) = j - Len(q)
      BY <1>5, <1>7, <3>1 DEF BatchOf, IsBatch
    <3> QED
      BY <1>2, <3>2
  <2> QED
    BY <2>1, <2>2, <2>3, <2>4
<1>12. BatchOf(p, x)
  BY <1>8, <1>10, <1>11 DEF BatchOf, IsBatch
<1> QED
  BY <1>1, <1>12 DEF p

(* A request that is put is in the batch. *)
LEMMA PutThere ==
  ASSUME NEW x, NEW q, BatchOf(q, x), NEW r \in Requests, Kind[r] = x
  PROVE  \E i \in DOMAIN Put(q, <<r>>) : Put(q, <<r>>)[i] = r
<1>1. q \in Seq(Requests) /\ DOMAIN q = 1..Len(q) /\ <<r>> \in Seq(Requests) /\ Len(<<r>>) = 1 /\ Range(<<r>>) = {r}
  BY DEF BatchOf, IsBatch, Range
<1> DEFINE A == [i \in DOMAIN q |-> IF \E t \in {r} : i \in SameKey(q, t)
                                    THEN CHOOSE t \in {r} : i \in SameKey(q, t)
                                    ELSE q[i]]
           S == {t \in Requests : SameKey(q, t) = {}}
           B == Kept(<<r>>, S)
<1>2. Put(q, <<r>>) = A \o B
  BY <1>1 DEF Put
<1>3. B \in Seq(Requests) /\ SameElements(B, <<r>>, S)
  BY <1>1, KeptElements
<1>4. A \in Seq(Requests) /\ Len(A) = Len(q)
  <2>1. \A i \in 1..Len(q) : A[i] \in Requests
    BY <1>1
  <2>2. A = [i \in 1..Len(q) |-> A[i]]
    BY <1>1
  <2> HIDE DEF A
  <2> QED
    BY <1>1, <2>1, <2>2
<1>5. CASE SameKey(q, r) # {}
  <2>1. PICK i \in SameKey(q, r) : TRUE
    BY <1>5
  <2>2. i \in DOMAIN q /\ A[i] = r
    BY <2>1 DEF SameKey
  <2> HIDE DEF A, B
  <2>3. i \in DOMAIN (A \o B) /\ (A \o B)[i] = A[i]
    BY <1>1, <1>3, <1>4, <2>2
  <2> QED
    BY <1>2, <2>2, <2>3
<1>6. CASE SameKey(q, r) = {}
  <2>1. <<r>>[1] \in S /\ 1 \in 1..Len(<<r>>)
    BY <1>6
  <2>2. PICK j \in 1..Len(B) : B[j] = r
    BY <1>3, <2>1 DEF SameElements
  <2> HIDE DEF A, B
  <2>3. Len(q) + j \in DOMAIN (A \o B) /\ (A \o B)[Len(q) + j] = B[j]
    BY <1>1, <1>3, <1>4, <2>2
  <2> QED
    BY <1>2, <2>2, <2>3
<1> QED
  BY <1>5, <1>6

(* sendBatch takes a wanted request at least, and leaves a batch. *)
LEMMA TakenBatch ==
  ASSUME NEW x, NEW q, BatchOf(q, x), NEW u, Wanted(q, u) # << >>
  PROVE  /\ Taken(q, u) \in 1..Len(q)
         /\ BatchOf(Wanted(SubSeq(q, 1, Taken(q, u)), u), x)
         /\ Wanted(SubSeq(q, 1, Taken(q, u)), u) # << >>
         /\ BatchOf(SubSeq(q, Taken(q, u) + 1, Len(q)), x)
<1>1. q \in Seq(Requests) /\ DOMAIN q = 1..Len(q) /\ Len(q) \in Nat
  BY DEF BatchOf, IsBatch
<1> DEFINE W == {i \in DOMAIN q : q[i] \notin u}
           first == Min(W)
           N == {n \in first..Len(q) : \A i \in first + 1..n : Fits(q, u, i)}
<1>2. first \in W
  <2>1. W \in SUBSET Int /\ W \subseteq 1..Len(q)
    BY <1>1
  <2>2. W # {}
    BY WantedBatch
  <2>3. IsFiniteSet(W)
    <3>1. IsFiniteSet(1..Len(q))
      BY <1>1, FS_Interval
    <3> HIDE DEF W
    <3> QED
      BY <2>1, <3>1, FS_Subset
  <2> HIDE DEF W
  <2> QED
    BY <2>1, <2>2, <2>3, MinProperty
<1>3. first \in 1..Len(q) /\ q[first] \notin u
  BY <1>1, <1>2
<1>4. Taken(q, u) = Max(N)
  BY DEF Taken
<1> HIDE DEF first
<1>5. Max(N) \in N
  <2>1. first \in N
    BY <1>1, <1>3
  <2>2. N \subseteq 1..Len(q) /\ N \in SUBSET Int
    BY <1>1, <1>3
  <2>3. IsFiniteSet(N)
    <3>1. IsFiniteSet(1..Len(q))
      BY <1>1, FS_Interval
    <3> HIDE DEF N
    <3> QED
      BY <2>2, <3>1, FS_Subset
  <2> HIDE DEF N
  <2> QED
    BY <2>1, <2>2, <2>3, MaxProperty
<1> DEFINE n == Taken(q, u)
<1>6. n \in first..Len(q) /\ n \in 1..Len(q) /\ first <= n
  BY <1>1, <1>3, <1>4, <1>5
<1> HIDE DEF N, n
<1>7. BatchOf(SubSeq(q, 1, n), x) /\ BatchOf(SubSeq(q, n + 1, Len(q)), x)
  <2>1. 1 \in Nat \ {0} /\ n \in 0..Len(q) /\ n + 1 \in Nat \ {0} /\ Len(q) \in 0..Len(q)
    BY <1>1, <1>6
  <2> QED
    BY <2>1, SubBatch
<1>8. BatchOf(Wanted(SubSeq(q, 1, n), u), x)
  BY <1>7, WantedBatch
<1>9. Wanted(SubSeq(q, 1, n), u) # << >>
  <2>1. first \in DOMAIN SubSeq(q, 1, n) /\ SubSeq(q, 1, n)[first] = q[first]
    BY <1>1, <1>3, <1>6
  <2> QED
    BY <1>3, <1>7, <2>1, WantedBatch
<1> QED
  BY <1>6, <1>7, <1>8, <1>9 DEF n

(***************************************************************************)
(* The manager.                                                            *)
(***************************************************************************)

(* Each queue is a batch of its kind. *)
Sorted(qs) == DOMAIN qs = Queues /\ \A q \in Queues : BatchOf(qs[q], q)

(* An open connection carries a batch of the queue that had the last turn;   *)
(* its handle is the manager's unless the transport never handed it out; and  *)
(* a manager that ended leaves none open but as close does.                  *)
OnTheWire ==
  \A c \in Connections : Open(c) =>
    /\ BatchOf(batch[c], nextQueue)
    /\ activeConnection = c \/ c \in lost
    /\ status = "WAITING" => ongoingRequests = batch[c]
    /\ status = "END" => c \in lost \/ nextQueue = Destroy
Awaited == /\ status = "WAITING" => \E c \in Connections : Open(c)
           /\ status = "IDLE" => ongoingRequests = << >>

(* The dequeue that is queued captured a phase that the status has left, if   *)
(* it is not idle, by no more changes than there were calls of close, and one. *)
DequeueDelay ==
  deferredDequeue # -1 =>
    \E d \in 0..closes + 1 : /\ statusPhase = (deferredDequeue + d) % PhaseModulus
                             /\ status = "IDLE" <=> d = 0
ShapesOK ==
  /\ nextQueue \in Queues /\ Sorted(queues)
  /\ ongoingRequests \in Seq(Requests)
  /\ activeConnection \in Connections \cup {NoHandle, Wild}
  /\ batch \in [Connections -> Seq(Requests)]
  /\ opened \subseteq Connections /\ lost \subseteq Connections
NumbersOK ==
  /\ status \in {"IDLE", "WAITING", "ENDING", "END"}
  /\ statusPhase \in 0..PhaseModulus - 1 /\ deferredDequeue \in -1..PhaseModulus - 1
  /\ requestLimit \in Limits /\ closes \in 0..MaxCloses /\ unwanted \subseteq Requests
WireInv == NumbersOK /\ ShapesOK /\ OnTheWire /\ Awaited /\ DequeueDelay

(* Phases wrap around. *)
LEMMA PhaseSum ==
  ASSUME NEW a \in 0..PhaseModulus - 1, NEW d \in 0..PhaseModulus - 1
  PROVE  (a + d) % PhaseModulus = IF a + d < PhaseModulus THEN a + d ELSE a + d - PhaseModulus
<1>1. PhaseModulus \in Nat /\ PhaseModulus > 1
  BY BoundsAssumption
<1> QED
  BY <1>1
(* The next two phases are phases. *)
LEMMA PhaseType ==
  ASSUME statusPhase \in 0..PhaseModulus - 1
  PROVE  Phase(1) \in 0..PhaseModulus - 1 /\ Phase(2) \in 0..PhaseModulus - 1
<1>1. PhaseModulus \in Nat /\ PhaseModulus > 1
  BY BoundsAssumption
<1> QED
  BY <1>1 DEF Phase

(* No requests are a batch of any kind. *)
LEMMA EmptyBatch == \A x : BatchOf(<< >>, x)
BY DEF BatchOf, IsBatch

(* Whoever sends leaves the manager waiting for a connection that carries a  *)
(* batch of the queue whose turn it was, and sorted queues.                  *)
LEMMA SendNextWire ==
  ASSUME ShapesOK, NEW qs, Sorted(qs), NEW u, NEW k, NEW ended \in SUBSET Connections,
         NEW late, BatchOf(late, Control), Turns(qs, u) # {},
         \A c \in Connections : Open(c) => c \in ended,
         StillOngoing(ended) = << >>,
         SendNext(qs, u, k, ended, late)
  PROVE  ShapesOK' /\ OnTheWire' /\ Awaited' /\ status' = "WAITING" /\ statusPhase' = Phase(k)
<1> DEFINE turn == Min(Turns(qs, u))
           q    == Turn(turn)
           n    == Taken(qs[q], u)
           sent == Wanted(SubSeq(qs[q], 1, n), u)
           rest == [i \in Queues |-> IF i = q THEN SubSeq(qs[q], n + 1, Len(qs[q]))
                                     ELSE IF \E j \in 1..turn - 1 : i = Turn(j) THEN << >> ELSE qs[i]]
<1>1. turn \in 1..4 /\ Wanted(qs[Turn(turn)], u) # << >>
  <2>1. Turns(qs, u) \subseteq 1..4 /\ Turns(qs, u) \in SUBSET Int
    BY DEF Turns
  <2>2. IsFiniteSet(Turns(qs, u))
    <3>1. 1 \in Int /\ 4 \in Int
      OBVIOUS
    <3>2. IsFiniteSet(1..4)
      BY <3>1, FS_Interval
    <3> QED
      BY <2>1, <3>2, FS_Subset
  <2>3. turn \in Turns(qs, u)
    BY <2>1, <2>2, MinProperty
  <2> HIDE DEF turn
  <2> QED
    BY <2>3 DEF Turns
<1>2. q \in Queues
  <2> HIDE DEF turn
  <2> QED
    BY <1>1 DEF Turn, Queues, ShapesOK
<1>3. BatchOf(qs[q], q) /\ Wanted(qs[q], u) # << >>
  BY <1>1, <1>2 DEF Sorted
<1>4. /\ BatchOf(sent, q) /\ sent # << >>
      /\ BatchOf(SubSeq(qs[q], n + 1, Len(qs[q])), q)
  BY <1>3, TakenBatch
<1>5. /\ nextQueue' = q /\ queues' = [rest EXCEPT ![Control] = Put(@, late)]
      /\ status' = "WAITING" /\ statusPhase' = Phase(k)
      /\ ongoingRequests' = StillOngoing(ended) \o sent
      /\ opened' = opened \ ended
  BY DEF SendNext
<1>6. PICK c \in Connections :
        /\ batch' = [d \in Connections |-> IF d = c THEN sent
                                           ELSE IF d \in ended THEN << >> ELSE batch[d]]
        /\ \/ activeConnection' = c        /\ lost' = lost \ ended
           \/ activeConnection' = NoHandle /\ lost' = (lost \ ended) \cup {c}
  BY DEF SendNext
<1> HIDE DEF turn, q, n, sent
<1>7. sent \in Seq(Requests)
  BY <1>4 DEF BatchOf, IsBatch
<1>8. ongoingRequests' = sent
  BY <1>5, <1>7
<1>9. Sorted(queues')
  <2>1. ASSUME NEW i \in Queues PROVE BatchOf(rest[i], i)
    <3>1. CASE i = q
      BY <1>4, <3>1
    <3>2. CASE i # q /\ \E j \in 1..turn - 1 : i = Turn(j)
      BY <3>2, EmptyBatch
    <3>3. CASE i # q /\ ~ \E j \in 1..turn - 1 : i = Turn(j)
      BY <3>3 DEF Sorted
    <3> QED
      BY <3>1, <3>2, <3>3
  <2>2. DOMAIN rest = Queues
    OBVIOUS
  <2> HIDE DEF rest
  <2>3. BatchOf(Put(rest[Control], late), Control)
    BY <2>1, PutBatch DEF Control, Queues
  <2>4. /\ DOMAIN queues' = Queues
        /\ \A i \in Queues : queues'[i] = IF i = Control THEN Put(rest[Control], late) ELSE rest[i]
    BY <1>5, <2>2
  <2> QED
    BY <2>1, <2>3, <2>4 DEF Sorted
<1> HIDE DEF rest
<1>10. /\ batch' \in [Connections -> Seq(Requests)] /\ batch'[c] = sent
       /\ \A d \in Connections : d # c => batch'[d] = << >>
  <2>1. \A d \in Connections : d # c /\ d \notin ended => batch[d] = << >>
    BY DEF Open
  <2>2. \A d \in Connections : batch[d] \in Seq(Requests)
    BY DEF ShapesOK
  <2> QED
    BY <1>6, <1>7, <2>1, <2>2
<1>11. ShapesOK'
  BY <1>2, <1>5, <1>6, <1>7, <1>8, <1>9, <1>10 DEF ShapesOK
<1>12. \A d \in Connections : Open(d)' => d = c
  BY <1>10 DEF Open
<1>13. OnTheWire'
  BY <1>4, <1>5, <1>6, <1>8, <1>10, <1>12 DEF OnTheWire
<1>14. Awaited'
  BY <1>4, <1>5, <1>10 DEF Awaited, Open
<1> QED
  BY <1>5, <1>11, <1>13, <1>14
(* The turns go through all queues: where a wanted request was put there is a *)
(* queue to send from.                                                       *)
LEMMA TurnsCover ==
  ASSUME nextQueue \in Queues, NEW x \in Queues
  PROVE  \E k \in 1..4 : Turn(k) = x
<1>1. CASE x > nextQueue
  <2>1. x - nextQueue \in 1..4 /\ Turn(x - nextQueue) = x
    BY <1>1 DEF Turn, Queues
  <2> QED
    BY <2>1
<1>2. CASE ~(x > nextQueue)
  <2>1. x - nextQueue + 4 \in 1..4 /\ Turn(x - nextQueue + 4) = x
    BY <1>2 DEF Turn, Queues
  <2> QED
    BY <2>1
<1> QED
  BY <1>1, <1>2

(* Putting requests of its kind into a queue keeps the queues sorted. *)
LEMMA PutSorted ==
  ASSUME NEW qs, Sorted(qs), NEW x \in Queues, NEW s, BatchOf(s, x)
  PROVE  Sorted([qs EXCEPT ![x] = Put(@, s)])
<1>1. BatchOf(Put(qs[x], s), x)
  BY PutBatch DEF Sorted
<1> QED
  BY <1>1 DEF Sorted

(* One request is a batch of its kind. *)
LEMMA OneBatch ==
  ASSUME NEW r \in Requests
  PROVE  BatchOf(<<r>>, Kind[r])
BY DEF BatchOf, IsBatch

(* A wanted request that is put leaves a turn to take. *)
LEMMA PutTurns ==
  ASSUME nextQueue \in Queues, NEW qs, Sorted(qs), NEW r \in Requests, NEW u, r \notin u
  PROVE  /\ Sorted([qs EXCEPT ![Kind[r]] = Put(@, <<r>>)])
         /\ Turns([qs EXCEPT ![Kind[r]] = Put(@, <<r>>)], u) # {}
<1>1. Kind[r] \in Queues
  BY RequestsAssumption
<1> DEFINE x == Kind[r]
           added == [qs EXCEPT ![x] = Put(@, <<r>>)]
<1>2. Sorted(added)
  BY <1>1, OneBatch, PutSorted
<1>3. BatchOf(Put(qs[x], <<r>>), x) /\ added[x] = Put(qs[x], <<r>>)
  BY <1>1, <1>2 DEF Sorted
<1>4. \E i \in DOMAIN Put(qs[x], <<r>>) : Put(qs[x], <<r>>)[i] = r
  BY <1>1, PutThere DEF Sorted
<1> HIDE DEF x, added
<1>5. Wanted(added[x], u) # << >>
  BY <1>3, <1>4, WantedBatch
<1>6. PICK k \in 1..4 : Turn(k) = x
  BY <1>1, TurnsCover DEF x
<1>7. Turns(added, u) # {}
  BY <1>5, <1>6 DEF Turns
<1> QED
  BY <1>2, <1>7 DEF added, x

(* One more change of status stays below the modulus of the phase. *)
LEMMA OneMore ==
  ASSUME NEW M \in Nat, NEW b \in Nat, M > b + 1, NEW x \in Nat, x <= b, NEW d \in Nat, d <= x
  PROVE  /\ d + 1 \in 0..x + 1 /\ d + 1 # 0 /\ d + 1 <= M - 1
         /\ d \in 0..M - 1
OBVIOUS

(* A change of status that leaves the queued dequeue alone puts it one phase  *)
(* further behind.                                                           *)
LEMMA PhaseMoves ==
  ASSUME NumbersOK, DequeueDelay, deferredDequeue' = deferredDequeue,
         statusPhase' = Phase(1), status' # "IDLE", closes' \in 0..MaxCloses,
         closes' = closes + 1 \/ (status = "IDLE" /\ closes' = closes)
  PROVE  DequeueDelay'
<1>1. PhaseModulus \in Nat /\ PhaseModulus > MaxCloses + 1 /\ MaxCloses \in Nat
  BY BoundsAssumption
<1> SUFFICES ASSUME deferredDequeue # -1 PROVE DequeueDelay'
  BY DEF DequeueDelay
<1>2. PICK d \in 0..closes + 1 : /\ statusPhase = (deferredDequeue + d) % PhaseModulus
                                 /\ status = "IDLE" <=> d = 0
  BY DEF DequeueDelay
<1>3. closes \in Nat /\ deferredDequeue \in 0..PhaseModulus - 1 /\ statusPhase \in 0..PhaseModulus - 1
  BY <1>1 DEF NumbersOK
<1>4. d + 1 \in 0..closes' + 1 /\ d + 1 # 0 /\ d + 1 <= PhaseModulus - 1 /\ d \in 0..PhaseModulus - 1
  <2>1. d \in Nat /\ d <= closes + 1 /\ closes' \in Nat /\ closes' <= MaxCloses
    BY <1>1, <1>3
  <2>2. d <= closes'
    <3>1. CASE closes' = closes + 1
      BY <2>1, <3>1
    <3>2. CASE status = "IDLE" /\ closes' = closes
      BY <1>2, <1>3, <2>1, <3>2
    <3> QED
      BY <3>1, <3>2
  <2> QED
    BY <1>1, <2>1, <2>2, OneMore
<1>5. statusPhase' = (deferredDequeue + (d + 1)) % PhaseModulus
  <2>1. statusPhase = IF deferredDequeue + d < PhaseModulus THEN deferredDequeue + d
                      ELSE deferredDequeue + d - PhaseModulus
    BY <1>2, <1>3, <1>4, PhaseSum
  <2>2. statusPhase' = IF statusPhase + 1 < PhaseModulus THEN statusPhase + 1
                       ELSE statusPhase + 1 - PhaseModulus
    <3>1. 1 \in 0..PhaseModulus - 1
      BY <1>1
    <3> QED
      BY <1>3, <3>1, PhaseSum DEF Phase
  <2>3. (deferredDequeue + (d + 1)) % PhaseModulus =
          IF deferredDequeue + (d + 1) < PhaseModulus THEN deferredDequeue + (d + 1)
          ELSE deferredDequeue + (d + 1) - PhaseModulus
    <3>1. d + 1 \in 0..PhaseModulus - 1
      BY <1>1, <1>2, <1>3, <1>4
    <3> QED
      BY <1>3, <3>1, PhaseSum
  <2> QED
    BY <1>1, <1>3, <1>4, <2>1, <2>2, <2>3
<1> QED
  BY <1>4, <1>5 DEF DequeueDelay

(* The queued dequeue never finds the phase it captured in another status.    *)
LEMMA PhaseTellsIdle ==
  ASSUME NumbersOK, DequeueDelay, deferredDequeue # -1, deferredDequeue = statusPhase
  PROVE  status = "IDLE"
<1>1. PhaseModulus \in Nat /\ PhaseModulus > MaxCloses + 1 /\ MaxCloses \in Nat
  BY BoundsAssumption
<1>2. PICK d \in 0..closes + 1 : /\ statusPhase = (deferredDequeue + d) % PhaseModulus
                                 /\ status = "IDLE" <=> d = 0
  BY DEF DequeueDelay
<1>3. closes \in 0..MaxCloses /\ deferredDequeue \in 0..PhaseModulus - 1
  BY <1>1 DEF NumbersOK
<1>4. d \in 0..PhaseModulus - 1
  BY <1>1, <1>2, <1>3
<1> HIDE DEF NumbersOK
<1>5. statusPhase = IF deferredDequeue + d < PhaseModulus THEN deferredDequeue + d
                    ELSE deferredDequeue + d - PhaseModulus
  BY <1>2, <1>3, <1>4, PhaseSum
<1> QED
  BY <1>1, <1>2, <1>3, <1>4, <1>5

(* A step that leaves manager, batches and counters alone keeps it. *)
LEMMA QuietWire ==
  ASSUME WireInv, UNCHANGED <<managerVars, deferredDequeue, batch, lost, closes>>,
         requestLimit' \in Limits, unwanted' \subseteq Requests, opened' \subseteq Connections
  PROVE  WireInv'
<1>1. NumbersOK' /\ DequeueDelay'
  BY DEF WireInv, NumbersOK, DequeueDelay, managerVars
<1>2. ShapesOK'
  BY DEF WireInv, ShapesOK, managerVars
<1>3. OnTheWire' /\ Awaited'
  BY DEF WireInv, OnTheWire, Awaited, Open, managerVars
<1> QED
  BY <1>1, <1>2, <1>3 DEF WireInv

(* An added request: its queue has a turn, so an idle manager sends. *)
LEMMA AddRequestWire ==
  ASSUME WireInv, IInv, NEW r \in Requests, AddRequest(r)
  PROVE  WireInv'
<1> DEFINE added == [queues EXCEPT ![Kind[r]] = Put(@, <<r>>)]
<1>1. Sorted(added) /\ Turns(added, unwanted \ {r}) # {}
  BY PutTurns DEF WireInv, ShapesOK
<1>2. /\ unwanted' = unwanted \ {r} /\ UNCHANGED <<requestLimit, deferredDequeue, closes>>
      /\ DequeuesAtOnce => SendNext(added, unwanted \ {r}, 1, {}, << >>)
      /\ ~DequeuesAtOnce => /\ queues' = added
                            /\ UNCHANGED <<status, statusPhase, nextQueue, ongoingRequests,
                                           activeConnection, networkVars>>
  BY DEF AddRequest
<1> HIDE DEF added
<1>3. CASE DequeuesAtOnce
  <2>1. status = "IDLE" /\ \A c \in Connections : Open(c) => c \in {}
    BY <1>3 DEF IInv, IdleIsClosed, DequeuesAtOnce
  <2>2. StillOngoing({}) = << >>
    BY <2>1 DEF StillOngoing, WireInv, Awaited
  <2>3. ShapesOK' /\ OnTheWire' /\ Awaited' /\ status' = "WAITING" /\ statusPhase' = Phase(1)
    BY <1>1, <1>2, <1>3, <2>1, <2>2, SendNextWire, EmptyBatch DEF WireInv
  <2>4. NumbersOK'
    BY <1>2, <2>3, PhaseType DEF WireInv, NumbersOK
  <2>5. DequeueDelay'
    <3>1. NumbersOK /\ DequeueDelay /\ closes' \in 0..MaxCloses
      BY <1>2 DEF WireInv, NumbersOK
    <3> QED
      BY <1>2, <2>1, <2>3, <3>1, PhaseMoves
  <2> QED
    BY <2>3, <2>4, <2>5 DEF WireInv
<1>4. CASE ~DequeuesAtOnce
  <2>1. ShapesOK'
    BY <1>1, <1>2, <1>4 DEF WireInv, ShapesOK, networkVars
  <2>2. NumbersOK' /\ DequeueDelay'
    BY <1>2, <1>4 DEF WireInv, NumbersOK, DequeueDelay
  <2>3. OnTheWire' /\ Awaited'
    BY <1>2, <1>4 DEF WireInv, OnTheWire, Awaited, Open, networkVars
  <2> QED
    BY <2>1, <2>2, <2>3 DEF WireInv
<1> QED
  BY <1>3, <1>4

(* The dequeue never meets ENDING with the phase it captured. *)
LEMMA DeferredDequeueWire ==
  ASSUME WireInv, IInv, DeferredDequeue
  PROVE  WireInv'
<1>1. /\ deferredDequeue # -1 /\ deferredDequeue' = -1
      /\ UNCHANGED <<requestLimit, unwanted, closes>>
  BY DEF DeferredDequeue
<1>2. deferredDequeue = statusPhase => status = "IDLE"
  BY <1>1, PhaseTellsIdle DEF WireInv
<1>3. DequeueDelay'
  BY <1>1 DEF DequeueDelay
<1>4. CASE UNCHANGED <<managerVars, networkVars>>
  <2>1. NumbersOK'
    <3>1. PhaseModulus \in Nat
      BY BoundsAssumption
    <3> QED
      BY <1>1, <1>4, <3>1 DEF WireInv, NumbersOK, managerVars
  <2>2. ShapesOK'
    BY <1>4 DEF WireInv, ShapesOK, managerVars, networkVars
  <2>3. OnTheWire' /\ Awaited'
    BY <1>4 DEF WireInv, OnTheWire, Awaited, Open, managerVars, networkVars
  <2> QED
    BY <1>3, <2>1, <2>2, <2>3 DEF WireInv
<1>5. CASE status = "IDLE" /\ Turns(queues, unwanted) # {} /\ SendNext(queues, unwanted, 1, {}, << >>)
  <2>1. \A c \in Connections : Open(c) => c \in {}
    BY <1>5 DEF IInv, IdleIsClosed
  <2>2. StillOngoing({}) = << >>
    BY <1>5 DEF StillOngoing, WireInv, Awaited
  <2>3. ShapesOK' /\ OnTheWire' /\ Awaited' /\ status' = "WAITING" /\ statusPhase' = Phase(1)
    BY <1>5, <2>1, <2>2, SendNextWire, EmptyBatch DEF WireInv, ShapesOK
  <2>4. NumbersOK'
    <3>1. PhaseModulus \in Nat
      BY BoundsAssumption
    <3> QED
      BY <1>1, <2>3, <3>1, PhaseType DEF WireInv, NumbersOK
  <2> QED
    BY <1>3, <2>3, <2>4 DEF WireInv
<1>6. CASE /\ queues' = [q \in Queues |-> << >>]
           /\ UNCHANGED <<status, statusPhase, nextQueue, ongoingRequests, activeConnection, networkVars>>
  <2>1. ShapesOK'
    BY <1>6, EmptyBatch DEF WireInv, ShapesOK, networkVars, Sorted
  <2>2. NumbersOK'
    <3>1. PhaseModulus \in Nat
      BY BoundsAssumption
    <3> QED
      BY <1>1, <1>6, <3>1 DEF WireInv, NumbersOK
  <2>3. OnTheWire' /\ Awaited'
    BY <1>6 DEF WireInv, OnTheWire, Awaited, Open, networkVars
  <2> QED
    BY <1>3, <2>1, <2>2, <2>3 DEF WireInv
<1> QED
  BY <1>2, <1>4, <1>5, <1>6 DEF DeferredDequeue

(* The end of the connection: the requests that recover are sent at once.     *)
LEMMA Recovery ==
  ASSUME WireInv, NEW c \in Connections, Open(c), Recovered(c) # << >>
  PROVE  /\ Head(Recovered(c)) \in Requests /\ Kind[Head(Recovered(c))] = Control
         /\ Head(Recovered(c)) \notin unwanted
         /\ BatchOf(Tail(Recovered(c)), Control)
<1> DEFINE w == Recovered(c)
<1>1. w = Kept(batch[c], {r \in Requests : Kind[r] = Control} \ unwanted)
  BY DEF Recovered
<1>2. BatchOf(batch[c], nextQueue)
  BY DEF WireInv, OnTheWire
<1>3. BatchOf(w, nextQueue)
  BY <1>1, <1>2, KeptBatch
<1>4. /\ w \in Seq(Requests) /\ w # << >> /\ DOMAIN w = 1..Len(w)
      /\ \A i \in 1..Len(w) : w[i] \in {r \in Requests : Kind[r] = Control} \ unwanted
  <2>1. batch[c] \in Seq(Requests)
    BY DEF WireInv, ShapesOK
  <2>2. SameElements(w, batch[c], {r \in Requests : Kind[r] = Control} \ unwanted)
    BY <1>1, <2>1, KeptElements
  <2>3. w \in Seq(Requests)
    BY <1>3 DEF BatchOf, IsBatch
  <2> QED
    BY <2>2, <2>3 DEF SameElements
<1> HIDE DEF w
<1>5. Head(w) = w[1] /\ 1 \in 1..Len(w)
  BY <1>4
<1>6. BatchOf(Tail(w), Control)
  <2>1. /\ Tail(w) \in Seq(Requests) /\ DOMAIN Tail(w) = 1..Len(Tail(w))
        /\ \A i \in 1..Len(Tail(w)) : i + 1 \in 1..Len(w) /\ Tail(w)[i] = w[i + 1]
    BY <1>4
  <2>2. \A i \in 1..Len(Tail(w)) : Kind[Tail(w)[i]] = Control
    BY <1>4, <2>1
  <2>3. \A i, j \in 1..Len(Tail(w)) : Key[Tail(w)[i]] = Key[Tail(w)[j]] => i = j
    <3> TAKE i, j \in 1..Len(Tail(w))
    <3>1. Key[Tail(w)[i]] = Key[Tail(w)[j]] => i + 1 = j + 1
      BY <1>3, <1>4, <2>1 DEF BatchOf, IsBatch
    <3> QED
      BY <3>1
  <2> QED
    BY <2>1, <2>2, <2>3 DEF BatchOf, IsBatch
<1> QED
  BY <1>4, <1>5, <1>6 DEF w

(* The end of the only connection leaves none and nothing ongoing. *)
LEMMA EndedShapes ==
  ASSUME WireInv, OneConnection, NEW c \in Connections, Open(c),
         batch' = [batch EXCEPT ![c] = << >>], opened' = opened \ {c}, lost' = lost \ {c},
         activeConnection' \in {activeConnection, NoHandle},
         ongoingRequests' = StillOngoing({c}), UNCHANGED <<nextQueue, queues>>,
         status' # "WAITING"
  PROVE  ShapesOK' /\ OnTheWire' /\ Awaited'
<1>1. \A d \in Connections : ~Open(d)'
  BY DEF OneConnection, Open, WireInv, ShapesOK
<1>2. ongoingRequests' = << >>
  BY DEF StillOngoing
<1>3. ShapesOK'
  BY <1>2 DEF WireInv, ShapesOK
<1> QED
  BY <1>1, <1>2, <1>3 DEF OnTheWire, Awaited

(* The end of a connection: requests recover, or the manager turns idle or ends. *)
LEMMA ConnectionEndsWire ==
  ASSUME WireInv, IInv, NEW c \in Connections, ConnectionEnds(c)
  PROVE  WireInv'
<1>1. Open(c) /\ deferredDequeue = -1 /\ OneConnection /\ UNCHANGED <<requestLimit, unwanted, closes>>
  BY DEF ConnectionEnds, IInv
<1>2. PhaseModulus \in Nat /\ PhaseModulus > MaxCloses + 1 /\ MaxCloses \in Nat /\ closes \in 0..MaxCloses
  BY BoundsAssumption DEF WireInv, NumbersOK
<1>3. Phase(1) \in 0..PhaseModulus - 1 /\ Phase(2) \in 0..PhaseModulus - 1
  BY PhaseType DEF WireInv, NumbersOK
<1>4. CASE Live /\ Recovered(c) # << >>
  <2> DEFINE again == Recovered(c)
             added == [queues EXCEPT ![Control] = Put(@, <<Head(again)>>)]
  <2>1. deferredDequeue' = Phase(1) /\ SendNext(added, unwanted, 2, {c}, Tail(again))
    BY <1>4 DEF ConnectionEnds, OnComplete, CapturedPhase
  <2>2. Sorted(added) /\ Turns(added, unwanted) # {}
    BY <1>1, <1>4, Recovery, PutTurns DEF WireInv, ShapesOK
  <2>3. BatchOf(Tail(again), Control)
    BY <1>1, <1>4, Recovery
  <2> HIDE DEF added, again
  <2>4. \A d \in Connections : Open(d) => d \in {c}
    BY <1>1 DEF OneConnection
  <2>5. StillOngoing({c}) = << >>
    BY DEF StillOngoing
  <2>6. ShapesOK' /\ OnTheWire' /\ Awaited' /\ status' = "WAITING" /\ statusPhase' = Phase(2)
    BY <2>1, <2>2, <2>3, <2>4, <2>5, SendNextWire DEF WireInv
  <2>7. NumbersOK'
    BY <1>1, <1>2, <1>3, <2>1, <2>6 DEF WireInv, NumbersOK
  <2>8. DequeueDelay'
    <3>1. Phase(2) = (Phase(1) + 1) % PhaseModulus
      <4>1. statusPhase \in 0..PhaseModulus - 1
        BY DEF WireInv, NumbersOK
      <4> QED
        BY <1>2, <4>1 DEF Phase
    <3>2. 1 \in 0..closes' + 1
      BY <1>1, <1>2
    <3> QED
      BY <2>1, <2>6, <3>1, <3>2 DEF DequeueDelay
  <2> QED
    BY <2>6, <2>7, <2>8 DEF WireInv
<1>5. CASE Live /\ Recovered(c) = << >>
  <2>1. /\ deferredDequeue' = Phase(1) /\ status' = "IDLE" /\ statusPhase' = Phase(1)
        /\ activeConnection' = NoHandle /\ ongoingRequests' = StillOngoing({c})
        /\ batch' = [batch EXCEPT ![c] = << >>] /\ opened' = opened \ {c} /\ lost' = lost \ {c}
        /\ UNCHANGED <<nextQueue, queues>>
    BY <1>5 DEF ConnectionEnds, OnComplete, CapturedPhase
  <2>2. ShapesOK' /\ OnTheWire' /\ Awaited'
    BY <1>1, <2>1, EndedShapes
  <2>3. NumbersOK'
    BY <1>1, <1>2, <1>3, <2>1 DEF WireInv, NumbersOK
  <2>4. DequeueDelay'
    <3>1. Phase(1) = (Phase(1) + 0) % PhaseModulus /\ 0 \in 0..closes' + 1
      BY <1>1, <1>2, <1>3
    <3> QED
      BY <2>1, <3>1 DEF DequeueDelay
  <2> QED
    BY <2>2, <2>3, <2>4 DEF WireInv
<1>6. CASE ~Live
  <2>1. /\ ongoingRequests' = StillOngoing({c}) /\ status' = "END"
        /\ statusPhase' \in {statusPhase, Phase(1)}
        /\ activeConnection' \in {activeConnection, NoHandle}
        /\ batch' = [batch EXCEPT ![c] = << >>] /\ opened' = opened \ {c} /\ lost' = lost \ {c}
        /\ UNCHANGED <<nextQueue, queues, deferredDequeue>>
    BY <1>6 DEF ConnectionEnds, Live, WireInv, NumbersOK
  <2>2. ShapesOK' /\ OnTheWire' /\ Awaited'
    BY <1>1, <2>1, EndedShapes
  <2>3. NumbersOK'
    BY <1>1, <1>2, <1>3, <2>1 DEF WireInv, NumbersOK
  <2>4. DequeueDelay'
    BY <1>1, <2>1 DEF DequeueDelay
  <2> QED
    BY <2>2, <2>3, <2>4 DEF WireInv
<1> QED
  BY <1>4, <1>5, <1>6

(* A close keeps what is on the wire only while it waits, or as Shut tells. *)
LEMMA CloseWire ==
  ASSUME WireInv, NEW waitPending \in BOOLEAN, DoClose(waitPending),
         Sorted(queues'), ongoingRequests' \in Seq(Requests)
  PROVE  WireInv'
<1>1. /\ closes < MaxCloses /\ closes' = closes + 1 /\ statusPhase' = Phase(1)
      /\ status' \in {"ENDING", "END"}
      /\ UNCHANGED <<nextQueue, activeConnection, requestLimit, deferredDequeue, unwanted>>
  BY DEF DoClose
<1>2. PhaseModulus \in Nat /\ MaxCloses \in Nat /\ closes' \in 0..MaxCloses
  BY <1>1, BoundsAssumption DEF WireInv, NumbersOK
<1>3. NumbersOK'
  BY <1>1, <1>2, PhaseType DEF WireInv, NumbersOK
<1>4. DequeueDelay'
  BY <1>1, <1>2, PhaseMoves DEF WireInv
<1>5. CASE UNCHANGED networkVars /\ status' = "ENDING"
  <2>1. ShapesOK'
    BY <1>1, <1>5 DEF WireInv, ShapesOK, networkVars
  <2>2. OnTheWire' /\ Awaited'
    BY <1>1, <1>5 DEF WireInv, OnTheWire, Awaited, Open, networkVars
  <2> QED
    BY <1>3, <1>4, <2>1, <2>2 DEF WireInv
<1>6. CASE /\ status' = "END"
           /\ batch' = [c \in Connections |-> IF c \in Shut THEN << >> ELSE batch[c]]
           /\ opened' = opened \ Shut /\ lost' = lost \ Shut
  <2>1. ShapesOK'
    BY <1>1, <1>6 DEF WireInv, ShapesOK
  <2>2. \A c \in Connections : Open(c)' => Open(c) /\ c \notin Shut /\ batch'[c] = batch[c]
    BY <1>6 DEF Open
  <2>3. \A c \in Connections : activeConnection = c /\ c \notin Shut => nextQueue = Destroy
    BY DEF Shut
  <2>4. OnTheWire'
    BY <1>1, <1>6, <2>2, <2>3 DEF WireInv, OnTheWire
  <2>5. Awaited'
    BY <1>6 DEF Awaited
  <2> QED
    BY <1>3, <1>4, <2>1, <2>4, <2>5 DEF WireInv
<1> QED
  BY <1>5, <1>6 DEF DoClose

(* WireInv is inductive relative to IInv. *)
THEOREM WireInductive == Spec => []WireInv
<1>1. Init => WireInv
  <2> SUFFICES ASSUME Init PROVE WireInv
    OBVIOUS
  <2>1. NumbersOK
    BY BoundsAssumption DEF Init, NumbersOK
  <2>2. ShapesOK
    BY EmptyBatch DEF Init, ShapesOK, Sorted, Queues
  <2>3. OnTheWire /\ Awaited /\ DequeueDelay
    BY DEF Init, OnTheWire, Awaited, DequeueDelay, Open
  <2> QED
    BY <2>1, <2>2, <2>3 DEF WireInv
<1>2. WireInv /\ IInv /\ [Next]_vars => WireInv'
  <2> SUFFICES ASSUME WireInv, IInv, [Next]_vars PROVE WireInv'
    OBVIOUS
  <2>0. requestLimit \in Limits /\ unwanted \subseteq Requests /\ opened \subseteq Connections
    BY DEF WireInv, NumbersOK, ShapesOK
  <2>1. CASE UNCHANGED vars
    BY <2>0, <2>1, QuietWire DEF vars, managerVars, networkVars
  <2>2. ASSUME NEW r \in Requests, AddRequest(r) PROVE WireInv'
    BY <2>2, AddRequestWire
  <2>3. ASSUME NEW r \in Requests, Lapse(r) PROVE WireInv'
    BY <2>0, <2>3, QuietWire DEF Lapse, networkVars
  <2>4. CASE DeferredDequeue
    BY <2>4, DeferredDequeueWire
  <2>5. ASSUME NEW c \in Connections, OnOpen(c) PROVE WireInv'
    BY <2>0, <2>5, QuietWire DEF OnOpen
  <2>6. ASSUME NEW c \in Connections, ConnectionEnds(c) PROVE WireInv'
    BY <2>6, ConnectionEndsWire
  <2>7. ASSUME NEW limit \in Limits, SetRequestLimit(limit) PROVE WireInv'
    BY <2>0, <2>7, QuietWire DEF SetRequestLimit, networkVars
  <2>8. ASSUME NEW waitPending \in BOOLEAN, Close(waitPending) PROVE WireInv'
    <3>1. Sorted(queues') /\ ongoingRequests' \in Seq(Requests)
      BY <2>8 DEF Close, WireInv, ShapesOK
    <3> QED
      BY <2>8, <3>1, CloseWire DEF Close
  <2>9. CASE CopyTo
    <3>1. Sorted(queues') /\ ongoingRequests' \in Seq(Requests)
      BY <2>9, EmptyBatch DEF CopyTo, Sorted
    <3> QED
      BY <2>9, <3>1, CloseWire DEF CopyTo
  <2> QED
    BY <2>1, <2>2, <2>3, <2>4, <2>5, <2>6, <2>7, <2>8, <2>9 DEF Next
<1> QED
  BY <1>1, <1>2, Inductive, PTL DEF Spec

(* Every queue stays a batch, every batch on the wire is one, and the counters *)
(* stay in their range.                                                       *)
THEOREM TypeCorrect == Spec => []TypeOK
<1>1. WireInv => TypeOK
  BY DEF WireInv, NumbersOK, ShapesOK, Sorted, BatchOf, TypeOK
<1> QED
  BY <1>1, WireInductive, PTL

(* The status and the list of ongoing requests tell what is on the wire.      *)
THEOREM WireIsKnown == Spec => []OngoingIsOnTheWire
<1>1. WireInv /\ IInv => OngoingIsOnTheWire
  <2> SUFFICES ASSUME WireInv, IInv PROVE OngoingIsOnTheWire
    OBVIOUS
  <2>1. status = "IDLE" => ongoingRequests = << >> /\ \A c \in Connections : ~Open(c)
    BY DEF WireInv, Awaited, IInv, IdleIsClosed
  <2>2. status = "WAITING" => \E c \in Connections : batch[c] = ongoingRequests /\ Open(c)
    BY DEF WireInv, Awaited, OnTheWire
  <2>3. ASSUME status = "END", NEW c \in Connections, Open(c), c \notin lost
        PROVE  Kind[Head(batch[c])] = Destroy
    <3>1. BatchOf(batch[c], Destroy) /\ batch[c] # << >> /\ batch[c] \in Seq(Requests)
      BY <2>3 DEF WireInv, OnTheWire, Open, ShapesOK
    <3>2. Head(batch[c]) = batch[c][1] /\ 1 \in DOMAIN batch[c]
      BY <3>1
    <3> QED
      BY <3>1, <3>2 DEF BatchOf
  <2> QED
    BY <2>1, <2>2, <2>3 DEF OngoingIsOnTheWire
<1> QED
  BY <1>1, WireInductive, Inductive, PTL

=============================================================================
