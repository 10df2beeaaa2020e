------------------------------ MODULE DataLemmas ------------------------------
EXTENDS RecursiveData, Integers, FiniteSets, FiniteSetsExt, SequencesExt, WellFoundedInduction, FiniteSetTheorems, SequenceTheorems, TLAPS

(* Every nonempty set of natural numbers has a least element. *)
LEMMA Least ==
  ASSUME NEW S \in SUBSET Nat, S # {}
  PROVE  \E m \in S : \A k \in S : m <= k
<1> DEFINE R == StrictSubsetOrdering(Nat)
           T == {0..m : m \in S}
<1>1. T \subseteq FiniteSubsetsOf(Nat)
  <2> SUFFICES ASSUME NEW m \in S PROVE 0..m \in FiniteSubsetsOf(Nat)
    OBVIOUS
  <2>1. m \in Int /\ 0 \in Int
    OBVIOUS
  <2>2. IsFiniteSet(0..m)
    BY <2>1, FS_Interval
  <2>3. 0..m \in SUBSET Nat
    OBVIOUS
  <2> QED
    BY <2>2, <2>3 DEF FiniteSubsetsOf
<1>2. \E x \in T : \A y \in T : ~ (<<y, x>> \in R)
  <2>1. IsWellFoundedOn(R, FiniteSubsetsOf(Nat)) BY FS_StrictSubsetOrderingWellFounded
  <2>2. T # {} OBVIOUS
  <2> HIDE DEF R, T
  <2> QED BY <1>1, <2>1, <2>2, WFMin
<1>3. PICK m \in S : \A k \in S : ~ (<<0..k, 0..m>> \in R)
  BY <1>2
<1>4. ASSUME NEW k \in S, k < m PROVE FALSE
  <2>1. 0..k \in SUBSET Nat /\ 0..m \in SUBSET Nat /\ 0..k \subseteq 0..m
    BY <1>4
  <2>2. m \in 0..m /\ m \notin 0..k
    BY <1>4
  <2>3. 0..k # 0..m
    BY <2>2
  <2> QED BY <2>1, <2>3, <1>3 DEF StrictSubsetOrdering
<1> QED BY <1>4

(* Induction over the natural numbers, for the members of a set. *)
LEMMA SetInduction ==
  ASSUME NEW P, 0 \in P, \A n \in Nat : n \in P => n + 1 \in P
  PROVE  \A n \in Nat : n \in P
<1> DEFINE S == {n \in Nat : n \notin P}
<1> SUFFICES ASSUME S # {} PROVE FALSE
  OBVIOUS
<1>1. PICK m \in S : \A k \in S : m <= k
  <2>1. S \in SUBSET Nat
    OBVIOUS
  <2> HIDE DEF S
  <2> QED
    BY <2>1, Least
<1>2. m # 0 /\ m - 1 \in Nat /\ m - 1 \notin S
  BY <1>1
<1>3. m - 1 \in P /\ (m - 1) + 1 = m
  BY <1>2
<1> QED
  BY <1>2, <1>3

(* A nonempty finite set of integers has a greatest and a least element.     *)
LEMMA Extremes ==
  ASSUME NEW S \in SUBSET Int, IsFiniteSet(S), S # {}
  PROVE  \E hi \in S, lo \in S : \A x \in S : x <= hi /\ lo <= x
<1> DEFINE Good(T) == T # {} => \E hi \in T, lo \in T : \A x \in T : x <= hi /\ lo <= x
           P == {n \in Nat : \A T \in SUBSET Int : IsFiniteSet(T) /\ Cardinality(T) = n => Good(T)}
<1>1. 0 \in P
  BY FS_EmptySet
<1>2. ASSUME NEW n \in Nat, n \in P PROVE n + 1 \in P
  <2> SUFFICES ASSUME NEW T \in SUBSET Int, IsFiniteSet(T), Cardinality(T) = n + 1 PROVE Good(T)
    OBVIOUS
  <2>1. T # {}
    BY FS_EmptySet
  <2>2. PICK a \in T : TRUE
    BY <2>1
  <2> DEFINE U == T \ {a}
  <2>3. IsFiniteSet(U) /\ Cardinality(U) = n
    <3>1. IsFiniteSet(U) /\ Cardinality(U) = Cardinality(T) - 1
      BY FS_RemoveElement, Zenon
    <3> QED
      BY <3>1
  <2>4. U \in SUBSET Int /\ Good(U)
    BY <2>3, <1>2
  <2>5. CASE U = {}
    BY <2>5
  <2>6. CASE U # {}
    <3>1. PICK hi \in U, lo \in U : \A x \in U : x <= hi /\ lo <= x
      BY <2>4, <2>6
    <3>2. a \in Int /\ hi \in Int /\ lo \in Int /\ \A x \in U : x \in Int
      OBVIOUS
    <3>3. \E h \in {a, hi} : a <= h /\ hi <= h
      BY <3>2
    <3>4. \E l \in {a, lo} : l <= a /\ l <= lo
      BY <3>2
    <3> PICK h \in {a, hi}, l \in {a, lo} : a <= h /\ hi <= h /\ l <= a /\ l <= lo
      BY <3>3, <3>4
    <3>5. h \in T /\ l \in T
      OBVIOUS
    <3>6. \A x \in T : x <= h /\ l <= x
      BY <3>1, <3>2
    <3> QED
      BY <3>5, <3>6, Zenon
  <2> QED
    BY <2>5, <2>6
<1>3. \A n \in Nat : n \in P
  <2> HIDE DEF P
  <2> QED
    BY <1>1, <1>2, SetInduction
<1>4. Cardinality(S) \in Nat
  BY FS_CardinalityType
<1> QED
  BY <1>3, <1>4

(* Max and Min of a nonempty finite set of integers are what they say. *)
LEMMA MaxProperty ==
  ASSUME NEW S \in SUBSET Int, IsFiniteSet(S), S # {}
  PROVE  Max(S) \in S /\ \A x \in S : Max(S) >= x
<1>1. \E m \in S : \A x \in S : m >= x
  BY Extremes
<1> QED
  BY <1>1, Zenon DEF Max

(* Likewise the least. *)
LEMMA MinProperty ==
  ASSUME NEW S \in SUBSET Int, IsFiniteSet(S), S # {}
  PROVE  Min(S) \in S /\ \A x \in S : Min(S) <= x
<1>1. \E m \in S : \A x \in S : m <= x
  BY Extremes
<1> QED
  BY <1>1, Zenon DEF Min

(* f is defined on 0..n by recursion: it starts with base, and G makes each   *)
(* value of the number and the value before it.                              *)
Recursive(f, n, V, base, G) ==
  f \in [0..n -> V] /\ f[0] = base /\ \A k \in 1..n : f[k] = G[<<k, f[k - 1]>>]

(* There is such a function. *)
LEMMA Recursion ==
  ASSUME NEW V, NEW base \in V, NEW G \in [Nat \X V -> V], NEW n \in Nat
  PROVE  \E f : Recursive(f, n, V, base, G)
<1> USE DEF Recursive
<1> DEFINE Defined(m, f) == f[0] = base /\ \A k \in 1..m : f[k] = G[<<k, f[k - 1]>>]
           P == {m \in Nat : \E f \in [0..m -> V] : Defined(m, f)}
<1>1. 0 \in P
  <2>1. [i \in 0..0 |-> base] \in [0..0 -> V] /\ Defined(0, [i \in 0..0 |-> base])
    OBVIOUS
  <2> QED
    BY <2>1
<1>2. ASSUME NEW m \in Nat, m \in P PROVE m + 1 \in P
  <2>1. PICK f \in [0..m -> V] : Defined(m, f)
    BY <1>2
  <2> DEFINE g == [i \in 0..(m + 1) |-> IF i = m + 1 THEN G[<<m + 1, f[m]>>] ELSE f[i]]
  <2>2. f[m] \in V /\ <<m + 1, f[m]>> \in Nat \X V
    OBVIOUS
  <2>3. G[<<m + 1, f[m]>>] \in V
    BY <2>2
  <2>4. g \in [0..(m + 1) -> V]
    BY <2>3
  <2>5. g[0] = base
    BY <2>1
  <2>6. ASSUME NEW k \in 1..(m + 1) PROVE g[k] = G[<<k, g[k - 1]>>]
    <3>1. CASE k = m + 1
      <4>1. k - 1 = m /\ k - 1 \in 0..(m + 1) /\ k - 1 # m + 1
        BY <3>1
      <4> QED
        BY <3>1, <4>1
    <3>2. CASE k # m + 1
      <4>1. k \in 1..m /\ k - 1 \in 0..(m + 1) /\ k - 1 # m + 1 /\ k \in 0..(m + 1)
        BY <3>2
      <4>2. g[k] = f[k] /\ g[k - 1] = f[k - 1]
        BY <3>2, <4>1
      <4> QED
        BY <2>1, <4>1, <4>2
    <3> QED
      BY <3>1, <3>2
  <2>7. Defined(m + 1, g)
    BY <2>5, <2>6
  <2> HIDE DEF g, Defined
  <2> QED
    BY <2>4, <2>7
<1>3. \A m \in Nat : m \in P
  <2> HIDE DEF P
  <2> QED
    BY <1>1, <1>2, SetInduction
<1> QED
  BY <1>3

(* Two functions by the same recursion agree as far as both go. *)
LEMMA RecursiveAgree ==
  ASSUME NEW V, NEW base, NEW G, NEW m \in Nat, NEW n \in Nat, NEW f, NEW g,
         Recursive(f, m, V, base, G), Recursive(g, n, V, base, G)
  PROVE  \A k \in Nat : k <= m /\ k <= n => f[k] = g[k]
<1> DEFINE P == {k \in Nat : k <= m /\ k <= n => f[k] = g[k]}
<1>1. 0 \in P
  BY DEF Recursive
<1>2. ASSUME NEW k \in Nat, k \in P PROVE k + 1 \in P
  <2> SUFFICES ASSUME k + 1 <= m, k + 1 <= n PROVE f[k + 1] = g[k + 1]
    OBVIOUS
  <2>1. f[k] = g[k] /\ k + 1 \in 1..m /\ k + 1 \in 1..n /\ (k + 1) - 1 = k
    BY <1>2
  <2> QED
    BY <2>1 DEF Recursive
<1> HIDE DEF P
<1>3. \A k \in Nat : k \in P
  BY <1>1, <1>2, SetInduction
<1> QED
  BY <1>3 DEF P

(* f is defined on the natural numbers by recursion. *)
RecursiveOnNat(f, V, base, G) ==
  f \in [Nat -> V] /\ f[0] = base /\ \A k \in Nat : f[k + 1] = G[<<k + 1, f[k]>>]

(* There is such a function, too. *)
LEMMA RecursionOnNat ==
  ASSUME NEW V, NEW base \in V, NEW G \in [Nat \X V -> V]
  PROVE  \E f : RecursiveOnNat(f, V, base, G)
<1> DEFINE Up(n) == CHOOSE f : Recursive(f, n, V, base, G)
           F == [n \in Nat |-> Up(n)[n]]
<1>1. ASSUME NEW n \in Nat PROVE Recursive(Up(n), n, V, base, G)
  BY Recursion
<1> HIDE DEF Up
<1>2. \A n \in Nat : Up(n)[n] \in V
  BY <1>1 DEF Recursive
<1>3. F[0] = base
  BY <1>1 DEF Recursive
<1>4. ASSUME NEW k \in Nat PROVE F[k + 1] = G[<<k + 1, F[k]>>]
  <2>1. Recursive(Up(k + 1), k + 1, V, base, G) /\ Recursive(Up(k), k, V, base, G)
    BY <1>1
  <2>2. Up(k + 1)[k] = Up(k)[k]
    BY <2>1, RecursiveAgree
  <2>3. Up(k + 1)[k + 1] = G[<<k + 1, Up(k + 1)[k]>>]
    <3>1. k + 1 \in 1..k + 1 /\ (k + 1) - 1 = k
      OBVIOUS
    <3> QED
      BY <2>1, <3>1 DEF Recursive
  <2> QED
    BY <2>2, <2>3
<1> HIDE DEF F
<1>5. F \in [Nat -> V]
  BY <1>2 DEF F
<1> QED
  BY <1>3, <1>4, <1>5 DEF RecursiveOnNat

(* The powers of two are positive, and each twice the one before. *)
LEMMA Powers ==
  /\ TwoToThe \in [Nat -> Nat \ {0}] /\ TwoToThe[0] = 1
  /\ \A n \in Nat : TwoToThe[n + 1] = 2 * TwoToThe[n]
<1> DEFINE V == Nat \ {0}
           G == [p \in Nat \X V |-> 2 * p[2]]
           Body(f) == [n \in Nat |-> IF n = 0 THEN 1 ELSE 2 * f[n - 1]]
<1>1. G \in [Nat \X V -> V] /\ 1 \in V
  OBVIOUS
<1> HIDE DEF G
<1>2. PICK f : RecursiveOnNat(f, V, 1, G)
  <2> HIDE DEF V
  <2> QED
    BY <1>1, RecursionOnNat
<1>3. f \in [Nat -> V] /\ f[0] = 1 /\ \A k \in Nat : f[k + 1] = 2 * f[k]
  <2>1. f \in [Nat -> V] /\ f[0] = 1 /\ \A k \in Nat : f[k + 1] = G[<<k + 1, f[k]>>]
    BY <1>2 DEF RecursiveOnNat
  <2>2. ASSUME NEW k \in Nat PROVE G[<<k + 1, f[k]>>] = 2 * f[k]
    <3>1. <<k + 1, f[k]>> \in Nat \X V
      BY <2>1
    <3> QED
      BY <3>1 DEF G
  <2> QED
    BY <2>1, <2>2
<1>4. f = Body(f)
  <2>1. ASSUME NEW n \in Nat PROVE f[n] = Body(f)[n]
    <3>1. CASE n = 0
      BY <1>3, <3>1
    <3>2. CASE n # 0
      <4>1. n - 1 \in Nat /\ (n - 1) + 1 = n
        BY <3>2
      <4> QED
        BY <1>3, <3>2, <4>1
    <3> QED
      BY <3>1, <3>2
  <2> QED
    BY <1>3, <2>1
<1>5. TwoToThe = CHOOSE g : g = Body(g)
  BY Zenon DEF TwoToThe
<1>6. TwoToThe = Body(TwoToThe)
  <2> HIDE DEF Body
  <2> QED
    BY <1>4, <1>5, Zenon
<1>7. TwoToThe[0] = 1 /\ \A n \in Nat : TwoToThe[n + 1] = 2 * TwoToThe[n]
  <2>1. TwoToThe[0] = 1
    BY <1>6
  <2>2. ASSUME NEW n \in Nat PROVE TwoToThe[n + 1] = 2 * TwoToThe[n]
    <3>1. n + 1 \in Nat /\ n + 1 # 0 /\ (n + 1) - 1 = n
      OBVIOUS
    <3> QED
      BY <1>6, <3>1
  <2> QED
    BY <2>1, <2>2
<1>8. TwoToThe \in [Nat -> V]
  <2> DEFINE P == {n \in Nat : TwoToThe[n] \in V}
  <2>1. 0 \in P
    BY <1>7
  <2>2. ASSUME NEW n \in Nat, n \in P PROVE n + 1 \in P
    BY <1>7, <2>2
  <2> HIDE DEF P
  <2>3. \A n \in Nat : n \in P
    BY <2>1, <2>2, SetInduction
  <2>4. \A n \in Nat : TwoToThe[n] \in V
    BY <2>3 DEF P
  <2>5. TwoToThe = [n \in Nat |-> TwoToThe[n]]
    BY <1>6
  <2> QED
    BY <2>4, <2>5
<1> QED
  BY <1>7, <1>8

(* f is what the recursion of Kept computes, place by place. *)
KeptStepwise(f, s, S, T) ==
  /\ f \in [0..Len(s) -> Seq(T)]
  /\ Kept(s, S) = f[Len(s)]
  /\ f[0] = << >>
  /\ \A n \in 1..Len(s) : f[n] = IF s[n] \in S THEN Append(f[n - 1], s[n]) ELSE f[n - 1]

(* The recursion of Kept defines it. *)
LEMMA KeptDefined ==
  ASSUME NEW T, NEW s \in Seq(T), NEW S
  PROVE  \E f : KeptStepwise(f, s, S, T)
<1> DEFINE G == [p \in Nat \X Seq(T) |-> IF p[1] \in 1..Len(s) /\ s[p[1]] \in S THEN Append(p[2], s[p[1]]) ELSE p[2]]
           Body(f) == [n \in 0..Len(s) |-> IF n = 0 THEN << >>
                                           ELSE IF s[n] \in S THEN Append(f[n - 1], s[n]) ELSE f[n - 1]]
           kept == CHOOSE f : f = Body(f)
<1>1. G \in [Nat \X Seq(T) -> Seq(T)]
  OBVIOUS
<1>2. PICK f \in [0..Len(s) -> Seq(T)] : f[0] = << >> /\ \A k \in 1..Len(s) : f[k] = G[<<k, f[k - 1]>>]
  <2> DEFINE V == Seq(T)  base == << >>  L == Len(s)
  <2>1. base \in V /\ L \in Nat /\ G \in [Nat \X V -> V]
    BY <1>1
  <2> HIDE DEF G, V, base, L
  <2>2. \E f : Recursive(f, L, V, base, G)
    BY <2>1, Recursion
  <2> QED
    BY <2>2 DEF V, base, L, Recursive
<1>3. f = Body(f)
  <2>1. ASSUME NEW k \in 1..Len(s) PROVE f[k] = IF s[k] \in S THEN Append(f[k - 1], s[k]) ELSE f[k - 1]
    <3>1. k - 1 \in 0..Len(s) /\ f[k - 1] \in Seq(T) /\ <<k, f[k - 1]>> \in Nat \X Seq(T)
      BY SMTT(30)
    <3> QED
      BY <1>2, <3>1
  <2>2. \A n \in 0..Len(s) : n = 0 \/ n \in 1..Len(s)
    OBVIOUS
  <2> QED
    BY <1>2, <2>1, <2>2
<1>4. kept = Body(kept)
  <2> HIDE DEF Body
  <2> QED
    BY <1>3
<1>7. \A g : g = Body(g) => /\ g[0] = << >>
                           /\ \A n \in 1..Len(s) : g[n] = IF s[n] \in S THEN Append(g[n - 1], s[n]) ELSE g[n - 1]
  <2> TAKE g
  <2> HAVE g = Body(g)
  <2>1. 0 \in 0..Len(s) /\ \A n \in 1..Len(s) : n \in 0..Len(s) /\ n # 0
    OBVIOUS
  <2>2. \A n \in 0..Len(s) : Body(g)[n] = IF n = 0 THEN << >>
                               ELSE IF s[n] \in S THEN Append(g[n - 1], s[n]) ELSE g[n - 1]
    OBVIOUS
  <2> HIDE DEF Body
  <2> QED
    BY <2>1, <2>2
<1>5. Kept(s, S) = kept[Len(s)]
  BY DEF Kept
<1>6. ASSUME NEW n \in 0..Len(s) PROVE kept[n] = f[n]
  <2> DEFINE P == {m \in Nat : m \in 0..Len(s) => kept[m] = f[m]}
  <2> HIDE DEF kept, Body
  <2>1. 0 \in P
    BY <1>3, <1>4, <1>7
  <2>2. ASSUME NEW m \in Nat, m \in P PROVE m + 1 \in P
    <3> SUFFICES ASSUME m + 1 \in 0..Len(s) PROVE kept[m + 1] = f[m + 1]
      OBVIOUS
    <3>1. m \in 0..Len(s) /\ m + 1 # 0 /\ (m + 1) - 1 = m
      OBVIOUS
    <3>2. kept[m] = f[m]
      BY <2>2, <3>1
    <3>3. m + 1 \in 1..Len(s)
      BY <3>1
    <3> QED
      BY <1>3, <1>4, <1>7, <3>1, <3>2, <3>3, SMTT(30)
  <2>3. \A m \in Nat : m \in P
    <3> HIDE DEF P
    <3> QED
      BY <2>1, <2>2, SetInduction
  <2> QED
    BY <2>3
<1> QED
  <2> HIDE DEF kept, Body
  <2>1. Len(s) \in 0..Len(s)
    OBVIOUS
  <2> QED
    BY <1>3, <1>5, <1>6, <1>7, <2>1 DEF KeptStepwise

(* w is made of the elements of s up to the n-th that are in S, all of them    *)
(* and in their order: at says where each of them was.                       *)
KeepsUpTo(w, n, s, S) ==
  \E at \in [1..Len(w) -> 1..n] :
    /\ \A i \in 1..Len(w) : w[i] = s[at[i]] /\ w[i] \in S
    /\ \A i, j \in 1..Len(w) : i < j => at[i] < at[j]
    /\ \A k \in 1..n : s[k] \in S => \E i \in 1..Len(w) : at[i] = k

(* Kept keeps what it says. *)
LEMMA KeptIsKept ==
  ASSUME NEW T, NEW s \in Seq(T), NEW S
  PROVE  Kept(s, S) \in Seq(T) /\ KeepsUpTo(Kept(s, S), Len(s), s, S)
<1>1. PICK f \in [0..Len(s) -> Seq(T)] :
           /\ Kept(s, S) = f[Len(s)]
           /\ f[0] = << >>
           /\ \A n \in 1..Len(s) : f[n] = IF s[n] \in S THEN Append(f[n - 1], s[n]) ELSE f[n - 1]
  <2>1. PICK f : KeptStepwise(f, s, S, T)
    BY KeptDefined
  <2> QED
    BY <2>1 DEF KeptStepwise
<1> DEFINE P == {n \in Nat : n \in 0..Len(s) => KeepsUpTo(f[n], n, s, S)}
<1>2. 0 \in P
  <2>1. Len(f[0]) = 0 /\ 1..0 = {}
    BY <1>1
  <2>2. << >> \in [1..0 -> 1..0]
    OBVIOUS
  <2>3. KeepsUpTo(f[0], 0, s, S)
    BY <2>1, <2>2 DEF KeepsUpTo
  <2> QED
    BY <2>3
<1>3. ASSUME NEW n \in Nat, n \in P PROVE n + 1 \in P
  <2> SUFFICES ASSUME n + 1 \in 0..Len(s) PROVE KeepsUpTo(f[n + 1], n + 1, s, S)
    OBVIOUS
  <2>1. n \in 0..Len(s) /\ n + 1 \in 1..Len(s) /\ (n + 1) - 1 = n
    OBVIOUS
  <2>2. KeepsUpTo(f[n], n, s, S)
    BY <1>3, <2>1
  <2> DEFINE w == f[n]  v == f[n + 1]
  <2>3. w \in Seq(T) /\ v \in Seq(T) /\ Len(w) \in Nat
    BY <2>1
  <2>4. v = IF s[n + 1] \in S THEN Append(w, s[n + 1]) ELSE w
    BY <1>1, <2>1
  <2>5. PICK at \in [1..Len(w) -> 1..n] :
          /\ \A i \in 1..Len(w) : w[i] = s[at[i]] /\ w[i] \in S
          /\ \A i, j \in 1..Len(w) : i < j => at[i] < at[j]
          /\ \A k \in 1..n : s[k] \in S => \E i \in 1..Len(w) : at[i] = k
    BY <2>2 DEF KeepsUpTo
  <2>6. \A i \in 1..Len(w) : at[i] \in 1..n
    OBVIOUS
  <2> HIDE DEF w, v
  <2>7. CASE s[n + 1] \notin S
    <3>1. v = w
      BY <2>4, <2>7
    <3>2. at \in [1..Len(w) -> 1..(n + 1)]
      BY <2>6
    <3>3. \A k \in 1..(n + 1) : s[k] \in S => \E i \in 1..Len(w) : at[i] = k
      BY <2>5, <2>7
    <3>4. KeepsUpTo(v, n + 1, s, S)
      BY <2>5, <3>1, <3>2, <3>3 DEF KeepsUpTo
    <3> QED
      BY <3>4 DEF v
  <2>8. CASE s[n + 1] \in S
    <3>1. v = Append(w, s[n + 1])
      BY <2>4, <2>8
    <3>2. s[n + 1] \in T
      BY <2>1
    <3>3. /\ Len(v) = Len(w) + 1 /\ v[Len(w) + 1] = s[n + 1]
          /\ \A i \in 1..Len(w) : v[i] = w[i]
      BY <2>3, <3>1, <3>2
    <3> DEFINE to == [i \in 1..Len(v) |-> IF i = Len(w) + 1 THEN n + 1 ELSE at[i]]
    <3>4. /\ to[Len(w) + 1] = n + 1
          /\ \A i \in 1..Len(w) : to[i] = at[i]
          /\ \A i \in 1..Len(v) : i = Len(w) + 1 \/ i \in 1..Len(w)
          /\ Len(w) + 1 \in 1..Len(v) /\ \A i \in 1..Len(w) : i \in 1..Len(v)
      BY <2>3, <3>3
    <3>5. to \in [1..Len(v) -> 1..(n + 1)]
      BY <2>6, <3>4
    <3> HIDE DEF to
    <3>6. \A i \in 1..Len(v) : v[i] = s[to[i]] /\ v[i] \in S
      BY <2>5, <2>8, <3>3, <3>4
    <3>7. ASSUME NEW i \in 1..Len(v), NEW j \in 1..Len(v), i < j PROVE to[i] < to[j]
      <4>1. i \in 1..Len(w)
        BY <2>3, <3>3, <3>7
      <4>2. CASE j \in 1..Len(w)
        BY <2>5, <3>4, <3>7, <4>1, <4>2
      <4>3. CASE j = Len(w) + 1
        <5>1. to[i] \in 1..n /\ to[j] = n + 1
          BY <2>6, <3>4, <4>1, <4>3
        <5> QED
          BY <5>1
      <4> QED
        BY <3>4, <4>2, <4>3
    <3>8. \A k \in 1..(n + 1) : s[k] \in S => \E i \in 1..Len(v) : to[i] = k
      <4> TAKE k \in 1..(n + 1)
      <4> HAVE s[k] \in S
      <4>1. CASE k = n + 1
        BY <3>4, <4>1
      <4>2. CASE k # n + 1
        <5>1. k \in 1..n
          BY <4>2
        <5> QED
          BY <2>5, <3>4, <5>1
      <4> QED
        BY <4>1, <4>2
    <3>9. KeepsUpTo(v, n + 1, s, S)
      BY <3>5, <3>6, <3>7, <3>8 DEF KeepsUpTo
    <3> QED
      BY <3>9 DEF v
  <2> QED
    BY <2>7, <2>8
<1>4. \A n \in Nat : n \in P
  <2> HIDE DEF P
  <2> QED
    BY <1>2, <1>3, SetInduction
<1>5. Len(s) \in Nat /\ Len(s) \in 0..Len(s)
  OBVIOUS
<1> QED
  BY <1>1, <1>4, <1>5

(* Kept has the elements that are in the set, and no others ...              *)
SameElements(w, s, S) ==
  /\ \A i \in 1..Len(w) : w[i] \in S /\ \E k \in 1..Len(s) : w[i] = s[k]
  /\ \A k \in 1..Len(s) : s[k] \in S => \E i \in 1..Len(w) : w[i] = s[k]
LEMMA KeptElements ==
  ASSUME NEW T, NEW s \in Seq(T), NEW S
  PROVE  Kept(s, S) \in Seq(T) /\ SameElements(Kept(s, S), s, S)
<1> DEFINE w == Kept(s, S)
<1>1. w \in Seq(T) /\ KeepsUpTo(w, Len(s), s, S)
  BY KeptIsKept
<1> HIDE DEF w
<1>2. PICK at \in [1..Len(w) -> 1..Len(s)] :
        /\ \A i \in 1..Len(w) : w[i] = s[at[i]] /\ w[i] \in S
        /\ \A k \in 1..Len(s) : s[k] \in S => \E i \in 1..Len(w) : at[i] = k
  BY <1>1 DEF KeepsUpTo
<1>3. \A i \in 1..Len(w) : w[i] \in S /\ \E k \in 1..Len(s) : w[i] = s[k]
  BY <1>2
<1>4. \A k \in 1..Len(s) : s[k] \in S => \E i \in 1..Len(w) : w[i] = s[k]
  BY <1>2
<1> QED
  BY <1>1, <1>3, <1>4 DEF w, SameElements

(* ... and two of its places are two of the sequence.                        *)
LEMMA KeptApart ==
  ASSUME NEW T, NEW s \in Seq(T), NEW S,
         NEW i \in 1..Len(Kept(s, S)), NEW j \in 1..Len(Kept(s, S)), i # j
  PROVE  \E k, l \in 1..Len(s) : k # l /\ Kept(s, S)[i] = s[k] /\ Kept(s, S)[j] = s[l]
<1> DEFINE w == Kept(s, S)
<1>1. w \in Seq(T) /\ KeepsUpTo(w, Len(s), s, S)
  BY KeptIsKept
<1>2. i \in 1..Len(w) /\ j \in 1..Len(w)
  OBVIOUS
<1> HIDE DEF w
<1>3. PICK at \in [1..Len(w) -> 1..Len(s)] :
        /\ \A n \in 1..Len(w) : w[n] = s[at[n]]
        /\ \A n, m \in 1..Len(w) : n < m => at[n] < at[m]
  BY <1>1 DEF KeepsUpTo
<1>4. at[i] \in 1..Len(s) /\ at[j] \in 1..Len(s)
  BY <1>2
<1>5. at[i] # at[j]
  <2>1. i < j \/ j < i
    BY <1>1, <1>2
  <2>2. at[i] < at[j] \/ at[j] < at[i]
    BY <1>2, <1>3, <2>1
  <2> QED
    BY <1>4, <2>2
<1>6. w[i] = s[at[i]] /\ w[j] = s[at[j]]
  BY <1>2, <1>3
<1> QED
  BY <1>4, <1>5, <1>6 DEF w

(* The elements of a sequence are finitely many. *)
LEMMA ToSetFinite ==
  ASSUME NEW T, NEW s \in Seq(T)
  PROVE  IsFiniteSet(ToSet(s)) /\ ToSet(s) \subseteq T
<1>1. DOMAIN s = 1..Len(s) /\ Len(s) \in Nat /\ 1 \in Int /\ Len(s) \in Int
  OBVIOUS
<1>2. IsFiniteSet(1..Len(s))
  BY <1>1, FS_Interval
<1>3. s \in Surjection(1..Len(s), ToSet(s))
  BY <1>1 DEF Surjection, ToSet
<1>4. IsFiniteSet(ToSet(s))
  BY <1>2, <1>3, FS_Surjection
<1> QED
  BY <1>1, <1>4 DEF ToSet

(* f is what the recursion of Folded computes, place by place. *)
FoldedStepwise(f, step, base, s, V) ==
  /\ f \in [0..Len(s) -> V]
  /\ Folded(step, base, s) = f[Len(s)]
  /\ f[0] = base
  /\ \A n \in 1..Len(s) : f[n] = step[<<f[n - 1], s[n]>>]

(* The recursion of Folded defines it. *)
LEMMA FoldedDefined ==
  ASSUME NEW V, NEW T, NEW base \in V, NEW step \in [V \X T -> V], NEW s \in Seq(T)
  PROVE  \E f : FoldedStepwise(f, step, base, s, V)
<1> DEFINE L == Len(s)
           G == [p \in Nat \X V |-> IF p[1] \in 1..L THEN step[<<p[2], s[p[1]]>>] ELSE p[2]]
           Body(f) == [n \in 0..L |-> IF n = 0 THEN base ELSE step[<<f[n - 1], s[n]>>]]
           folded == CHOOSE f : f = Body(f)
<1>0. L \in Nat /\ \A n \in 1..L : s[n] \in T
  OBVIOUS
<1> HIDE DEF L
<1>1. G \in [Nat \X V -> V]
  BY <1>0
<1>2. PICK f : f \in [0..L -> V] /\ f[0] = base /\ \A k \in 1..L : f[k] = G[<<k, f[k - 1]>>]
  <2> HIDE DEF G
  <2>2. \E f : Recursive(f, L, V, base, G)
    BY <1>0, <1>1, Recursion
  <2> QED
    BY <2>2 DEF Recursive
<1>3. f = Body(f)
  <2>1. ASSUME NEW k \in 1..L PROVE f[k] = step[<<f[k - 1], s[k]>>]
    <3>1. k - 1 \in 0..L /\ k \in Nat
      BY <1>0
    <3>2. <<k, f[k - 1]>> \in Nat \X V
      BY <1>2, <3>1
    <3> QED
      BY <1>2, <3>2
  <2>2. \A n \in 0..L : n = 0 \/ n \in 1..L
    BY <1>0
  <2> QED
    BY <1>2, <2>1, <2>2
<1>4. folded = Body(folded)
  <2> HIDE DEF Body
  <2> QED
    BY <1>3
<1>5. \A g : g = Body(g) => /\ g[0] = base
                           /\ \A n \in 1..L : g[n] = step[<<g[n - 1], s[n]>>]
  <2> TAKE g
  <2> HAVE g = Body(g)
  <2>1. 0 \in 0..L /\ \A n \in 1..L : n \in 0..L /\ n # 0
    BY <1>0
  <2>2. \A n \in 0..L : Body(g)[n] = IF n = 0 THEN base ELSE step[<<g[n - 1], s[n]>>]
    OBVIOUS
  <2> HIDE DEF Body
  <2> QED
    BY <2>1, <2>2
<1>6. Folded(step, base, s) = folded[L]
  BY DEF Folded, L
<1>7. ASSUME NEW n \in 0..L PROVE folded[n] = f[n]
  <2> DEFINE P == {m \in Nat : m \in 0..L => folded[m] = f[m]}
  <2> HIDE DEF folded, Body
  <2>1. 0 \in P
    BY <1>3, <1>4, <1>5
  <2>2. ASSUME NEW m \in Nat, m \in P PROVE m + 1 \in P
    <3> SUFFICES ASSUME m + 1 \in 0..L PROVE folded[m + 1] = f[m + 1]
      OBVIOUS
    <3>1. m \in 0..L /\ (m + 1) - 1 = m /\ m + 1 \in 1..L
      BY <1>0
    <3>2. folded[m] = f[m]
      BY <2>2, <3>1
    <3>3. folded[m + 1] = step[<<folded[(m + 1) - 1], s[m + 1]>>]
      BY <1>4, <1>5, <3>1
    <3>4. f[m + 1] = step[<<f[(m + 1) - 1], s[m + 1]>>]
      BY <1>3, <1>5, <3>1
    <3> QED
      BY <3>1, <3>2, <3>3, <3>4
  <2>3. \A m \in Nat : m \in P
    <3> HIDE DEF P
    <3> QED
      BY <2>1, <2>2, SetInduction
  <2> QED
    BY <1>0, <2>3
<1> QED
  <2> HIDE DEF folded, Body
  <2>1. L \in 0..L
    BY <1>0
  <2>2. Folded(step, base, s) = f[L]
    BY <1>6, <1>7, <2>1
  <2>3. f[0] = base /\ \A n \in 1..L : f[n] = step[<<f[n - 1], s[n]>>]
    BY <1>3, <1>5
  <2> QED
    BY <1>2, <2>2, <2>3 DEF FoldedStepwise, L

(* What holds of each value for as many elements as it is made of. *)
LEMMA FoldedInduction ==
  ASSUME NEW V, NEW T, NEW base \in V, NEW step \in [V \X T -> V], NEW s \in Seq(T), NEW P,
         base \in P[0],
         \A n \in 1..Len(s) : \A v \in V : v \in P[n - 1] => step[<<v, s[n]>>] \in P[n]
  PROVE  Folded(step, base, s) \in V /\ Folded(step, base, s) \in P[Len(s)]
<1>1. PICK f : FoldedStepwise(f, step, base, s, V)
  BY FoldedDefined
<1>2. /\ f \in [0..Len(s) -> V] /\ Folded(step, base, s) = f[Len(s)] /\ f[0] = base
      /\ \A n \in 1..Len(s) : f[n] = step[<<f[n - 1], s[n]>>]
  BY <1>1 DEF FoldedStepwise
<1> DEFINE Q == {n \in Nat : n \in 0..Len(s) => f[n] \in P[n]}
<1>3. 0 \in Q
  BY <1>2
<1>4. ASSUME NEW n \in Nat, n \in Q PROVE n + 1 \in Q
  <2> SUFFICES ASSUME n + 1 \in 0..Len(s) PROVE f[n + 1] \in P[n + 1]
    OBVIOUS
  <2>1. n \in 0..Len(s) /\ n + 1 \in 1..Len(s) /\ (n + 1) - 1 = n
    OBVIOUS
  <2>2. f[n] \in V /\ f[n] \in P[(n + 1) - 1]
    BY <1>2, <1>4, <2>1
  <2>3. f[n + 1] = step[<<f[n], s[n + 1]>>]
    BY <1>2, <2>1
  <2> QED
    BY <2>1, <2>2, <2>3
<1>5. \A n \in Nat : n \in Q
  <2> HIDE DEF Q
  <2> QED
    BY <1>3, <1>4, SetInduction
<1>6. Len(s) \in Nat /\ Len(s) \in 0..Len(s)
  OBVIOUS
<1> QED
  BY <1>2, <1>5, <1>6

(* Two foldings that do the same to the elements there are. *)
LEMMA FoldedAgree ==
  ASSUME NEW V, NEW T, NEW base \in V, NEW step \in [V \X T -> V], NEW other \in [V \X T -> V], NEW s \in Seq(T),
         \A n \in 1..Len(s) : \A v \in V : other[<<v, s[n]>>] = step[<<v, s[n]>>]
  PROVE  Folded(other, base, s) = Folded(step, base, s)
<1>1. PICK f : FoldedStepwise(f, step, base, s, V)
  BY FoldedDefined
<1>2. /\ f \in [0..Len(s) -> V] /\ Folded(step, base, s) = f[Len(s)] /\ f[0] = base
      /\ \A n \in 1..Len(s) : f[n] = step[<<f[n - 1], s[n]>>]
  BY <1>1 DEF FoldedStepwise
<1> DEFINE P == [n \in Nat |-> {f[n]}]
<1>3. base \in P[0]
  BY <1>2
<1>4. ASSUME NEW n \in 1..Len(s), NEW v \in V, v \in P[n - 1] PROVE other[<<v, s[n]>>] \in P[n]
  <2>1. n - 1 \in Nat /\ n \in Nat /\ n - 1 \in 0..Len(s)
    OBVIOUS
  <2>2. v = f[n - 1]
    BY <1>4, <2>1
  <2> QED
    BY <1>2, <2>1, <2>2
<1>5. Len(s) \in Nat /\ P[Len(s)] = {f[Len(s)]}
  OBVIOUS
<1> HIDE DEF P
<1>6. Folded(other, base, s) \in P[Len(s)]
  BY <1>3, <1>4, FoldedInduction
<1> QED
  BY <1>2, <1>5, <1>6

(* The value of one element more. *)
LEMMA FoldedAppend ==
  ASSUME NEW V, NEW T, NEW base \in V, NEW step \in [V \X T -> V], NEW s \in Seq(T), NEW e \in T
  PROVE  /\ Folded(step, base, s) \in V /\ Folded(step, base, << >>) = base
         /\ Folded(step, base, Append(s, e)) = step[<<Folded(step, base, s), e>>]
<1> DEFINE t == Append(s, e)
<1>1. /\ t \in Seq(T) /\ Len(t) = Len(s) + 1 /\ Len(s) \in Nat
      /\ \A n \in 1..Len(s) : t[n] = s[n] /\ n \in 1..Len(t)
      /\ t[Len(s) + 1] = e
  OBVIOUS
<1> HIDE DEF t
<1>2. PICK f : FoldedStepwise(f, step, base, t, V)
  BY <1>1, FoldedDefined
<1>3. /\ f \in [0..Len(t) -> V] /\ Folded(step, base, t) = f[Len(t)] /\ f[0] = base
      /\ \A n \in 1..Len(t) : f[n] = step[<<f[n - 1], t[n]>>]
  BY <1>2 DEF FoldedStepwise
<1> DEFINE P == [n \in Nat |-> {f[n]}]
<1>4. base \in P[0]
  BY <1>3
<1>5. ASSUME NEW n \in 1..Len(s), NEW v \in V, v \in P[n - 1] PROVE step[<<v, s[n]>>] \in P[n]
  <2>1. n - 1 \in Nat /\ n \in Nat
    OBVIOUS
  <2>2. v = f[n - 1]
    BY <1>5, <2>1
  <2> QED
    BY <1>1, <1>3, <2>1, <2>2
<1>6. P[Len(s)] = {f[Len(s)]}
  BY <1>1
<1> HIDE DEF P
<1>7. Folded(step, base, s) \in P[Len(s)] /\ Folded(step, base, s) \in V
  BY <1>4, <1>5, FoldedInduction
<1>8. f[Len(t)] = step[<<f[Len(s)], e>>]
  <2>1. Len(t) \in 1..Len(t) /\ Len(t) - 1 = Len(s)
    BY <1>1
  <2> QED
    BY <1>1, <1>3, <2>1
<1>9. Folded(step, base, << >>) = base
  <2>1. << >> \in Seq(T) /\ Len(<< >>) = 0
    OBVIOUS
  <2>2. \E g : FoldedStepwise(g, step, base, << >>, V)
    BY <2>1, FoldedDefined
  <2> QED
    BY <2>1, <2>2 DEF FoldedStepwise
<1> QED
  BY <1>3, <1>6, <1>7, <1>8, <1>9 DEF t
===============================================================================
