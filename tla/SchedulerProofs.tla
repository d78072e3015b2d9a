-------------------------- MODULE SchedulerProofs --------------------------
(***************************************************************************)
(* Theorems about Scheduler for every number of coroutines, of one-shot    *)
(* routines and of outstanding requests: the intrusive list is at all      *)
(* times the queue that RunQueue describes.                                *)
(***************************************************************************)
EXTENDS Scheduler, FiniteSetTheorems, WellFoundedInduction, SequenceTheorems, TLAPS

Threads == Routines \ {Master}

\* The routine at position i of q; the header is before the first and behind
\* the last one.
At(q, i) == IF i \in 1 .. Len(q) THEN q[i] ELSE Master

Distinct(q) == \A i, j \in 1 .. Len(q) : q[i] = q[j] => i = j

\* Following next_ from the header passes through q.
Through(q) == \A i \in 0 .. Len(q) : next[At(q, i)] = At(q, i + 1)

\* The pointers link the routines of q, in this order.
Linked(q) ==
  /\ q \in Seq(Threads) /\ Distinct(q) /\ Through(q)
  /\ \A i \in 1 .. Len(q) : prev[q[i]] = At(q, i - 1)
  /\ tailer = At(q, Len(q))
-----------------------------------------------------------------------------
(* Walking along the list                                                  *)
-----------------------------------------------------------------------------
LEMMA LeastNumber ==
  ASSUME NEW T, T \subseteq Nat, T # {}
  PROVE  \E x \in T : \A y \in T : x <= y
<1> DEFINE R == OpToRel(<, Nat)
<1>1. IsWellFoundedOn(R, Nat)
  BY NatLessThanWellFounded
<1>2. \A x, y \in Nat : << y, x >> \in R <=> y < x
  BY DEF OpToRel
<1> HIDE DEF R
<1>3. PICK x \in T : \A y \in T : ~(<< y, x >> \in R)
  BY <1>1, WFMin
<1>4. ASSUME NEW y \in T PROVE x <= y
  <2>1. ~(y < x)
    BY <1>2, <1>3
  <2> QED
    BY <2>1
<1> QED
  BY <1>4

\* The iterates of next_, up to any number of them, exist.
LEMMA IteratesExist ==
  ASSUME NEW nx \in [Routines -> Routines], NEW K \in Nat
  PROVE  \E f \in [0 .. K -> Routines] :
           f[0] = Master /\ \A i \in 1 .. K : f[i] = nx[f[i - 1]]
<1> DEFINE Good(m) == \E f \in [0 .. m -> Routines] :
                        f[0] = Master /\ \A i \in 1 .. m : f[i] = nx[f[i - 1]]
           T == { m \in Nat : ~Good(m) }
<1>1. Master \in Routines
  BY SchedulerAssumption DEF Master, Routines
<1>2. Good(0)
  <2>1. PICK g : g = [i \in 0 .. 0 |-> Master]
    OBVIOUS
  <2>2. g \in [0 .. 0 -> Routines] /\ g[0] = Master
    BY <1>1, <2>1
  <2>3. \A i \in 1 .. 0 : g[i] = nx[g[i - 1]]
    OBVIOUS
  <2> QED
    BY <2>2, <2>3
<1>3. ASSUME NEW m \in Nat, m # 0, Good(m - 1) PROVE Good(m)
  <2>1. PICK f \in [0 .. m - 1 -> Routines] :
          f[0] = Master /\ \A i \in 1 .. m - 1 : f[i] = nx[f[i - 1]]
    BY <1>3
  <2>2. PICK g : g = [i \in 0 .. m |-> IF i = m THEN nx[f[m - 1]] ELSE f[i]]
    OBVIOUS
  <2>3. m - 1 \in 0 .. m - 1 /\ \A i \in 0 .. m : i = m \/ i \in 0 .. m - 1
    BY <1>3
  <2>4. g \in [0 .. m -> Routines]
    BY <2>2, <2>3
  <2>5. g[0] = Master
    BY <1>3, <2>1, <2>2
  <2>6. ASSUME NEW i \in 1 .. m PROVE g[i] = nx[g[i - 1]]
    <3>1. i - 1 \in 0 .. m /\ i - 1 # m /\ i \in 0 .. m
      OBVIOUS
    <3>2. g[i - 1] = f[i - 1]
      BY <2>2, <3>1
    <3>3. CASE i = m
      BY <2>2, <3>1, <3>2, <3>3
    <3>4. CASE i # m
      <4>1. i \in 1 .. m - 1
        BY <3>4
      <4>2. g[i] = f[i]
        BY <2>2, <3>1, <3>4
      <4> QED
        BY <2>1, <3>2, <4>1, <4>2
    <3> QED
      BY <3>3, <3>4
  <2> QED
    BY <2>4, <2>5, <2>6
<1> HIDE DEF Good
<1>4. T = {}
  <2> SUFFICES ASSUME T # {} PROVE FALSE
    OBVIOUS
  <2>1. T \subseteq Nat
    OBVIOUS
  <2> HIDE DEF T
  <2>2. PICK m \in T : \A y \in T : m <= y
    BY <2>1, LeastNumber
  <2>3. m \in Nat /\ ~Good(m)
    BY <2>2 DEF T
  <2>4. m # 0
    BY <1>2, <2>3
  <2>5. m - 1 \in Nat /\ ~(m <= m - 1)
    BY <2>3, <2>4
  <2>6. Good(m - 1)
    BY <2>2, <2>5 DEF T
  <2> QED
    BY <1>3, <2>3, <2>4, <2>6
<1> QED
  BY <1>4 DEF Good

\* Walk satisfies the equation it is defined by.
LEMMA WalkIs ==
  ASSUME next \in [Routines -> Routines]
  PROVE  /\ Walk[0] = Master
         /\ \A i \in 1 .. N + M + 1 : Walk[i] = next[Walk[i - 1]]
<1>1. PICK K \in Nat : K = N + M + 1
  BY SchedulerAssumption
<1>2. PICK f \in [0 .. K -> Routines] :
        f[0] = Master /\ \A i \in 1 .. K : f[i] = next[f[i - 1]]
  BY IteratesExist
<1>3. f = [i \in 0 .. K |-> IF i = 0 THEN Master ELSE next[f[i - 1]]]
  <2>1. \A i \in 0 .. K : f[i] = IF i = 0 THEN Master ELSE next[f[i - 1]]
    BY <1>2
  <2> QED
    BY <2>1
<1>4. Walk = [i \in 0 .. K |-> IF i = 0 THEN Master ELSE next[Walk[i - 1]]]
  BY <1>1, <1>3 DEF Walk
<1>5. 0 \in 0 .. K /\ \A i \in 1 .. K : i \in 0 .. K /\ i # 0
  OBVIOUS
<1> QED
  BY <1>1, <1>4, <1>5

\* There are no more places in the list than routines.
LEMMA ListFits ==
  ASSUME NEW q \in Seq(Threads), Distinct(q)
  PROVE  Len(q) \in Nat /\ Len(q) <= N + M
<1>1. PICK n \in Nat : n = Len(q)
  OBVIOUS
<1>2. PICK K \in Nat : K = N + M
  BY SchedulerAssumption
<1>3. Threads = 1 .. K
  BY <1>2 DEF Threads, Routines, Master
<1>4. IsFiniteSet(Threads) /\ Cardinality(Threads) = K
  <2>1. Cardinality(1 .. K) = IF 1 > K THEN 0 ELSE K - 1 + 1
    BY FS_Interval
  <2>2. IsFiniteSet(1 .. K)
    BY FS_Interval
  <2>3. Cardinality(1 .. K) = K
    BY <2>1
  <2> QED
    BY <1>3, <2>2, <2>3
<1>5. Cardinality(1 .. n) = n
  <2>1. Cardinality(1 .. n) = IF 1 > n THEN 0 ELSE n - 1 + 1
    BY FS_Interval
  <2> QED
    BY <2>1
<1>6. q \in Injection(1 .. n, Threads)
  BY <1>1 DEF Distinct, Injection, IsInjective
<1>7. Cardinality(1 .. n) <= Cardinality(Threads)
  BY <1>4, <1>6, FS_Injection
<1> QED
  BY <1>1, <1>2, <1>4, <1>5, <1>7

\* The walk passes through q and is back at the header behind it.
LEMMA WalkThrough ==
  ASSUME next \in [Routines -> Routines], NEW q \in Seq(Threads), Distinct(q), Through(q)
  PROVE  \A i \in 0 .. Len(q) + 1 : Walk[i] = At(q, i)
<1>1. PICK n \in Nat : n = Len(q) /\ n <= N + M
  BY ListFits
<1>2. PICK K \in Nat : K = N + M + 1 /\ n + 1 <= K
  BY <1>1, SchedulerAssumption
<1>3. Walk[0] = Master /\ \A i \in 1 .. K : Walk[i] = next[Walk[i - 1]]
  BY <1>2, WalkIs
<1> DEFINE T == { i \in 0 .. n + 1 : Walk[i] # At(q, i) }
<1>4. T = {}
  <2> SUFFICES ASSUME T # {} PROVE FALSE
    OBVIOUS
  <2>1. T \subseteq Nat
    OBVIOUS
  <2> HIDE DEF T
  <2>2. PICK m \in T : \A y \in T : m <= y
    BY <2>1, LeastNumber
  <2>3. m \in 0 .. n + 1 /\ Walk[m] # At(q, m)
    BY <2>2 DEF T
  <2>4. m # 0
    <3>1. At(q, 0) = Master
      BY DEF At
    <3> QED
      BY <1>3, <2>3, <3>1
  <2>5. /\ m - 1 \in 0 .. n + 1 /\ ~(m <= m - 1) /\ m \in 1 .. K /\ m - 1 \in 0 .. n
        /\ m - 1 + 1 = m
    BY <1>2, <2>3, <2>4
  <2>6. Walk[m - 1] = At(q, m - 1)
    BY <2>2, <2>5 DEF T
  <2>7. next[At(q, m - 1)] = At(q, m)
    BY <1>1, <2>5 DEF Through
  <2> QED
    BY <1>3, <2>3, <2>5, <2>6, <2>7
<1> QED
  BY <1>1, <1>4

\* Chain is the queue that the pointers link.
LEMMA ChainIs ==
  ASSUME next \in [Routines -> Routines], NEW q, Linked(q)
  PROVE  Chain = q
<1>1. q \in Seq(Threads) /\ Distinct(q) /\ Through(q)
  BY DEF Linked
<1>2. PICK n \in Nat : n = Len(q) /\ n <= N + M
  BY <1>1, ListFits
<1>3. PICK K \in Nat : K = N + M
  BY SchedulerAssumption
<1>4. \A i \in 0 .. n + 1 : Walk[i] = At(q, i)
  BY <1>1, <1>2, WalkThrough
<1>5. \A i \in 1 .. n : Walk[i] = q[i] /\ q[i] # Master
  BY <1>1, <1>2, <1>4 DEF At, Threads
<1>6. Walk[n + 1] = Master
  <2>1. n + 1 \in 0 .. n + 1 /\ n + 1 \notin 1 .. n
    OBVIOUS
  <2> QED
    BY <1>2, <1>4, <2>1 DEF At
<1> DEFINE P(m) == /\ m <= K => Walk[m + 1] = Master
                   /\ \A i \in 1 .. m : Walk[i] # Master
<1>7. n \in 0 .. K + 1 /\ P(n)
  BY <1>2, <1>3, <1>5, <1>6
<1>8. ASSUME NEW m \in 0 .. K + 1, P(m) PROVE m = n
  <2>1. ~(m < n)
    <3> SUFFICES ASSUME m < n PROVE FALSE
      OBVIOUS
    <3>1. m + 1 \in 1 .. n /\ m <= K
      BY <1>2, <1>3
    <3> QED
      BY <1>5, <1>8, <3>1
  <2>2. ~(n < m)
    <3> SUFFICES ASSUME n < m PROVE FALSE
      OBVIOUS
    <3>1. n + 1 \in 1 .. m
      OBVIOUS
    <3> QED
      BY <1>6, <1>8, <3>1
  <2> QED
    BY <2>1, <2>2
<1>9. Length = n
  <2>1. Length = CHOOSE m \in 0 .. K + 1 : P(m)
    BY <1>3 DEF Length
  <2> HIDE DEF P
  <2> QED
    BY <1>7, <1>8, <2>1
<1> QED
  BY <1>1, <1>2, <1>5, <1>9 DEF Chain
-----------------------------------------------------------------------------
(* Relinking                                                               *)
-----------------------------------------------------------------------------
LEMMA AtFacts ==
  ASSUME NEW q \in Seq(Threads), Distinct(q)
  PROVE  /\ \A i \in Int : At(q, i) \in Routines
         /\ \A i \in 1 .. Len(q) : At(q, i) = q[i] /\ q[i] \in Routines /\ q[i] # Master
         /\ \A i \in Int : i \notin 1 .. Len(q) => At(q, i) = Master
         /\ \A i, j \in 0 .. Len(q) : At(q, i) = At(q, j) => i = j
         /\ \A i \in 1 .. Len(q), j \in Int : At(q, i) = At(q, j) => i = j
<1>1. PICK n \in Nat : n = Len(q)
  OBVIOUS
<1>2. Master \in Routines
  BY SchedulerAssumption DEF Master, Routines
<1>3. \A i \in 1 .. n : At(q, i) = q[i] /\ q[i] \in Routines /\ q[i] # Master
  BY <1>1 DEF At, Threads
<1>4. \A i \in Int : i \notin 1 .. n => At(q, i) = Master
  BY <1>1 DEF At
<1>5. \A i \in 1 .. n, j \in Int : At(q, i) = At(q, j) => i = j
  <2> SUFFICES ASSUME NEW i \in 1 .. n, NEW j \in Int, At(q, i) = At(q, j) PROVE i = j
    OBVIOUS
  <2>1. j \in 1 .. n
    BY <1>3, <1>4
  <2> QED
    BY <1>1, <1>3, <2>1 DEF Distinct
<1>6. \A i, j \in 0 .. n : At(q, i) = At(q, j) => i = j
  <2> SUFFICES ASSUME NEW i \in 0 .. n, NEW j \in 0 .. n, At(q, i) = At(q, j) PROVE i = j
    OBVIOUS
  <2>1. (i \in 1 .. n \/ i = 0) /\ (j \in 1 .. n \/ j = 0) /\ i \in Int /\ j \in Int
    OBVIOUS
  <2>2. 0 \notin 1 .. n /\ 0 \in Int
    OBVIOUS
  <2> QED
    BY <1>3, <1>4, <1>5, <2>1, <2>2
<1>7. \A i \in Int : At(q, i) \in Routines
  BY <1>2, <1>3, <1>4
<1> QED
  BY <1>1, <1>3, <1>4, <1>5, <1>6, <1>7

\* add_to_routine_list appends.
LEMMA AppendLinked ==
  ASSUME TypeOK, NEW q, Linked(q), NEW r \in Threads, \A i \in 1 .. Len(q) : q[i] # r,
         next' = [next EXCEPT ![tailer] = r, ![r] = Master],
         prev' = [prev EXCEPT ![r] = tailer], tailer' = r,
         NEW t, t = Append(q, r)
  PROVE  Linked(t)'
<1>1. q \in Seq(Threads) /\ Distinct(q) /\ Through(q)
  BY DEF Linked
<1>2. PICK n \in Nat : n = Len(q)
  BY <1>1
<1>3. /\ t \in Seq(Threads) /\ Len(t) = n + 1 /\ t[n + 1] = r
      /\ \A i \in 1 .. n : t[i] = q[i]
  BY <1>1, <1>2, AppendProperties
<1>4. /\ \A i \in Int : At(q, i) \in Routines
      /\ \A i \in 1 .. n : At(q, i) = q[i] /\ q[i] # Master
      /\ \A i \in Int : i \notin 1 .. n => At(q, i) = Master
      /\ \A i, j \in 0 .. n : At(q, i) = At(q, j) => i = j
  BY <1>1, <1>2, AtFacts
<1>5. /\ \A i \in 0 .. n : At(t, i) = At(q, i)
      /\ At(t, n + 1) = r /\ At(t, n + 1 + 1) = Master
  BY <1>2, <1>3 DEF At
<1>6. tailer = At(q, n) /\ r # Master /\ r \in Routines /\ \A i \in 0 .. n : At(q, i) # r
  <2>1. tailer = At(q, n) /\ r # Master /\ r \in Routines
    BY <1>2 DEF Linked, Threads
  <2>2. ASSUME NEW i \in 0 .. n PROVE At(q, i) # r
    <3>1. i \in Int /\ (i \in 1 .. n \/ i \notin 1 .. n)
      OBVIOUS
    <3> QED
      BY <1>2, <1>4, <2>1, <3>1
  <2> QED
    BY <2>1, <2>2
<1>7. /\ next'[r] = Master /\ next'[tailer] = r
      /\ \A x \in Routines : x # r /\ x # tailer => next'[x] = next[x]
      /\ prev'[r] = tailer /\ \A x \in Routines : x # r => prev'[x] = prev[x]
  <2>1. n \in 0 .. n
    OBVIOUS
  <2>2. tailer # r
    BY <1>6, <2>1
  <2> QED
    BY <1>6, <2>2 DEF TypeOK
<1>8. Distinct(t)
  <2> SUFFICES ASSUME NEW i \in 1 .. n + 1, NEW j \in 1 .. n + 1, t[i] = t[j] PROVE i = j
    BY <1>3 DEF Distinct
  <2>1. (i \in 1 .. n \/ i = n + 1) /\ (j \in 1 .. n \/ j = n + 1)
    OBVIOUS
  <2> QED
    BY <1>1, <1>2, <1>3, <2>1 DEF Distinct
<1>9. ASSUME NEW i \in 0 .. n + 1 PROVE next'[At(t, i)] = At(t, i + 1)
  <2>1. CASE i = n + 1
    BY <1>5, <1>7, <2>1
  <2>2. CASE i = n
    <3>1. At(t, i) = tailer /\ At(t, i + 1) = r
      BY <1>5, <1>6, <2>2
    <3> QED
      BY <1>7, <3>1
  <2>3. CASE i # n /\ i # n + 1
    <3>1. i \in 0 .. n /\ i + 1 \in 0 .. n /\ n \in 0 .. n /\ i \in Int
      BY <2>3
    <3>2. At(t, i) = At(q, i) /\ At(t, i + 1) = At(q, i + 1)
      BY <1>5, <3>1
    <3>3. At(q, i) # tailer /\ At(q, i) # r /\ At(q, i) \in Routines
      BY <1>4, <1>6, <2>3, <3>1
    <3>4. next[At(q, i)] = At(q, i + 1)
      BY <1>1, <1>2, <3>1 DEF Through
    <3> QED
      BY <1>7, <3>2, <3>3, <3>4
  <2> QED
    BY <2>1, <2>2, <2>3
<1>10. ASSUME NEW i \in 1 .. n + 1 PROVE prev'[t[i]] = At(t, i - 1)
  <2>1. CASE i = n + 1
    <3>1. i - 1 = n /\ n \in 0 .. n
      BY <2>1
    <3> QED
      BY <1>3, <1>5, <1>6, <1>7, <2>1, <3>1
  <2>2. CASE i # n + 1
    <3>1. i \in 1 .. n /\ i - 1 \in 0 .. n /\ i \in Int /\ i \in 0 .. n
      BY <2>2
    <3>2. t[i] = q[i] /\ At(t, i - 1) = At(q, i - 1) /\ q[i] # r /\ q[i] \in Routines
      BY <1>3, <1>4, <1>5, <1>6, <3>1
    <3>3. prev[q[i]] = At(q, i - 1)
      BY <1>2, <3>1 DEF Linked
    <3> QED
      BY <1>7, <3>2, <3>3
  <2> QED
    BY <2>1, <2>2
<1>11. Through(t)'
  BY <1>3, <1>9 DEF Through
<1> QED
  BY <1>3, <1>5, <1>8, <1>10, <1>11 DEF Linked

\* q without its i-th element.
LEMMA WithoutIs ==
  ASSUME NEW q \in Seq(Threads), NEW i \in 1 .. Len(q), NEW t,
         t = SubSeq(q, 1, i - 1) \o SubSeq(q, i + 1, Len(q))
  PROVE  /\ t \in Seq(Threads) /\ Len(t) = Len(q) - 1
         /\ \A j \in 1 .. Len(q) - 1 : t[j] = IF j < i THEN q[j] ELSE q[j + 1]
<1>1. PICK n \in Nat : n = Len(q)
  OBVIOUS
<1>2. PICK a : a = SubSeq(q, 1, i - 1)
  OBVIOUS
<1>3. PICK b : b = SubSeq(q, i + 1, n)
  OBVIOUS
<1>4. /\ a \in Seq(Threads) /\ Len(a) = i - 1
      /\ \A j \in 1 .. i - 1 : a[j] = q[j]
  <2>1. \A j \in 1 .. i - 1 : q[j] \in Threads
    BY <1>1
  <2> QED
    BY <1>1, <1>2, <2>1
<1>5. /\ b \in Seq(Threads) /\ Len(b) = n - i
      /\ \A j \in 1 .. n - i : b[j] = q[j + i]
  <2>1. \A j \in i + 1 .. n : q[j] \in Threads
    BY <1>1
  <2> QED
    BY <1>1, <1>3, <2>1
<1>6. t = a \o b
  BY <1>1, <1>2, <1>3
<1>7. /\ t \in Seq(Threads) /\ Len(t) = n - 1
      /\ \A j \in 1 .. n - 1 : t[j] = IF j <= i - 1 THEN a[j] ELSE b[j - (i - 1)]
  <2>1. t \in Seq(Threads) /\ Len(t) = Len(a) + Len(b)
    BY <1>4, <1>5, <1>6, ConcatProperties
  <2>2. \A j \in 1 .. Len(a) + Len(b) :
           (a \o b)[j] = IF j <= Len(a) THEN a[j] ELSE b[j - Len(a)]
    BY <1>4, <1>5, ConcatProperties, Zenon
  <2>3. Len(a) + Len(b) = n - 1
    BY <1>1, <1>4, <1>5
  <2>4. \A j \in 1 .. n - 1 : t[j] = IF j <= Len(a) THEN a[j] ELSE b[j - Len(a)]
    BY <1>6, <2>2, <2>3, Zenon
  <2>5. \A j \in 1 .. n - 1 : t[j] = IF j <= i - 1 THEN a[j] ELSE b[j - (i - 1)]
    BY <1>4, <2>4, Zenon
  <2>6. Len(t) = n - 1
    BY <2>1, <2>3, Zenon
  <2> QED
    BY <2>1, <2>5, <2>6, Zenon
<1>8. ASSUME NEW j \in 1 .. n - 1 PROVE t[j] = IF j < i THEN q[j] ELSE q[j + 1]
  <2>1. CASE j < i
    <3>1. j <= i - 1 /\ j \in 1 .. i - 1
      BY <2>1
    <3> QED
      BY <1>4, <1>7, <2>1, <3>1
  <2>2. CASE ~(j < i)
    <3>1. ~(j <= i - 1) /\ j - (i - 1) \in 1 .. n - i /\ j - (i - 1) + i = j + 1
      BY <1>1, <2>2
    <3>2. t[j] = b[j - (i - 1)]
      BY <1>7, <3>1
    <3>3. b[j - (i - 1)] = q[j - (i - 1) + i]
      BY <1>5, <3>1
    <3> QED
      BY <2>2, <3>1, <3>2, <3>3
  <2> QED
    BY <2>1, <2>2
<1> QED
  BY <1>1, <1>7, <1>8

LEMMA Between ==
  ASSUME NEW n \in Nat, NEW j \in 1 .. n - 1
  PROVE  /\ j \in 0 .. n /\ j - 1 \in 0 .. n /\ j \in 1 .. n /\ j + 1 \in 1 .. n
         /\ j - 1 + 1 = j /\ j + 1 - 1 = j /\ j \in Int /\ j + 1 \in Int
OBVIOUS

LEMMA BetweenOrFirst ==
  ASSUME NEW n \in Nat, NEW j \in 0 .. n - 1
  PROVE  /\ j \in 0 .. n /\ j + 1 \in 0 .. n /\ j + 1 \in Int /\ j \in Int
         /\ j + 2 \in Int /\ j + 1 + 1 = j + 2
OBVIOUS

\* yield_from_routine_list unlinks.
LEMMA LeaveLinked ==
  ASSUME TypeOK, NEW q, Linked(q), NEW n \in Nat, n = Len(q), NEW i \in 1 .. n,
         NEW r, r = q[i],
         next' = [next EXCEPT ![prev[r]] = next[r]],
         prev' = [prev EXCEPT ![next[r]] = prev[r]],
         tailer' = IF tailer = r THEN prev[r] ELSE tailer,
         NEW t \in Seq(Threads), Len(t) = n - 1,
         \A j \in 1 .. n - 1 : t[j] = IF j < i THEN q[j] ELSE q[j + 1]
  PROVE  Linked(t)'
<1>1. q \in Seq(Threads) /\ Distinct(q) /\ Through(q)
  BY DEF Linked
<1>2. n = Len(q)
  OBVIOUS
<1>3. /\ t \in Seq(Threads) /\ Len(t) = n - 1
      /\ \A j \in 1 .. n - 1 : t[j] = IF j < i THEN q[j] ELSE q[j + 1]
  OBVIOUS
<1>4. /\ \A j \in Int : At(q, j) \in Routines
      /\ \A j \in 1 .. n : At(q, j) = q[j] /\ q[j] \in Routines /\ q[j] # Master
      /\ \A j \in Int : j \notin 1 .. n => At(q, j) = Master
      /\ \A j, m \in 0 .. n : At(q, j) = At(q, m) => j = m
      /\ \A j \in 1 .. n, m \in Int : At(q, j) = At(q, m) => j = m
  BY <1>1, <1>2, AtFacts
<1>5. i \in 1 .. n /\ i \in 0 .. n /\ i - 1 \in 0 .. n /\ i - 1 \in Int /\ i + 1 \in Int
  BY <1>2
<1>6. prev[r] = At(q, i - 1) /\ next[r] = At(q, i + 1)
  <2>1. prev[r] = At(q, i - 1)
    BY <1>2, <1>5 DEF Linked
  <2>2. next[At(q, i)] = At(q, i + 1)
    BY <1>1, <1>2, <1>5 DEF Through
  <2> QED
    BY <1>4, <1>5, <2>1, <2>2
<1>7. /\ next'[At(q, i - 1)] = At(q, i + 1) /\ prev'[At(q, i + 1)] = At(q, i - 1)
      /\ \A x \in Routines : x # At(q, i - 1) => next'[x] = next[x]
      /\ \A x \in Routines : x # At(q, i + 1) => prev'[x] = prev[x]
  BY <1>4, <1>5, <1>6 DEF TypeOK
<1>8. ASSUME NEW j \in 0 .. n PROVE At(t, j) = IF j < i THEN At(q, j) ELSE At(q, j + 1)
  <2>1. CASE j \in 1 .. n - 1
    <3>1. At(t, j) = t[j]
      BY <1>3, <2>1 DEF At
    <3>2. j \in 1 .. n /\ j + 1 \in 1 .. n
      BY <2>1, Between, Zenon
    <3> QED
      BY <1>3, <1>4, <2>1, <3>1, <3>2
  <2>2. CASE j = 0
    <3>1. j < i /\ j \notin 1 .. n - 1 /\ j \notin 1 .. n /\ j \in Int
      BY <1>5, <2>2
    <3> QED
      BY <1>3, <1>4, <3>1 DEF At
  <2>3. CASE j = n
    <3>1. ~(j < i) /\ j \notin 1 .. n - 1 /\ j + 1 \notin 1 .. n /\ j + 1 \in Int
      BY <1>5, <2>3
    <3> QED
      BY <1>3, <1>4, <3>1 DEF At
  <2>4. j \in 1 .. n - 1 \/ j = 0 \/ j = n
    OBVIOUS
  <2> QED
    BY <2>1, <2>2, <2>3, <2>4
<1>9. Distinct(t)
  <2> SUFFICES ASSUME NEW j \in 1 .. n - 1, NEW m \in 1 .. n - 1, t[j] = t[m] PROVE j = m
    BY <1>3 DEF Distinct
  <2>1. PICK x \in 1 .. n : (IF j < i THEN x = j ELSE x = j + 1) /\ t[j] = q[x]
    <3>1. j \in 1 .. n /\ j + 1 \in 1 .. n
      BY Between, Zenon
    <3> QED
      BY <1>3, <3>1
  <2>2. PICK y \in 1 .. n : (IF m < i THEN y = m ELSE y = m + 1) /\ t[m] = q[y]
    <3>1. m \in 1 .. n /\ m + 1 \in 1 .. n
      BY Between, Zenon
    <3> QED
      BY <1>3, <3>1
  <2>3. x = y
    BY <1>1, <1>2, <2>1, <2>2 DEF Distinct
  <2> QED
    BY <1>5, <2>1, <2>2, <2>3
<1>10. ASSUME NEW j \in 0 .. n - 1 PROVE next'[At(t, j)] = At(t, j + 1)
  <2>1. /\ j \in 0 .. n /\ j + 1 \in 0 .. n /\ j + 1 \in Int /\ j \in Int
        /\ j + 2 \in Int /\ j + 1 + 1 = j + 2
    BY BetweenOrFirst, Zenon
  <2>2. next[At(q, j)] = At(q, j + 1)
    BY <1>1, <1>2, <2>1 DEF Through
  <2>3. next[At(q, j + 1)] = At(q, j + 2)
    BY <1>1, <1>2, <2>1 DEF Through
  <2>4. CASE j < i - 1
    <3>1. j < i /\ j + 1 < i /\ j # i - 1
      BY <1>5, <2>4
    <3>2. At(t, j) = At(q, j) /\ At(t, j + 1) = At(q, j + 1)
      BY <1>8, <2>1, <3>1
    <3>3. At(q, j) # At(q, i - 1)
      BY <1>4, <1>5, <2>1, <3>1
    <3> QED
      BY <1>4, <1>7, <2>1, <2>2, <3>2, <3>3
  <2>5. CASE j = i - 1
    <3>1. j < i /\ ~(j + 1 < i) /\ j + 1 = i
      BY <1>5, <2>5
    <3>2. At(t, j) = At(q, i - 1) /\ At(t, j + 1) = At(q, i + 1)
      BY <1>8, <2>1, <2>5, <3>1
    <3> QED
      BY <1>7, <3>2
  <2>6. CASE i - 1 < j
    <3>1. ~(j < i) /\ ~(j + 1 < i) /\ j + 1 # i - 1
      BY <1>5, <2>6
    <3>2. At(t, j) = At(q, j + 1) /\ At(t, j + 1) = At(q, j + 2)
      BY <1>8, <2>1, <3>1
    <3>3. At(q, j + 1) # At(q, i - 1)
      BY <1>4, <1>5, <2>1, <3>1
    <3> QED
      BY <1>4, <1>7, <2>1, <2>3, <3>2, <3>3
  <2>7. j < i - 1 \/ j = i - 1 \/ i - 1 < j
    BY <1>5
  <2> QED
    BY <2>4, <2>5, <2>6, <2>7
<1>11. ASSUME NEW j \in 1 .. n - 1 PROVE prev'[t[j]] = At(t, j - 1)
  <2>1. /\ j \in 0 .. n /\ j - 1 \in 0 .. n /\ j \in 1 .. n /\ j + 1 \in 1 .. n
        /\ j - 1 + 1 = j /\ j + 1 - 1 = j /\ j \in Int /\ j + 1 \in Int
    BY Between, Zenon
  <2>2. prev[q[j]] = At(q, j - 1) /\ prev[q[j + 1]] = At(q, j)
    BY <1>2, <2>1 DEF Linked
  <2>3. CASE j < i
    <3>1. j - 1 < i /\ j # i + 1
      BY <1>5, <2>3
    <3>2. t[j] = q[j] /\ At(t, j - 1) = At(q, j - 1)
      BY <1>3, <1>8, <2>1, <2>3, <3>1
    <3>3. q[j] # At(q, i + 1) /\ q[j] \in Routines
      BY <1>4, <1>5, <2>1, <3>1
    <3> QED
      BY <1>7, <2>2, <3>2, <3>3
  <2>4. CASE j = i
    <3>1. ~(j < i) /\ j - 1 < i
      BY <1>5, <2>4
    <3>2. t[j] = q[j + 1] /\ At(t, j - 1) = At(q, i - 1)
      BY <1>3, <1>8, <2>1, <2>4, <3>1
    <3>3. q[j + 1] = At(q, i + 1)
      BY <1>4, <2>1, <2>4
    <3> QED
      BY <1>7, <3>2, <3>3
  <2>5. CASE i < j
    <3>1. ~(j < i) /\ ~(j - 1 < i) /\ j + 1 # i + 1
      BY <1>5, <2>5
    <3>2. t[j] = q[j + 1] /\ At(t, j - 1) = At(q, j)
      BY <1>3, <1>8, <2>1, <3>1
    <3>3. q[j + 1] # At(q, i + 1) /\ q[j + 1] \in Routines
      BY <1>4, <1>5, <2>1, <3>1, SMTT(30)
    <3> QED
      BY <1>7, <2>2, <3>2, <3>3
  <2>6. j < i \/ j = i \/ i < j
    BY <1>5
  <2> QED
    BY <2>3, <2>4, <2>5, <2>6
<1>12. tailer' = At(t, n - 1)
  <2>1. n - 1 \in 0 .. n /\ n - 1 + 1 = n /\ n \in 1 .. n /\ n \in Int
    BY <1>5
  <2>2. tailer = At(q, n)
    BY <1>2 DEF Linked
  <2>3. CASE i = n
    <3>1. tailer = r /\ n - 1 < i
      BY <1>4, <1>5, <2>1, <2>2, <2>3
    <3> QED
      BY <1>6, <1>8, <2>1, <2>3, <3>1
  <2>4. CASE i # n
    <3>1. tailer # r
      BY <1>4, <1>5, <2>1, <2>2, <2>4
    <3>2. ~(n - 1 < i)
      BY <1>5, <2>4
    <3> QED
      BY <1>8, <2>1, <2>2, <3>1, <3>2
  <2> QED
    BY <2>3, <2>4
<1>13. Through(t)'
  BY <1>3, <1>10 DEF Through
<1> QED
  BY <1>3, <1>9, <1>11, <1>12, <1>13 DEF Linked
-----------------------------------------------------------------------------
(* The inductive invariant, and the steps of the queue                     *)
-----------------------------------------------------------------------------
In(q) == { q[i] : i \in 1 .. Len(q) }

Without(q, i) == SubSeq(q, 1, i - 1) \o SubSeq(q, i + 1, Len(q))

\* Who is on the list, who runs, and what a sleeping coroutine waits for.
State(q) ==
  /\ \A c \in Cors : c \in In(q) <=> (c = current \/ (Idle(c) /\ ~timer[c]))
  /\ \A s \in Shots : s \in In(q) <=> s \notin pool
  /\ current = Master \/ current \in In(q)
  /\ ActiveRuns
  /\ \A c \in Cors : timer[c] => Idle(c) /\ c # current

Inv == TypeOK /\ \E q : Linked(q) /\ State(q)

\* What a step may do to the queue.
Moves(q, t) ==
  \/ t = q /\ current' = current
  \/ \E r \in Threads :
       current = Master /\ r \notin In(q) /\ t = Append(q, r) /\ current' = current
  \/ t = q /\ current = Master /\ q # << >> /\ current' = q[1]
  \/ \E i \in 1 .. Len(q) :
       current = q[i] /\ current' = At(q, i + 1) /\ (t = q \/ t = Without(q, i))

LEMMA RoutineFacts ==
  /\ Threads = Cors \cup Shots /\ Cors \cap Shots = {}
  /\ Master \notin Threads /\ Master \in Routines /\ Threads \subseteq Routines
BY SchedulerAssumption DEF Threads, Cors, Shots, Routines, Master

LEMMA AppendIn ==
  ASSUME NEW q \in Seq(Threads), NEW r \in Threads, NEW t, t = Append(q, r)
  PROVE  In(t) = In(q) \cup {r}
<1>1. PICK n \in Nat : n = Len(q)
  OBVIOUS
<1>2. Len(t) = n + 1 /\ t[n + 1] = r /\ \A i \in 1 .. n : t[i] = q[i]
  BY <1>1, AppendProperties
<1>3. /\ \A i \in 1 .. n + 1 : i \in 1 .. n \/ i = n + 1
      /\ \A i \in 1 .. n : i \in 1 .. n + 1
      /\ n + 1 \in 1 .. n + 1
  OBVIOUS
<1> QED
  BY <1>1, <1>2, <1>3 DEF In

LEMMA WithoutIn ==
  ASSUME NEW q \in Seq(Threads), Distinct(q), NEW n \in Nat, n = Len(q), NEW i \in 1 .. n,
         NEW t, Len(t) = n - 1,
         \A j \in 1 .. n - 1 : t[j] = IF j < i THEN q[j] ELSE q[j + 1]
  PROVE  \A x : x \in In(t) <=> (x \in In(q) /\ x # q[i])
<1>1. ASSUME NEW x \in In(t) PROVE x \in In(q) \ {q[i]}
  <2>1. PICK j \in 1 .. n - 1 : x = t[j]
    BY DEF In
  <2>2. j \in 1 .. n /\ j + 1 \in 1 .. n
    BY Between, Zenon
  <2>3. PICK m \in 1 .. n : x = q[m] /\ m # i
    <3>1. CASE j < i
      BY <2>1, <2>2, <3>1
    <3>2. CASE ~(j < i)
      <4>1. j + 1 # i
        BY <3>2
      <4> QED
        BY <2>1, <2>2, <3>2, <4>1
    <3> QED
      BY <3>1, <3>2
  <2>4. q[m] # q[i]
    BY <2>3 DEF Distinct
  <2> QED
    BY <2>3, <2>4 DEF In
<1>2. ASSUME NEW x \in In(q), x # q[i] PROVE x \in In(t)
  <2>1. PICK m \in 1 .. n : x = q[m] /\ m # i
    BY <1>2 DEF In
  <2>2. PICK j \in 1 .. n - 1 : t[j] = x
    <3>1. CASE m < i
      <4>1. m \in 1 .. n - 1
        BY <3>1
      <4> QED
        BY <2>1, <3>1, <4>1
    <3>2. CASE ~(m < i)
      <4>1. m - 1 \in 1 .. n - 1 /\ ~(m - 1 < i) /\ m - 1 + 1 = m
        BY <2>1, <3>2
      <4> QED
        BY <2>1, <4>1
    <3> QED
      BY <3>1, <3>2
  <2> QED
    BY <2>2 DEF In
<1> QED
  BY <1>1, <1>2

\* A routine that is not listed is appended.
LEMMA AddStep ==
  ASSUME TypeOK, NEW q, Linked(q), State(q), current = Master,
         NEW r \in Threads, r \notin In(q), AddToRoutineList(r)
  PROVE  /\ next' \in [Routines -> Routines] /\ prev' \in [Routines -> Routines]
         /\ tailer' \in Routines
         /\ \E t : Linked(t)' /\ In(t) = In(q) \cup {r} /\ t = Append(q, r)
<1>1. r \in Routines /\ r # Master /\ Master \in Routines /\ Routines \ {Master} = Threads
  BY RoutineFacts DEF Threads
<1>2. ~active[r]
  BY <1>1 DEF State, ActiveRuns
<1>3. /\ next' = [next EXCEPT ![tailer] = r, ![r] = Master]
      /\ prev' = [prev EXCEPT ![r] = tailer] /\ tailer' = r
  BY <1>2 DEF AddToRoutineList
<1>4. PICK t : t = Append(q, r)
  OBVIOUS
<1>5. Linked(t)'
  <2>1. \A i \in 1 .. Len(q) : q[i] # r
    BY DEF In
  <2> QED
    BY <1>3, <1>4, <2>1, AppendLinked
<1>6. In(t) = In(q) \cup {r}
  BY <1>4, AppendIn DEF Linked
<1>7. next' \in [Routines -> Routines] /\ prev' \in [Routines -> Routines] /\ tailer' \in Routines
  BY <1>1, <1>3 DEF TypeOK
<1> QED
  BY <1>4, <1>5, <1>6, <1>7

\* The routine behind the one that runs.
LEMMA FollowerIs ==
  ASSUME TypeOK, NEW q, Linked(q), State(q), current # Master
  PROVE  /\ next[current] \in Routines /\ next[current] # current
         /\ next[current] = Master \/ next[current] \in In(q)
         /\ \E i \in 1 .. Len(q) : current = q[i] /\ next[current] = At(q, i + 1)
<1>1. PICK n \in Nat : n = Len(q)
  BY DEF Linked
<1>2. PICK i \in 1 .. n : current = q[i]
  BY <1>1 DEF State, In
<1>3. i \in 0 .. n /\ i \in Int /\ i + 1 \in Int /\ i # i + 1
  OBVIOUS
<1>4. /\ \A j \in Int : At(q, j) \in Routines
      /\ \A j \in 1 .. n : At(q, j) = q[j]
      /\ \A j \in Int : j \notin 1 .. n => At(q, j) = Master
      /\ \A j \in 1 .. n, m \in Int : At(q, j) = At(q, m) => j = m
  BY <1>1, AtFacts DEF Linked
<1>5. next[current] = At(q, i + 1)
  BY <1>1, <1>2, <1>3, <1>4 DEF Linked, Through
<1>6. At(q, i + 1) = Master \/ At(q, i + 1) \in In(q)
  BY <1>1, <1>3, <1>4 DEF In
<1> QED
  BY <1>1, <1>2, <1>3, <1>4, <1>5, <1>6

\* Handing over moves the active mark.
LEMMA MarkMoves ==
  ASSUME TypeOK, ActiveRuns, NEW r \in Routines, NEW a \in [Routines -> BOOLEAN],
         \A x \in Routines \ {Master} : ~a[x], YieldTo(r, a)
  PROVE  active' \in [Routines -> BOOLEAN] /\ current' = r /\ ActiveRuns'
BY DEF YieldTo, ActiveRuns, TypeOK

\* The running routine leaves the list and its follower runs.
LEMMA LeaveStep ==
  ASSUME TypeOK, NEW q, Linked(q), State(q), current # Master, YieldFromRoutineList(current)
  PROVE  /\ next' \in [Routines -> Routines] /\ prev' \in [Routines -> Routines]
         /\ tailer' \in Routines /\ active' \in [Routines -> BOOLEAN] /\ current' \in Routines
         /\ ActiveRuns' /\ current' # current
         /\ \E t : /\ Linked(t)' /\ In(t) = In(q) \ {current} /\ Moves(q, t)
                   /\ current' = Master \/ current' \in In(t)
<1>1. /\ next[current] \in Routines /\ next[current] # current
      /\ next[current] = Master \/ next[current] \in In(q)
  BY FollowerIs
<1>2. PICK i \in 1 .. Len(q) : current = q[i] /\ next[current] = At(q, i + 1)
  BY FollowerIs
<1>3. /\ next' = [next EXCEPT ![prev[current]] = next[current]]
      /\ prev' = [prev EXCEPT ![next[current]] = prev[current]]
      /\ tailer' = IF tailer = current THEN prev[current] ELSE tailer
      /\ YieldTo(next[current], [active EXCEPT ![current] = FALSE])
  BY DEF YieldFromRoutineList
<1>4. prev[current] \in Routines
  BY DEF TypeOK
<1>5. /\ next' \in [Routines -> Routines] /\ prev' \in [Routines -> Routines]
      /\ tailer' \in Routines
  BY <1>1, <1>3, <1>4 DEF TypeOK
<1>6. active' \in [Routines -> BOOLEAN] /\ current' = next[current] /\ ActiveRuns'
  <2>1. PICK a : a = [active EXCEPT ![current] = FALSE]
    OBVIOUS
  <2>2. a \in [Routines -> BOOLEAN] /\ ActiveRuns
    BY <2>1 DEF TypeOK, State
  <2>3. \A x \in Routines \ {Master} : ~a[x]
    BY <2>1, <2>2 DEF ActiveRuns, TypeOK
  <2> QED
    BY <1>1, <1>3, <2>1, <2>2, <2>3, MarkMoves
<1>7. PICK t : t = Without(q, i)
  OBVIOUS
<1>8. q \in Seq(Threads) /\ Distinct(q)
  BY DEF Linked
<1>9. PICK n \in Nat : n = Len(q) /\ i \in 1 .. n
  BY <1>8
<1>10. /\ t \in Seq(Threads) /\ Len(t) = n - 1
       /\ \A j \in 1 .. n - 1 : t[j] = IF j < i THEN q[j] ELSE q[j + 1]
  <2>1. t = SubSeq(q, 1, i - 1) \o SubSeq(q, i + 1, Len(q))
    BY <1>7 DEF Without
  <2> QED
    BY <1>8, <1>9, <2>1, WithoutIs, ZenonT(60)
<1>11. Linked(t)'
  <2>1. PICK r : r = q[i] /\ r = current
    BY <1>2
  <2>2. /\ next' = [next EXCEPT ![prev[r]] = next[r]]
        /\ prev' = [prev EXCEPT ![next[r]] = prev[r]]
        /\ tailer' = IF tailer = r THEN prev[r] ELSE tailer
    BY <1>3, <2>1, Zenon
  <2> QED
    BY <1>9, <1>10, <2>1, <2>2, LeaveLinked, ZenonT(60)
<1>12. In(t) = In(q) \ {current}
  <2>1. \A x : x \in In(t) <=> (x \in In(q) /\ x # q[i])
    BY <1>8, <1>9, <1>10, WithoutIn, ZenonT(60)
  <2> QED
    BY <1>2, <2>1
<1>13. Moves(q, t)
  BY <1>2, <1>6, <1>7 DEF Moves
<1> QED
  BY <1>1, <1>5, <1>6, <1>11, <1>12, <1>13

\* The step keeps the invariant and is a step of the queue, or of none.
Advances(q) == TypeOK' /\ \E t : Linked(t)' /\ State(t)' /\ Moves(q, t)

LEMMA SameList ==
  ASSUME NEW q, Linked(q), next' = next, prev' = prev, tailer' = tailer
  PROVE  Linked(q)'
BY DEF Linked, Through
-----------------------------------------------------------------------------
(* The actions                                                             *)
-----------------------------------------------------------------------------
LEMMA SendRequestsStep ==
  ASSUME TypeOK, NEW q, Linked(q), State(q), NEW c \in Cors, NEW n \in 1 .. MaxOps,
         SendRequests(c, n)
  PROVE  Advances(q)
<1>1. /\ current = c /\ replies[c] + n <= MaxOps /\ replies' = [replies EXCEPT ![c] = @ + n]
      /\ next' = next /\ prev' = prev /\ tailer' = tailer /\ active' = active
      /\ current' = current /\ verbs' = verbs /\ timer' = timer /\ pool' = pool
  BY DEF SendRequests, list
<1>2. replies' \in [Cors -> 0 .. MaxOps]
  <2>1. replies[c] \in Nat /\ replies[c] + n \in 0 .. MaxOps
    BY <1>1, SchedulerAssumption DEF TypeOK
  <2> QED
    BY <1>1, <2>1 DEF TypeOK
<1>3. TypeOK'
  BY <1>1, <1>2 DEF TypeOK
<1>4. ASSUME NEW d \in Cors, d # c PROVE Idle(d)' <=> Idle(d)
  BY <1>1, <1>4 DEF Idle, TypeOK
<1>5. State(q)'
  BY <1>1, <1>4 DEF State, ActiveRuns
<1> QED
  BY <1>1, <1>3, <1>5, SameList DEF Advances, Moves

LEMMA PostVerbStep ==
  ASSUME TypeOK, NEW q, Linked(q), State(q), NEW c \in Cors, PostVerb(c)
  PROVE  Advances(q)
<1>1. /\ current = c /\ verbs[c] < MaxOps /\ verbs' = [verbs EXCEPT ![c] = @ + 1]
      /\ next' = next /\ prev' = prev /\ tailer' = tailer /\ active' = active
      /\ current' = current /\ replies' = replies /\ timer' = timer /\ pool' = pool
  BY DEF PostVerb, list
<1>2. verbs' \in [Cors -> 0 .. MaxOps]
  <2>1. verbs[c] + 1 \in 0 .. MaxOps
    BY <1>1, SchedulerAssumption DEF TypeOK
  <2> QED
    BY <1>1, <2>1 DEF TypeOK
<1>3. TypeOK'
  BY <1>1, <1>2 DEF TypeOK
<1>4. ASSUME NEW d \in Cors, d # c PROVE Idle(d)' <=> Idle(d)
  BY <1>1, <1>4 DEF Idle, TypeOK
<1>5. State(q)'
  BY <1>1, <1>4 DEF State, ActiveRuns
<1> QED
  BY <1>1, <1>3, <1>5, SameList DEF Advances, Moves

\* The coroutine that leaves has something outstanding, or its timer is set.
LEMMA IndirectYieldStep ==
  ASSUME TypeOK, NEW q, Linked(q), State(q), NEW c \in Cors, IndirectYield(c)
  PROVE  Advances(q)
<1>1. /\ current = c /\ ~Idle(c) /\ YieldFromRoutineList(current)
      /\ replies' = replies /\ verbs' = verbs /\ timer' = timer /\ pool' = pool
  BY DEF IndirectYield, waits
<1>2. current # Master /\ c \notin Shots
  BY <1>1, RoutineFacts
<1>3. /\ next' \in [Routines -> Routines] /\ prev' \in [Routines -> Routines]
      /\ tailer' \in Routines /\ active' \in [Routines -> BOOLEAN] /\ current' \in Routines
      /\ ActiveRuns' /\ current' # current
  BY <1>1, <1>2, LeaveStep
<1>4. PICK t : /\ Linked(t)' /\ In(t) = In(q) \ {current} /\ Moves(q, t)
               /\ current' = Master \/ current' \in In(t)
  BY <1>1, <1>2, LeaveStep
<1>5. TypeOK'
  BY <1>1, <1>3 DEF TypeOK
<1>6. \A d \in Cors : Idle(d)' <=> Idle(d)
  BY <1>1 DEF Idle
<1>7. ASSUME NEW d \in Cors
      PROVE  /\ d \in In(t) <=> (d = current' \/ (Idle(d)' /\ ~timer'[d]))
             /\ timer'[d] => Idle(d)' /\ d # current'
  <2>1. /\ d \in In(q) <=> (d = current \/ (Idle(d) /\ ~timer[d]))
        /\ timer[d] => Idle(d) /\ d # current
    BY DEF State
  <2>2. d = current' => d \in In(t)
    BY <1>2, <1>4, RoutineFacts
  <2> QED
    BY <1>1, <1>4, <1>6, <2>1, <2>2
<1>8. \A s \in Shots : s \in In(t) <=> s \notin pool'
  BY <1>1, <1>2, <1>4 DEF State
<1>9. State(t)'
  BY <1>3, <1>4, <1>7, <1>8 DEF State
<1> QED
  BY <1>4, <1>5, <1>9 DEF Advances

LEMMA IndirectYieldTimeoutStep ==
  ASSUME TypeOK, NEW q, Linked(q), State(q), NEW c \in Cors, IndirectYieldTimeout(c)
  PROVE  Advances(q)
<1>1. /\ current = c /\ Idle(c) /\ YieldFromRoutineList(current)
      /\ replies' = replies /\ verbs' = verbs /\ pool' = pool
      /\ timer' = [timer EXCEPT ![c] = TRUE]
  BY DEF IndirectYieldTimeout
<1>2. current # Master /\ c \notin Shots
  BY <1>1, RoutineFacts
<1>3. /\ next' \in [Routines -> Routines] /\ prev' \in [Routines -> Routines]
      /\ tailer' \in Routines /\ active' \in [Routines -> BOOLEAN] /\ current' \in Routines
      /\ ActiveRuns' /\ current' # current
  BY <1>1, <1>2, LeaveStep
<1>4. PICK t : /\ Linked(t)' /\ In(t) = In(q) \ {current} /\ Moves(q, t)
               /\ current' = Master \/ current' \in In(t)
  BY <1>1, <1>2, LeaveStep
<1>5. timer' \in [Cors -> BOOLEAN] /\ timer'[c] /\ \A d \in Cors : d # c => timer'[d] = timer[d]
  BY <1>1 DEF TypeOK
<1>6. TypeOK'
  BY <1>1, <1>3, <1>5 DEF TypeOK
<1>7. \A d \in Cors : Idle(d)' <=> Idle(d)
  BY <1>1 DEF Idle
<1>8. ASSUME NEW d \in Cors
      PROVE  /\ d \in In(t) <=> (d = current' \/ (Idle(d)' /\ ~timer'[d]))
             /\ timer'[d] => Idle(d)' /\ d # current'
  <2>1. /\ d \in In(q) <=> (d = current \/ (Idle(d) /\ ~timer[d]))
        /\ timer[d] => Idle(d) /\ d # current
    BY DEF State
  <2>2. d = current' => d \in In(t)
    BY <1>2, <1>4, RoutineFacts
  <2>3. CASE d = c
    BY <1>1, <1>3, <1>4, <1>5, <1>7, <2>3
  <2>4. CASE d # c
    BY <1>1, <1>4, <1>5, <1>7, <2>1, <2>2, <2>4
  <2> QED
    BY <2>3, <2>4
<1>9. \A s \in Shots : s \in In(t) <=> s \notin pool'
  BY <1>1, <1>2, <1>4 DEF State
<1>10. State(t)'
  BY <1>3, <1>4, <1>8, <1>9 DEF State
<1> QED
  BY <1>4, <1>6, <1>10 DEF Advances

LEMMA OneShotDoneStep ==
  ASSUME TypeOK, NEW q, Linked(q), State(q), NEW s \in Shots, OneShotDone(s)
  PROVE  Advances(q)
<1>1. /\ current = s /\ YieldFromRoutineList(current) /\ pool' = pool \cup {s}
      /\ replies' = replies /\ verbs' = verbs /\ timer' = timer
  BY DEF OneShotDone, waits
<1>2. current # Master /\ s \notin Cors
  BY <1>1, RoutineFacts
<1>3. /\ next' \in [Routines -> Routines] /\ prev' \in [Routines -> Routines]
      /\ tailer' \in Routines /\ active' \in [Routines -> BOOLEAN] /\ current' \in Routines
      /\ ActiveRuns' /\ current' # current
  BY <1>1, <1>2, LeaveStep
<1>4. PICK t : /\ Linked(t)' /\ In(t) = In(q) \ {current} /\ Moves(q, t)
               /\ current' = Master \/ current' \in In(t)
  BY <1>1, <1>2, LeaveStep
<1>5. TypeOK'
  BY <1>1, <1>3 DEF TypeOK
<1>6. \A d \in Cors : Idle(d)' <=> Idle(d)
  BY <1>1 DEF Idle
<1>7. ASSUME NEW d \in Cors
      PROVE  /\ d \in In(t) <=> (d = current' \/ (Idle(d)' /\ ~timer'[d]))
             /\ timer'[d] => Idle(d)' /\ d # current'
  <2>1. /\ d \in In(q) <=> (d = current \/ (Idle(d) /\ ~timer[d]))
        /\ timer[d] => Idle(d) /\ d # current
    BY DEF State
  <2>2. d = current' => d \in In(t)
    BY <1>2, <1>4, RoutineFacts
  <2> QED
    BY <1>1, <1>2, <1>4, <1>6, <2>1, <2>2
<1>8. \A u \in Shots : u \in In(t) <=> u \notin pool'
  BY <1>1, <1>4 DEF State
<1>9. State(t)'
  BY <1>3, <1>4, <1>7, <1>8 DEF State
<1> QED
  BY <1>4, <1>5, <1>9 DEF Advances

LEMMA YieldNextStep ==
  ASSUME TypeOK, NEW q, Linked(q), State(q), NEW c \in Cors, YieldNext(c)
  PROVE  Advances(q)
<1>1. /\ current = c /\ Idle(c) /\ YieldTo(next[current], [active EXCEPT ![current] = FALSE])
      /\ next' = next /\ prev' = prev /\ tailer' = tailer /\ pool' = pool
      /\ replies' = replies /\ verbs' = verbs /\ timer' = timer
  BY DEF YieldNext, list, waits
<1>2. current # Master
  BY <1>1, RoutineFacts
<1>3. /\ next[current] \in Routines /\ next[current] # current
      /\ next[current] = Master \/ next[current] \in In(q)
      /\ \E i \in 1 .. Len(q) : current = q[i] /\ next[current] = At(q, i + 1)
  BY <1>2, FollowerIs
<1>4. active' \in [Routines -> BOOLEAN] /\ current' = next[current] /\ ActiveRuns'
  <2>1. PICK a : a = [active EXCEPT ![current] = FALSE]
    OBVIOUS
  <2>2. a \in [Routines -> BOOLEAN] /\ ActiveRuns
    BY <2>1 DEF TypeOK, State
  <2>3. \A x \in Routines \ {Master} : ~a[x]
    BY <2>1, <2>2 DEF ActiveRuns, TypeOK
  <2> QED
    BY <1>1, <1>3, <2>1, <2>2, <2>3, MarkMoves
<1>5. TypeOK'
  BY <1>1, <1>3, <1>4 DEF TypeOK
<1>6. \A d \in Cors : Idle(d)' <=> Idle(d)
  BY <1>1 DEF Idle
<1>7. ASSUME NEW d \in Cors
      PROVE  /\ d \in In(q) <=> (d = current' \/ (Idle(d)' /\ ~timer'[d]))
             /\ timer'[d] => Idle(d)' /\ d # current'
  <2>1. /\ d \in In(q) <=> (d = current \/ (Idle(d) /\ ~timer[d]))
        /\ timer[d] => Idle(d) /\ d # current
    BY DEF State
  <2>2. d = current' => d \in In(q)
    BY <1>2, <1>3, <1>4, RoutineFacts
  <2> QED
    BY <1>1, <1>6, <2>1, <2>2
<1>8. State(q)'
  BY <1>1, <1>3, <1>4, <1>7 DEF State
<1> QED
  BY <1>1, <1>3, <1>4, <1>5, <1>8, SameList DEF Advances, Moves

\* An event of coroutine c that the master has polled: it appends the
\* coroutine if nothing is outstanding any more.
LEMMA WakeStep ==
  ASSUME TypeOK, NEW q, Linked(q), State(q), NEW c \in Cors, current = Master, ~Idle(c),
         replies' \in [Cors -> 0 .. MaxOps], verbs' \in [Cors -> 0 .. MaxOps],
         \A d \in Cors : d # c => (Idle(d)' <=> Idle(d)),
         Idle(c)' => AddToRoutineList(c), ~Idle(c)' => UNCHANGED list,
         active' = active, current' = current, timer' = timer, pool' = pool
  PROVE  Advances(q)
<1>1. c # current /\ c \in Threads /\ c \notin Shots
  BY RoutineFacts
<1>2. c \notin In(q) /\ ~timer[c]
  BY <1>1 DEF State
<1>3. CASE Idle(c)'
  <2>1. AddToRoutineList(c)
    BY <1>3
  <2>2. /\ next' \in [Routines -> Routines] /\ prev' \in [Routines -> Routines]
        /\ tailer' \in Routines
    BY <1>1, <1>2, <2>1, AddStep
  <2>3. PICK t : Linked(t)' /\ In(t) = In(q) \cup {c} /\ t = Append(q, c)
    BY <1>1, <1>2, <2>1, AddStep
  <2>4. TypeOK'
    BY <2>2 DEF TypeOK
  <2>5. ASSUME NEW d \in Cors
        PROVE  /\ d \in In(t) <=> (d = current' \/ (Idle(d)' /\ ~timer'[d]))
               /\ timer'[d] => Idle(d)' /\ d # current'
    <3>1. CASE d = c
      BY <1>1, <1>2, <1>3, <2>3, <3>1
    <3>2. CASE d # c
      BY <2>3, <3>2 DEF State
    <3> QED
      BY <3>1, <3>2
  <2>6. \A s \in Shots : s \in In(t) <=> s \notin pool'
    BY <1>1, <2>3 DEF State
  <2>7. State(t)'
    BY <2>5, <2>6 DEF State, ActiveRuns
  <2>8. Moves(q, t)
    BY <1>1, <1>2, <2>3 DEF Moves
  <2> QED
    BY <2>3, <2>4, <2>7, <2>8 DEF Advances
<1>4. CASE ~Idle(c)'
  <2>1. next' = next /\ prev' = prev /\ tailer' = tailer
    BY <1>4 DEF list
  <2>2. TypeOK'
    BY <2>1 DEF TypeOK
  <2>3. \A d \in Cors : Idle(d)' <=> Idle(d)
    BY <1>4
  <2>4. State(q)'
    BY <2>3 DEF State, ActiveRuns
  <2> QED
    BY <2>1, <2>2, <2>4, SameList DEF Advances, Moves
<1> QED
  BY <1>3, <1>4

LEMMA PollReplyStep ==
  ASSUME TypeOK, NEW q, Linked(q), State(q), NEW c \in Cors, PollReply(c)
  PROVE  Advances(q)
<1>1. /\ current = Master /\ replies[c] > 0 /\ replies' = [replies EXCEPT ![c] = @ - 1]
      /\ active' = active /\ current' = current /\ verbs' = verbs /\ timer' = timer
      /\ pool' = pool
  BY DEF PollReply
<1>2. PICK x \in 0 .. MaxOps : x = replies[c] /\ x > 0 /\ x - 1 \in 0 .. MaxOps
  BY <1>1, SchedulerAssumption DEF TypeOK
<1>3. replies' \in [Cors -> 0 .. MaxOps] /\ verbs' \in [Cors -> 0 .. MaxOps]
  BY <1>1, <1>2 DEF TypeOK
<1>4. replies'[c] = x - 1 /\ \A d \in Cors : d # c => replies'[d] = replies[d]
  BY <1>1, <1>2 DEF TypeOK
<1>5. ~Idle(c) /\ (Idle(c)' <=> (replies[c] = 1 /\ verbs[c] = 0))
  <2>1. x # 0 /\ (x - 1 = 0 <=> x = 1)
    BY <1>2
  <2> QED
    BY <1>1, <1>2, <1>4, <2>1 DEF Idle
<1>6. \A d \in Cors : d # c => (Idle(d)' <=> Idle(d))
  BY <1>1, <1>4 DEF Idle
<1>7. (Idle(c)' => AddToRoutineList(c)) /\ (~Idle(c)' => UNCHANGED list)
  BY <1>5 DEF PollReply
<1> QED
  BY <1>1, <1>3, <1>5, <1>6, <1>7, WakeStep

LEMMA PollCompletionStep ==
  ASSUME TypeOK, NEW q, Linked(q), State(q), NEW c \in Cors, PollCompletion(c)
  PROVE  Advances(q)
<1>1. /\ current = Master /\ verbs[c] > 0 /\ verbs' = [verbs EXCEPT ![c] = @ - 1]
      /\ active' = active /\ current' = current /\ replies' = replies /\ timer' = timer
      /\ pool' = pool
  BY DEF PollCompletion
<1>2. PICK x \in 0 .. MaxOps : x = verbs[c] /\ x > 0 /\ x - 1 \in 0 .. MaxOps
  BY <1>1, SchedulerAssumption DEF TypeOK
<1>3. replies' \in [Cors -> 0 .. MaxOps] /\ verbs' \in [Cors -> 0 .. MaxOps]
  BY <1>1, <1>2 DEF TypeOK
<1>4. verbs'[c] = x - 1 /\ \A d \in Cors : d # c => verbs'[d] = verbs[d]
  BY <1>1, <1>2 DEF TypeOK
<1>5. ~Idle(c) /\ (Idle(c)' <=> (verbs[c] = 1 /\ replies[c] = 0))
  <2>1. x # 0 /\ (x - 1 = 0 <=> x = 1)
    BY <1>2
  <2> QED
    BY <1>1, <1>2, <1>4, <2>1 DEF Idle
<1>6. \A d \in Cors : d # c => (Idle(d)' <=> Idle(d))
  BY <1>1, <1>4 DEF Idle
<1>7. (Idle(c)' => AddToRoutineList(c)) /\ (~Idle(c)' => UNCHANGED list)
  BY <1>5 DEF PollCompletion
<1> QED
  BY <1>1, <1>3, <1>5, <1>6, <1>7, WakeStep

LEMMA PollTimerStep ==
  ASSUME TypeOK, NEW q, Linked(q), State(q), NEW c \in Cors, PollTimer(c)
  PROVE  Advances(q)
<1>1. /\ current = Master /\ timer[c] /\ AddToRoutineList(c)
      /\ timer' = [timer EXCEPT ![c] = FALSE]
      /\ active' = active /\ current' = current /\ replies' = replies /\ verbs' = verbs
      /\ pool' = pool
  BY DEF PollTimer
<1>2. c # current /\ c \in Threads /\ c \notin Shots
  BY <1>1, RoutineFacts
<1>3. c \notin In(q) /\ Idle(c)
  BY <1>1, <1>2 DEF State
<1>4. /\ next' \in [Routines -> Routines] /\ prev' \in [Routines -> Routines]
      /\ tailer' \in Routines
  BY <1>1, <1>2, <1>3, AddStep
<1>5. PICK t : Linked(t)' /\ In(t) = In(q) \cup {c} /\ t = Append(q, c)
  BY <1>1, <1>2, <1>3, AddStep
<1>6. timer' \in [Cors -> BOOLEAN] /\ ~timer'[c] /\ \A d \in Cors : d # c => timer'[d] = timer[d]
  BY <1>1 DEF TypeOK
<1>7. TypeOK'
  BY <1>1, <1>4, <1>6 DEF TypeOK
<1>8. \A d \in Cors : Idle(d)' <=> Idle(d)
  BY <1>1 DEF Idle
<1>9. ASSUME NEW d \in Cors
      PROVE  /\ d \in In(t) <=> (d = current' \/ (Idle(d)' /\ ~timer'[d]))
             /\ timer'[d] => Idle(d)' /\ d # current'
  <2>1. CASE d = c
    BY <1>3, <1>5, <1>6, <1>8, <2>1
  <2>2. CASE d # c
    BY <1>1, <1>5, <1>6, <1>8, <2>2 DEF State
  <2> QED
    BY <2>1, <2>2
<1>10. \A s \in Shots : s \in In(t) <=> s \notin pool'
  BY <1>1, <1>2, <1>5 DEF State
<1>11. State(t)'
  BY <1>1, <1>9, <1>10 DEF State, ActiveRuns
<1>12. Moves(q, t)
  BY <1>1, <1>2, <1>3, <1>5 DEF Moves
<1> QED
  BY <1>5, <1>7, <1>11, <1>12 DEF Advances

LEMMA PollOneShotStep ==
  ASSUME TypeOK, NEW q, Linked(q), State(q), NEW s \in Shots, PollOneShot(s)
  PROVE  Advances(q)
<1>1. /\ current = Master /\ s \in pool /\ AddToRoutineList(s) /\ pool' = pool \ {s}
      /\ active' = active /\ current' = current /\ replies' = replies /\ verbs' = verbs
      /\ timer' = timer
  BY DEF PollOneShot, waits
<1>2. s \in Threads /\ s \notin Cors
  BY RoutineFacts
<1>3. s \notin In(q)
  BY <1>1 DEF State
<1>4. /\ next' \in [Routines -> Routines] /\ prev' \in [Routines -> Routines]
      /\ tailer' \in Routines
  BY <1>1, <1>2, <1>3, AddStep
<1>5. PICK t : Linked(t)' /\ In(t) = In(q) \cup {s} /\ t = Append(q, s)
  BY <1>1, <1>2, <1>3, AddStep
<1>6. TypeOK'
  BY <1>1, <1>4 DEF TypeOK
<1>7. \A d \in Cors : Idle(d)' <=> Idle(d)
  BY <1>1 DEF Idle
<1>8. ASSUME NEW d \in Cors
      PROVE  /\ d \in In(t) <=> (d = current' \/ (Idle(d)' /\ ~timer'[d]))
             /\ timer'[d] => Idle(d)' /\ d # current'
  BY <1>1, <1>2, <1>5, <1>7 DEF State
<1>9. \A u \in Shots : u \in In(t) <=> u \notin pool'
  BY <1>1, <1>5 DEF State
<1>10. State(t)'
  BY <1>1, <1>8, <1>9 DEF State, ActiveRuns
<1>11. Moves(q, t)
  BY <1>1, <1>2, <1>3, <1>5 DEF Moves
<1> QED
  BY <1>5, <1>6, <1>10, <1>11 DEF Advances

LEMMA DispatchStep ==
  ASSUME TypeOK, NEW q, Linked(q), State(q), Dispatch
  PROVE  Advances(q)
<1>1. /\ current = Master /\ next[Master] # Master /\ YieldTo(next[Master], active)
      /\ next' = next /\ prev' = prev /\ tailer' = tailer /\ pool' = pool
      /\ replies' = replies /\ verbs' = verbs /\ timer' = timer
  BY DEF Dispatch, list, waits
<1>2. PICK n \in Nat : n = Len(q)
  BY DEF Linked
<1>3. next[Master] = At(q, 1)
  <2>1. 0 \in 0 .. n /\ 0 + 1 = 1 /\ 0 \notin 1 .. n
    OBVIOUS
  <2>2. At(q, 0) = Master
    BY <1>2, <2>1 DEF At
  <2> QED
    BY <1>2, <2>1, <2>2 DEF Linked, Through
<1>4. 1 \in 1 .. Len(q) /\ next[Master] = q[1]
  BY <1>1, <1>3 DEF At
<1>5. q # << >>
  <2>1. Len(<< >>) = 0 /\ 1 \notin 1 .. 0
    OBVIOUS
  <2> QED
    BY <1>4, <2>1
<1>6. next[Master] \in In(q) /\ next[Master] \in Routines
  BY <1>4, RoutineFacts DEF In, TypeOK
<1>7. active' \in [Routines -> BOOLEAN] /\ current' = next[Master] /\ ActiveRuns'
  <2>1. active \in [Routines -> BOOLEAN] /\ ActiveRuns /\ \A x \in Routines \ {Master} : ~active[x]
    BY <1>1 DEF TypeOK, State, ActiveRuns
  <2> QED
    BY <1>1, <1>6, <2>1, MarkMoves
<1>8. TypeOK'
  BY <1>1, <1>6, <1>7 DEF TypeOK
<1>9. \A d \in Cors : Idle(d)' <=> Idle(d)
  BY <1>1 DEF Idle
<1>10. ASSUME NEW d \in Cors
       PROVE  /\ d \in In(q) <=> (d = current' \/ (Idle(d)' /\ ~timer'[d]))
              /\ timer'[d] => Idle(d)' /\ d # current'
  <2>1. d # Master
    BY RoutineFacts
  <2> QED
    BY <1>1, <1>6, <1>7, <1>9, <2>1 DEF State
<1>11. State(q)'
  BY <1>1, <1>6, <1>7, <1>10 DEF State
<1> QED
  BY <1>1, <1>4, <1>5, <1>7, <1>8, <1>11, SameList DEF Advances, Moves

LEMMA NextStep ==
  ASSUME TypeOK, NEW q, Linked(q), State(q), Next
  PROVE  Advances(q)
<1>1. ASSUME NEW c \in Cors, Run(c) PROVE Advances(q)
  BY <1>1, SendRequestsStep, PostVerbStep, IndirectYieldStep, IndirectYieldTimeoutStep,
     YieldNextStep DEF Run
<1>2. ASSUME NEW c \in Cors, Poll(c) PROVE Advances(q)
  BY <1>2, PollReplyStep, PollCompletionStep, PollTimerStep DEF Poll
<1>3. ASSUME NEW s \in Shots, PollOneShot(s) \/ OneShotDone(s) PROVE Advances(q)
  BY <1>3, PollOneShotStep, OneShotDoneStep
<1>4. CASE Dispatch
  BY <1>4, DispatchStep
<1> QED
  BY <1>1, <1>2, <1>3, <1>4 DEF Next

LEMMA StutterStep ==
  ASSUME TypeOK, NEW q, Linked(q), State(q), UNCHANGED vars
  PROVE  Advances(q)
<1>1. /\ next' = next /\ prev' = prev /\ tailer' = tailer /\ pool' = pool
      /\ replies' = replies /\ verbs' = verbs /\ timer' = timer
      /\ active' = active /\ current' = current
  BY DEF vars
<1>2. TypeOK'
  BY <1>1 DEF TypeOK
<1>3. \A d \in Cors : Idle(d)' <=> Idle(d)
  BY <1>1 DEF Idle
<1>4. State(q)'
  BY <1>1, <1>3 DEF State, ActiveRuns
<1> QED
  BY <1>1, <1>2, <1>4, SameList DEF Advances, Moves
-----------------------------------------------------------------------------
(* The theorems                                                            *)
-----------------------------------------------------------------------------
\* thread_local_init links the coroutines in the order of their ids.
LEMMA InvInit == Init => Inv
<1> SUFFICES ASSUME Init PROVE Inv
  OBVIOUS
<1>1. N \in Nat /\ N # 0 /\ M \in Nat /\ MaxOps \in Nat /\ MaxOps # 0
  BY SchedulerAssumption
<1>2. TypeOK
  <2>1. ASSUME NEW r \in Routines
        PROVE  (IF r < N THEN r + 1 ELSE Master) \in Routines
    BY <1>1 DEF Routines, Master
  <2>2. ASSUME NEW r \in Routines
        PROVE  (IF r \in Cors THEN r - 1 ELSE Master) \in Routines
    BY <1>1 DEF Routines, Master, Cors
  <2>3. next \in [Routines -> Routines] /\ prev \in [Routines -> Routines]
    BY <2>1, <2>2 DEF Init
  <2>4. tailer \in Routines /\ current \in Routines
    BY <1>1 DEF Init, Routines, Master
  <2>5. replies \in [Cors -> 0 .. MaxOps] /\ verbs \in [Cors -> 0 .. MaxOps]
    BY <1>1 DEF Init
  <2> QED
    BY <2>3, <2>4, <2>5 DEF Init, TypeOK
<1>3. PICK q : q = [i \in 1 .. N |-> i]
  OBVIOUS
<1>4. q \in Seq(Threads) /\ Len(q) = N /\ \A i \in 1 .. N : q[i] = i
  <2>1. \A i \in 1 .. N : i \in Threads
    BY <1>1 DEF Threads, Routines, Master
  <2> QED
    BY <1>1, <1>3, <2>1
<1>5. (\A i \in 0 .. N : At(q, i) = i) /\ At(q, N + 1) = Master
  BY <1>1, <1>4 DEF At, Master
<1>6. Distinct(q)
  BY <1>4 DEF Distinct
<1>7. Through(q)
  <2> SUFFICES ASSUME NEW i \in 0 .. N PROVE next[At(q, i)] = At(q, i + 1)
    BY <1>4 DEF Through
  <2>1. At(q, i) = i /\ i \in Routines
    BY <1>1, <1>5 DEF Routines
  <2>2. next[i] = IF i < N THEN i + 1 ELSE Master
    BY <2>1 DEF Init
  <2>3. CASE i = N
    BY <1>1, <1>5, <2>1, <2>2, <2>3
  <2>4. CASE i # N
    <3>1. i < N /\ i + 1 \in 0 .. N
      BY <1>1, <2>4
    <3> QED
      BY <1>5, <2>1, <2>2, <3>1
  <2> QED
    BY <2>3, <2>4
<1>8. ASSUME NEW i \in 1 .. N PROVE prev[q[i]] = At(q, i - 1)
  <2>1. q[i] = i /\ i \in Routines /\ i \in Cors /\ i - 1 \in 0 .. N
    BY <1>1, <1>4 DEF Routines, Cors
  <2> QED
    BY <1>5, <2>1 DEF Init
<1>9. Linked(q)
  <2>1. tailer = At(q, N)
    BY <1>1, <1>5 DEF Init
  <2> QED
    BY <1>4, <1>6, <1>7, <1>8, <2>1 DEF Linked
<1>10. In(q) = Cors
  BY <1>4 DEF In, Cors
<1>11. State(q)
  <2>1. \A c \in Cors : Idle(c) /\ ~timer[c] /\ c # Master
    BY RoutineFacts DEF Init, Idle
  <2>2. \A s \in Shots : s \notin Cors /\ s \in pool
    BY RoutineFacts DEF Init
  <2>3. ActiveRuns /\ current = Master
    BY DEF Init, ActiveRuns
  <2> QED
    BY <1>10, <2>1, <2>2, <2>3 DEF State
<1> QED
  BY <1>2, <1>9, <1>11 DEF Inv

\* The inductive invariant holds in every state of every behaviour.
THEOREM Invariance == Spec => []Inv
<1>1. Init => Inv
  BY InvInit
<1>2. Inv /\ [Next]_vars => Inv'
  <2> SUFFICES ASSUME Inv, [Next]_vars PROVE Inv'
    OBVIOUS
  <2>1. PICK q : Linked(q) /\ State(q)
    BY DEF Inv
  <2>2. TypeOK
    BY DEF Inv
  <2>3. Advances(q)
    BY <2>1, <2>2, NextStep, StutterStep
  <2> QED
    BY <2>3 DEF Advances, Inv
<1> QED
  BY <1>1, <1>2, PTL DEF Spec

\* Every variable keeps its type: reply_counts_ and pending_counts_ never go
\* below zero, and every pointer of the list names a routine.
THEOREM TypeCorrect == Spec => []TypeOK
<1>1. Inv => TypeOK
  BY DEF Inv
<1> QED
  BY <1>1, Invariance, PTL

\* The assertion of yield_from_routine_list, that the routine that leaves the
\* list is active, never fails, and no other routine but the master is marked.
THEOREM OnlyTheRunningIsActive == Spec => []ActiveRuns
<1>1. Inv => ActiveRuns
  BY DEF Inv, State
<1> QED
  BY <1>1, Invariance, PTL

\* Whichever way replies, completions and timers interleave, a coroutine is
\* off the list exactly while something is still to come that puts it back.
THEOREM NoWakeUpIsLost == Spec => []OffListWhileWaiting
<1>1. Inv => OffListWhileWaiting
  <2> SUFFICES ASSUME Inv, NEW c \in Cors
               PROVE  c \in Listed <=> c = current \/ (Idle(c) /\ ~timer[c])
    BY DEF OffListWhileWaiting
  <2>1. PICK q : Linked(q) /\ State(q)
    BY DEF Inv
  <2>2. Chain = q
    BY <2>1, ChainIs DEF Inv, TypeOK
  <2>3. Listed = In(q)
    <3>1. DOMAIN q = 1 .. Len(q)
      BY <2>1 DEF Linked
    <3> QED
      BY <2>2, <3>1 DEF Listed, In
  <2> QED
    BY <2>1, <2>3 DEF State
<1> QED
  BY <1>1, Invariance, PTL

\* The walk from chain_header_ reads off the sequence the list is linked by.
ChainReads == next \in [Routines -> Routines] => \A q : Linked(q) => Chain = q

LEMMA ChainOfLinked == ChainReads
BY ChainIs DEF ChainReads

\* The intrusive list is the queue of RunQueue: add_to_routine_list appends,
\* yield_from_routine_list takes out the routine that runs, whatever its
\* place, and whoever hands over is followed by the next one in line.
THEOREM ListIsQueue == Spec => ImplementsQueue
<1>1. Init => Queue!Init
  <2> SUFFICES ASSUME Init PROVE Queue!Init
    OBVIOUS
  <2>1. Inv
    BY InvInit
  <2>2. PICK q : Linked(q) /\ State(q)
    BY <2>1 DEF Inv
  <2>3. Chain = q
    BY <2>1, <2>2, ChainIs DEF Inv, TypeOK
  <2>4. q \in [1 .. Len(q) -> Threads] /\ DOMAIN q = 1 .. Len(q)
    BY <2>2 DEF Linked
  <2>5. \A i, j \in DOMAIN q : q[i] = q[j] => i = j
    BY <2>2, <2>4 DEF Linked, Distinct
  <2>6. current = 0
    BY DEF Init, Master
  <2> QED
    BY <2>3, <2>4, <2>5, <2>6 DEF Queue!Init, Threads
<1>2. Inv /\ ChainReads' /\ [Next]_vars => [Queue!Next]_(Queue!vars)
  <2> SUFFICES ASSUME Inv, ChainReads', [Next]_vars
               PROVE  Queue!Next \/ UNCHANGED Queue!vars
    OBVIOUS
  <2>1. PICK q : Linked(q) /\ State(q)
    BY DEF Inv
  <2>2. Advances(q)
    BY <2>1, NextStep, StutterStep DEF Inv
  <2>3. PICK t : Linked(t)' /\ Moves(q, t)
    BY <2>2 DEF Advances
  <2>4. Chain = q
    BY <2>1, ChainIs DEF Inv, TypeOK
  <2>5. Chain' = t
    <3>1. next' \in [Routines -> Routines]
      BY <2>2 DEF Advances, TypeOK
    <3> QED
      BY <2>3, <3>1 DEF ChainReads
  <2>6. DOMAIN q = 1 .. Len(q)
    BY <2>1 DEF Linked
  <2>7. CASE t = q /\ current' = current
    BY <2>4, <2>5, <2>7 DEF Queue!vars
  <2>8. ASSUME NEW r \in Threads, current = Master, r \notin In(q), t = Append(q, r),
               current' = current
        PROVE  Queue!Next
    <3>1. Queue!Queued = In(q)
      BY <2>4, <2>6 DEF Queue!Queued, In
    <3>2. Queue!Enqueue(r)
      BY <2>4, <2>5, <2>8, <3>1 DEF Queue!Enqueue, Master
    <3> QED
      BY <3>2 DEF Queue!Next, Threads
  <2>9. CASE t = q /\ current = Master /\ q # << >> /\ current' = q[1]
    BY <2>4, <2>5, <2>9 DEF Queue!Next, Queue!Dispatch, Master
  <2>10. ASSUME NEW i \in 1 .. Len(q), current = q[i], current' = At(q, i + 1),
                t = q \/ t = Without(q, i)
         PROVE  Queue!Next
    <3>1. At(q, i + 1) = IF i = Len(q) THEN 0 ELSE q[i + 1]
      <4>1. PICK n \in Nat : n = Len(q)
        BY <2>1 DEF Linked
      <4>2. i + 1 \in 1 .. n <=> i # n
        BY <4>1
      <4> QED
        BY <4>1, <4>2 DEF At, Master
    <3>2. Queue!After(i) = At(q, i + 1)
      BY <2>4, <3>1 DEF Queue!After
    <3>3. CASE t = q
      <4>1. Queue!Pass(i)
        BY <2>4, <2>5, <2>10, <3>2, <3>3 DEF Queue!Pass
      <4> QED
        BY <2>4, <2>6, <4>1 DEF Queue!Next
    <3>4. CASE t = Without(q, i)
      <4>1. Queue!Leave(i)
        BY <2>4, <2>5, <2>10, <3>2, <3>4 DEF Queue!Leave, Without
      <4> QED
        BY <2>4, <2>6, <4>1 DEF Queue!Next
    <3> QED
      BY <2>10, <3>3, <3>4
  <2> QED
    BY <2>3, <2>7, <2>8, <2>9, <2>10 DEF Moves
<1> QED
  BY <1>1, <1>2, Invariance, ChainOfLinked, PTL DEF Spec, ImplementsQueue, Queue!Spec
=============================================================================
