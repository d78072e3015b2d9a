----------------------------- MODULE MVCCProofs -----------------------------
(***************************************************************************)
(* Theorems about MVCC for every finite set of coroutines, every set of    *)
(* records and every number of versions, over RPC and over verbs.          *)
(***************************************************************************)
EXTENDS MVCC, FiniteSetTheorems, WellFoundedInduction, TLAPS

Reads == {"rcheck", "rpick", "rmark", "rnote", "rcopy", "rrecheck", "rdone"}
Writes == {"wcheck", "wlock", "wrecheck"}
-----------------------------------------------------------------------------
(* The inductive invariant                                                 *)
-----------------------------------------------------------------------------
\* The record of the call under way and the batch under way.
PhaseOf(c) ==
  /\ pc[c] \in Reads => last[c] \cap wset[c] = {}
  /\ pc[c] \in Writes => last[c] \subseteq wset[c]
  /\ pc[c] \in Reads \cup Writes => \E k \in Keys : last[c] = {k}
  /\ pc[c] \in {"idle", "exec", "upd"} => last[c] = {}
  /\ pc[c] = "idle" => wset[c] = {}
  /\ pc[c] \notin {"rel", "upd"} => pend[c] = {}
  /\ pc[c] # "upd" => stamped[c] = {}
  /\ stamped[c] \subseteq pend[c] /\ pend[c] \subseteq wset[c]

Stamp(n, c) == n * 1024 + Id[c]
Reading(t) == t \div 1024

\* The stamp of a transaction is a reading of the clock of its coroutine, the
\* present one until a refusal moves the clock.
StampOf(c) ==
  pc[c] # "idle" =>
    \E n \in Nat : /\ 1 <= n /\ n <= clock[c] /\ ts[c] = Stamp(n, c)
                   /\ pc[c] # "rel" => n = clock[c]

\* A version carries a past stamp, and the stamp of a transaction that has
\* not come to its update is no version yet.
VersionPast(k, i) ==
  \A c \in Cors :
    /\ \A n \in Nat : wts[k][i] = Stamp(n, c) => n <= clock[c]
    /\ pc[c] \notin {"idle", "upd"} => wts[k][i] # ts[c]

\* The transaction has the lock of the record.
Holds(c, k) ==
  /\ k \in wset[c]
  /\ \/ pc[c] \in Reads \cup {"exec", "wrecheck"}
     \/ pc[c] \in {"wcheck", "wlock"} /\ k \notin last[c]
     \/ pc[c] \in {"rel", "upd"} /\ k \in pend[c]

LockOK ==
  /\ \A c \in Cors, k \in Keys : Holds(c, k) => lock[k] = ts[c]
  /\ \A k \in Keys : lock[k] # 0 => \E c \in Cors : Holds(c, k)

\* The write call on the record has returned and the write is still to come,
\* or it is under way.
Passed(c, k) ==
  /\ k \in wset[c]
  /\ \/ pc[c] \notin {"idle", "rel", "upd"} /\ k \notin last[c]
     \/ pc[c] = "upd" /\ k \in pend[c]

\* The slots noted under the lock are an oldest and a newest one, ...
ScannedOf(c, k) ==
  /\ wts[k][base[c][k]] # 0
  /\ \A j \in Slots : /\ wts[k][slot[c][k]] <= wts[k][j]
                       /\ wts[k][j] <= wts[k][base[c][k]]

LatestOf(c, k) ==
  Passed(c, k) /\ k \notin stamped[c] =>
    /\ buf[c][k] = wts[k][Newest(k)] /\ wts[k][Newest(k)] < ts[c]
    /\ ScannedOf(c, k)

\* ... and once the stamp is in place they are the newest and the one before.
TopOf(c, k) ==
  /\ wts[k][slot[c][k]] = ts[c] /\ wts[k][base[c][k]] # 0
  /\ \A j \in Slots : j # slot[c][k] =>
       wts[k][j] < ts[c] /\ wts[k][j] <= wts[k][base[c][k]]

InstalledOf(c, k) == k \in stamped[c] => TopOf(c, k)

\* The transaction is changing the contents of the slot.
Touched(c, k, i) == Updating(c, k) /\ i \in Changed(c, k)

VersionOf(k, i) ==
  /\ SlotContents(k, i) \/ \E c \in Cors : Touched(c, k, i)
  /\ \A j \in Slots : wts[k][i] = wts[k][j] => i = j \/ wts[k][i] = 0
  /\ \E j \in Slots : wts[k][j] # 0

\* A handler that has raised rts, and, once it has looked at the lock word for
\* the second time, all the writers of the record that are above it.
MarkedOf(c, k) ==
  ~verbs /\ k \in last[c] /\ pc[c] \in {"rnote", "rcopy", "rrecheck", "rdone"} =>
    /\ ts[c] <= rts[k]
    /\ pc[c] = "rdone" => \A d \in Cors : Passed(d, k) => ts[c] <= ts[d]

ServedOf(r) ==
  ~verbs =>
    /\ r[3] <= rts[r[1]]
    /\ \A i \in Slots : ~(r[2] < wts[r[1]][i] /\ wts[r[1]][i] < r[3])
    /\ \A d \in Cors : Passed(d, r[1]) => ~(r[2] < ts[d] /\ ts[d] < r[3])

Own(c) == PhaseOf(c) /\ StampOf(c)

Items(c, k) == LatestOf(c, k) /\ InstalledOf(c, k) /\ MarkedOf(c, k)

Inv ==
  /\ TypeOK /\ LockOK
  /\ \A c \in Cors : Own(c)
  /\ \A c \in Cors, k \in Keys : Items(c, k)
  /\ \A k \in Keys, i \in Slots : VersionPast(k, i) /\ VersionOf(k, i)
  /\ \A r \in served : ServedOf(r)
-----------------------------------------------------------------------------
(* Least and greatest numbers                                              *)
-----------------------------------------------------------------------------
LEMMA LeastNumber ==
  ASSUME NEW T, T \subseteq Nat, T # {}
  PROVE  \E x \in T : \A y \in T : x <= y
<1> DEFINE R == OpToRel(<, Nat)
<1>1. IsWellFoundedOn(R, Nat)
  BY NatLessThanWellFounded
<1>2. \A x, y \in Nat : << y, x >> \in R <=> y < x
  BY DEF OpToRel
<1> HIDE DEF R
<1>3. PICK x \in T : \A y \in T : ~(<< y, x >> \in R)
  BY <1>1, WFMin
<1>4. ASSUME NEW y \in T PROVE x <= y
  <2>1. ~(y < x)
    BY <1>2, <1>3
  <2> QED
    BY <2>1
<1> QED
  BY <1>4

\* The greatest number of a bounded set: the least distance from the bound.
LEMMA GreatestNumber ==
  ASSUME NEW M \in Nat, NEW T, T \subseteq 0 .. M, T # {}
  PROVE  \E x \in T : \A y \in T : y <= x
<1> DEFINE D == { M - x : x \in T }
<1>1. D \subseteq Nat /\ D # {}
  OBVIOUS
<1>2. \A y \in T : M - y \in D
  OBVIOUS
<1>3. \A z \in D : \E x \in T : z = M - x
  OBVIOUS
<1> HIDE DEF D
<1>4. PICK z \in D : \A y \in D : z <= y
  BY <1>1, LeastNumber
<1>5. PICK x \in T : z = M - x
  BY <1>3
<1>6. ASSUME NEW y \in T PROVE y <= x
  <2>1. z <= M - y
    BY <1>2, <1>4
  <2> QED
    BY <1>5, <2>1
<1> QED
  BY <1>6

\* A function from a finite set to the numbers is bounded: a smallest set on
\* which it is not would be one element larger than one on which it is.
LEMMA FiniteBound ==
  ASSUME NEW S, IsFiniteSet(S), NEW f \in [S -> Nat]
  PROVE  \E M \in Nat : \A x \in S : f[x] <= M
<1> DEFINE Bound(A) == \E M \in Nat : \A x \in A : f[x] <= M
           T == { n \in Nat : \E A \in SUBSET S : Cardinality(A) = n /\ ~Bound(A) }
<1>1. ASSUME T # {} PROVE FALSE
  <2>1. T \subseteq Nat
    OBVIOUS
  <2>2. PICK n \in T : \A m \in T : n <= m
    <3> HIDE DEF T
    <3> QED
      BY <1>1, <2>1, LeastNumber
  <2>3. PICK A \in SUBSET S : Cardinality(A) = n /\ ~Bound(A)
    BY <2>2
  <2>4. A # {}
    <3>1. Bound({})
      OBVIOUS
    <3> QED
      BY <2>3, <3>1
  <2>5. PICK a \in A : TRUE
    BY <2>4
  <2>6. /\ IsFiniteSet(A)
        /\ IsFiniteSet(A \ {a}) /\ Cardinality(A \ {a}) = Cardinality(A) - 1
        /\ Cardinality(A \ {a}) \in Nat
    BY <2>5, FS_Subset, FS_RemoveElement, FS_CardinalityType
  <2>7. Cardinality(A \ {a}) \notin T
    BY <2>2, <2>3, <2>6
  <2>8. Bound(A \ {a})
    BY <2>6, <2>7
  <2>9. PICK M \in Nat : \A x \in A \ {a} : f[x] <= M
    BY <2>8
  <2>10. f[a] \in Nat /\ \A x \in A : f[x] \in Nat
    BY <2>5
  <2>11. PICK N \in Nat : M <= N /\ f[a] <= N
    BY <2>10
  <2>12. \A x \in A : f[x] <= N
    BY <2>9, <2>10, <2>11
  <2> QED
    BY <2>3, <2>11, <2>12
<1>2. Cardinality(S) \in Nat
  BY FS_CardinalityType
<1> QED
  BY <1>1, <1>2
-----------------------------------------------------------------------------
(* Stamps                                                                  *)
-----------------------------------------------------------------------------
LEMMA Constants ==
  /\ Cors # {} /\ IsFiniteSet(Cors) /\ Until \in [Cors -> Nat]
  /\ V \in Nat \ {0} /\ Builds \subseteq BOOLEAN
  /\ \A c \in Cors : Id[c] \in 1 .. 1023
  /\ \A c, d \in Cors : Id[c] = Id[d] => c = d
BY MVCCAssumption, SMT

LEMMA ClockBound == MaxClock \in Nat /\ \A c \in Cors : Until[c] <= MaxClock
<1> DEFINE U == { Until[c] : c \in Cors }
<1>1. Until \in [Cors -> Nat] /\ Cors # {} /\ IsFiniteSet(Cors)
  BY Constants
<1>2. PICK M \in Nat : \A c \in Cors : Until[c] <= M
  BY <1>1, FiniteBound
<1>3. U \subseteq 0 .. M /\ U # {}
  BY <1>1, <1>2
<1>4. PICK n \in U : \A x \in U : x <= n
  <2> HIDE DEF U
  <2> QED
    BY <1>3, GreatestNumber
<1>5. \E m \in U : \A c \in Cors : Until[c] <= m
  BY <1>4
<1>6. MaxClock \in U /\ \A c \in Cors : Until[c] <= MaxClock
  BY <1>5 DEF MaxClock
<1> QED
  BY <1>3, <1>6

LEMMA IdRange ==
  ASSUME NEW c \in Cors
  PROVE  \E a \in Int : a = Id[c] /\ 1 <= a /\ a <= 1023
<1>1. PICK a \in 1 .. 1023 : a = Id[c]
  BY Constants
<1>2. a \in Int /\ 1 <= a /\ a <= 1023
  OBVIOUS
<1> QED
  BY <1>1, <1>2

\* A stamp is a clock reading and an identity, and determines both.
LEMMA StampUnique ==
  ASSUME NEW c \in Cors, NEW d \in Cors, NEW n \in Nat, NEW m \in Nat
  PROVE  /\ Stamp(n, c) \in Nat /\ Stamp(n, c) # 0
         /\ Stamp(n, c) = Stamp(m, d) => n = m /\ c = d
<1>1. PICK a \in Int : a = Id[c] /\ 1 <= a /\ a <= 1023
  BY IdRange
<1>2. PICK b \in Int : b = Id[d] /\ 1 <= b /\ b <= 1023
  BY IdRange
<1>3. Stamp(n, c) = n * 1024 + a /\ Stamp(m, d) = m * 1024 + b
  BY <1>1, <1>2 DEF Stamp
<1>4. ASSUME Stamp(n, c) = Stamp(m, d) PROVE n = m /\ a = b
  <2>1. n * 1024 + a = m * 1024 + b
    BY <1>3, <1>4
  <2> QED
    BY <1>1, <1>2, <2>1
<1>5. Stamp(n, c) \in Nat /\ Stamp(n, c) # 0
  BY <1>1, <1>3
<1> QED
  BY <1>1, <1>2, <1>4, <1>5, Constants

\* LOCK_UPDATE_TS: a stamp above one's own is a reading not below one's own.
LEMMA StampReading ==
  ASSUME NEW c \in Cors, NEW n \in Nat
  PROVE  /\ n <= MaxClock => Stamp(n, c) \in Stamps
         /\ \A t \in Stamps : Reading(t) \in 0 .. MaxClock
         /\ \A t \in Stamps : t > Stamp(n, c) => n <= Reading(t)
<1>1. PICK a \in 1 .. 1023 : a = Id[c]
  BY Constants
<1>2. PICK M \in Nat : M = MaxClock
  BY ClockBound
<1>3. Stamps = 0 .. M * 1024 + 1023 /\ Stamp(n, c) = n * 1024 + a
  BY <1>1, <1>2 DEF Stamps, Stamp
<1>4. ASSUME n <= M PROVE Stamp(n, c) \in Stamps
  BY <1>3, <1>4
<1>5. ASSUME NEW t \in Stamps
      PROVE  Reading(t) \in 0 .. M /\ (t > Stamp(n, c) => n <= Reading(t))
  <2>1. t \in 0 .. M * 1024 + 1023
    BY <1>3
  <2>2. PICK q \in Nat : q = t \div 1024 /\ q * 1024 <= t /\ t < q * 1024 + 1024
    BY <2>1
  <2>3. q <= M /\ (t > n * 1024 + a => n <= q)
    BY <2>1, <2>2
  <2> QED
    BY <1>3, <2>2, <2>3 DEF Reading
<1>6. \A t \in Stamps : Reading(t) \in 0 .. MaxClock
  BY <1>2, <1>5
<1>7. \A t \in Stamps : t > Stamp(n, c) => n <= Reading(t)
  BY <1>5
<1> QED
  BY <1>2, <1>4, <1>6, <1>7
-----------------------------------------------------------------------------
(* Who holds a record                                                      *)
-----------------------------------------------------------------------------
\* Two running transactions have different stamps, none of them 0.
LEMMA StampsDiffer ==
  ASSUME Inv, NEW c \in Cors, NEW d \in Cors, pc[c] # "idle"
  PROVE  /\ ts[c] \in Nat /\ ts[c] # 0
         /\ pc[d] # "idle" /\ ts[c] = ts[d] => c = d
<1>1. \A e \in Cors : pc[e] # "idle" => \E n \in Nat : ts[e] = Stamp(n, e)
  BY DEF Inv, Own, StampOf
<1> QED
  BY <1>1, StampUnique

\* What follows from holding a record.
LEMMA HoldFacts ==
  ASSUME Inv, NEW c \in Cors, NEW k \in Keys
  PROVE  /\ Passed(c, k) => Holds(c, k)
         /\ k \in stamped[c] => Passed(c, k) /\ Holds(c, k) /\ pc[c] = "upd"
         /\ \A i : Touched(c, k, i) => Holds(c, k) /\ pc[c] = "upd"
         /\ Holds(c, k) => lock[k] = ts[c] /\ ts[c] # 0 /\ pc[c] # "idle"
         /\ \A d \in Cors : Holds(c, k) /\ Holds(d, k) => c = d
<1>1. Passed(c, k) => Holds(c, k)
  BY DEF Inv, TypeOK, Passed, Holds, Reads
<1>2. k \in stamped[c] => Passed(c, k) /\ Holds(c, k) /\ pc[c] = "upd"
  BY DEF Inv, Own, PhaseOf, Passed, Holds
<1>3. \A d \in Cors : Holds(d, k) => pc[d] # "idle"
  BY DEF Holds, Reads
<1>4. \A d \in Cors : Holds(d, k) => lock[k] = ts[d]
  BY DEF Inv, LockOK
<1>5. \A i : Touched(c, k, i) => Holds(c, k) /\ pc[c] = "upd"
  BY DEF Inv, Own, PhaseOf, Holds, Touched, Updating
<1> QED
  BY <1>1, <1>2, <1>3, <1>4, <1>5, StampsDiffer
-----------------------------------------------------------------------------
(* The scans of the versions                                               *)
-----------------------------------------------------------------------------
LEMMA NewestFacts ==
  ASSUME NEW M \in Nat, V \in Nat \ {0}, NEW w \in [Slots -> 0 .. M]
  PROVE  \E i \in Slots : \A j \in Slots : w[j] <= w[i]
<1> DEFINE W == { w[i] : i \in Slots }
<1>1. W \subseteq 0 .. M /\ W # {}
  BY DEF Slots
<1>2. PICK x \in W : \A y \in W : y <= x
  <2> HIDE DEF W
  <2> QED
    BY <1>1, GreatestNumber
<1>3. PICK i \in Slots : x = w[i]
  BY <1>2
<1> QED
  BY <1>2, <1>3

LEMMA OldestFacts ==
  ASSUME NEW M \in Nat, V \in Nat \ {0}, NEW w \in [Slots -> 0 .. M]
  PROVE  \E i \in Slots : \A j \in Slots : w[i] < w[j] \/ (w[i] = w[j] /\ i <= j)
<1> DEFINE W == { w[i] : i \in Slots }
<1>1. W \subseteq Nat /\ W # {}
  BY DEF Slots
<1>2. PICK x \in W : \A y \in W : x <= y
  <2> HIDE DEF W
  <2> QED
    BY <1>1, LeastNumber
<1> DEFINE F == { i \in Slots : w[i] = x }
<1>3. F \subseteq Nat /\ F # {}
  <2>1. PICK i \in Slots : w[i] = x
    BY <1>2
  <2>2. Slots \subseteq Nat
    BY DEF Slots
  <2> QED
    BY <2>1, <2>2
<1>4. PICK i \in F : \A j \in F : i <= j
  <2> HIDE DEF F, W
  <2> QED
    BY <1>3, LeastNumber
<1>5. ASSUME NEW j \in Slots PROVE w[i] < w[j] \/ (w[i] = w[j] /\ i <= j)
  <2>1. w[j] \in Nat /\ w[i] = x /\ x <= w[j] /\ x \in Nat
    BY <1>1, <1>2, <1>4
  <2> QED
    BY <1>4, <2>1
<1> QED
  BY <1>4, <1>5

LEMMA Scans ==
  ASSUME TypeOK, NEW k \in Keys
  PROVE  /\ Newest(k) \in Slots /\ \A j \in Slots : wts[k][j] <= wts[k][Newest(k)]
         /\ Oldest(k) \in Slots /\ \A j \in Slots : wts[k][Oldest(k)] <= wts[k][j]
<1>1. V \in Nat \ {0}
  BY Constants
<1>2. PICK M \in Nat : M = MaxClock * 1024 + 1023
  BY ClockBound
<1>3. wts[k] \in [Slots -> 0 .. M]
  BY <1>2 DEF TypeOK, Stamps
<1>4. \E i \in Slots : \A j \in Slots : wts[k][j] <= wts[k][i]
  BY <1>1, <1>3, NewestFacts
<1>5. \E i \in Slots : \A j \in Slots :
        wts[k][i] < wts[k][j] \/ (wts[k][i] = wts[k][j] /\ i <= j)
  BY <1>1, <1>3, OldestFacts
<1>6. /\ Newest(k) \in Slots /\ \A j \in Slots : wts[k][j] <= wts[k][Newest(k)]
      /\ Oldest(k) \in Slots
      /\ \A j \in Slots :
           wts[k][Oldest(k)] < wts[k][j] \/ (wts[k][Oldest(k)] = wts[k][j] /\ Oldest(k) <= j)
  BY <1>4, <1>5, Zenon DEF Newest, Oldest
<1>7. ASSUME NEW j \in Slots PROVE wts[k][Oldest(k)] <= wts[k][j]
  <2>1. PICK a, b \in Nat : a = wts[k][Oldest(k)] /\ b = wts[k][j]
    BY <1>3, <1>6
  <2>2. a < b \/ a = b
    BY <1>6, <2>1
  <2> QED
    BY <2>1, <2>2
<1> QED
  BY <1>6, <1>7

\* A version that is not the newest has a next one.
LEMMA LaterExists ==
  ASSUME TypeOK, NEW k \in Keys, NEW i \in Slots, NEW l \in Slots, wts[k][i] < wts[k][l]
  PROVE  Later(k, i) # {}
<1> DEFINE W == { n \in Nat : \E j \in Slots : n = wts[k][j] /\ wts[k][i] < n }
<1>1. \A j \in Slots : wts[k][j] \in Nat
  BY DEF TypeOK, Stamps
<1>2. W \subseteq Nat /\ W # {}
  BY <1>1
<1>3. PICK n \in W : \A m \in W : n <= m
  <2> HIDE DEF W
  <2> QED
    BY <1>2, LeastNumber
<1>4. PICK j \in Slots : n = wts[k][j] /\ wts[k][i] < n
  BY <1>3
<1>5. \A m \in Slots : wts[k][i] < wts[k][m] => wts[k][j] <= wts[k][m]
  BY <1>1, <1>3, <1>4
<1> QED
  BY <1>4, <1>5 DEF Later

\* What a slot holds depends on it and on the stamps.
LEMMA ContentsKept ==
  ASSUME NEW k \in Keys, NEW i \in Slots, verbs' = verbs, wts'[k] = wts[k],
         data'[k][i] = data[k][i]
  PROVE  SlotContents(k, i)' <=> SlotContents(k, i)
<1>1. Later(k, i)' = Later(k, i)
  BY Zenon DEF Later
<1> QED
  BY <1>1, Zenon DEF SlotContents
-----------------------------------------------------------------------------
(* Steps that install nothing                                              *)
-----------------------------------------------------------------------------
\* The step leaves the state of the other coroutines alone.
OnlyOf(c) ==
  \A d \in Cors \ {c} :
    /\ clock'[d] = clock[d] /\ ts'[d] = ts[d] /\ pc'[d] = pc[d]
    /\ wset'[d] = wset[d] /\ last'[d] = last[d]
    /\ slot'[d] = slot[d] /\ base'[d] = base[d] /\ buf'[d] = buf[d]
    /\ pend'[d] = pend[d] /\ stamped'[d] = stamped[d]

LEMMA OthersKeep ==
  ASSUME NEW c \in Cors, OnlyOf(c), NEW d \in Cors \ {c}
  PROVE  /\ Own(d) => Own(d)'
         /\ \A k \in Keys : (Holds(d, k)' <=> Holds(d, k)) /\ (Passed(d, k)' <=> Passed(d, k))
<1>1. /\ clock'[d] = clock[d] /\ ts'[d] = ts[d] /\ pc'[d] = pc[d]
      /\ wset'[d] = wset[d] /\ last'[d] = last[d]
      /\ pend'[d] = pend[d] /\ stamped'[d] = stamped[d]
  BY DEF OnlyOf
<1>2. PhaseOf(d) => PhaseOf(d)'
  BY <1>1 DEF PhaseOf
<1>3. StampOf(d) => StampOf(d)'
  BY <1>1, Zenon DEF StampOf
<1>4. ASSUME NEW k \in Keys PROVE (Holds(d, k)' <=> Holds(d, k)) /\ (Passed(d, k)' <=> Passed(d, k))
  BY <1>1 DEF Holds, Passed
<1> QED
  BY <1>2, <1>3, <1>4 DEF Own

\* The step changes neither a lock word nor who holds what.
LEMMA LocksKeep ==
  ASSUME Inv, NEW c \in Cors, OnlyOf(c), lock' = lock,
         \A k \in Keys : (Holds(c, k)' <=> Holds(c, k)) /\ (Holds(c, k) => ts'[c] = ts[c])
  PROVE  LockOK'
<1>1. ASSUME NEW d \in Cors, NEW k \in Keys
      PROVE  (Holds(d, k)' <=> Holds(d, k)) /\ (Holds(d, k) => ts'[d] = ts[d])
  <2>1. CASE d = c
    BY <2>1
  <2>2. CASE d # c
    BY <2>2, OthersKeep DEF OnlyOf
  <2> QED
    BY <2>1, <2>2
<1> QED
  BY <1>1 DEF Inv, LockOK

\* The step gives back the lock of one record.
LEMMA LockGivenBack ==
  ASSUME Inv, NEW c \in Cors, NEW k \in Keys, OnlyOf(c), ts' = ts,
         lock' = [lock EXCEPT ![k] = 0], Holds(c, k), ~Holds(c, k)',
         \A j \in Keys \ {k} : Holds(c, j)' <=> Holds(c, j)
  PROVE  LockOK'
<1>1. \A j \in Keys : lock'[j] = IF j = k THEN 0 ELSE lock[j]
  BY DEF Inv, TypeOK
<1>2. ASSUME NEW d \in Cors, NEW j \in Keys
      PROVE  Holds(d, j)' <=> (Holds(d, j) /\ j # k)
  <2>1. CASE d = c
    BY <2>1
  <2>2. CASE d # c
    BY <2>2, OthersKeep, HoldFacts
  <2> QED
    BY <2>1, <2>2
<1> QED
  BY <1>1, <1>2 DEF Inv, LockOK

\* The step leaves a slot that c is changing so, or with the right contents.
Finishes(c) ==
  \A k \in Keys, i \in Slots : Touched(c, k, i) => Touched(c, k, i)' \/ SlotContents(k, i)

\* A step that installs no version keeps the invariant, if what concerns its
\* own coroutine is in order and a write call returns only above the read
\* stamp.
LEMMA Frame ==
  ASSUME Inv, NEW c \in Cors, OnlyOf(c), TypeOK', LockOK', Own(c)',
         \A k \in Keys : Items(c, k)',
         verbs' = verbs, wts' = wts, data' = data,
         \A r \in served' : r \in served \/ ServedOf(r)',
         \A k \in Keys : rts[k] <= rts'[k],
         clock[c] <= clock'[c],
         pc'[c] \notin {"idle", "upd"} => \A k \in Keys, i \in Slots : wts[k][i] # ts'[c],
         pc[c] = "upd" => Finishes(c),
         \A k \in Keys : Passed(c, k)' => \/ Passed(c, k) /\ ts'[c] = ts[c]
                                          \/ rts[k] <= ts'[c]
  PROVE  Inv'
<1>1. ASSUME NEW d \in Cors PROVE Own(d)'
  BY OthersKeep DEF Inv
<1>2. ASSUME NEW k \in Keys
      PROVE  Newest(k)' = Newest(k)
  BY DEF Newest
<1>3. ASSUME NEW d \in Cors \ {c}
      PROVE  /\ clock'[d] = clock[d] /\ ts'[d] = ts[d] /\ pc'[d] = pc[d]
             /\ last'[d] = last[d] /\ slot'[d] = slot[d] /\ base'[d] = base[d]
             /\ buf'[d] = buf[d] /\ pend'[d] = pend[d] /\ stamped'[d] = stamped[d]
  BY <1>3 DEF OnlyOf
<1>4. ASSUME NEW k \in Keys
      PROVE  rts[k] \in Nat /\ rts'[k] \in Nat /\ \A d \in Cors : ts[d] \in Nat /\ ts'[d] \in Nat
  <2>1. Stamps \subseteq Nat
    BY DEF Stamps
  <2> QED
    BY <2>1 DEF Inv, TypeOK
<1>5. ASSUME NEW d \in Cors, NEW k \in Keys, Passed(d, k)'
      PROVE  (Passed(d, k) /\ ts'[d] = ts[d]) \/ rts[k] <= ts'[d]
  <2>1. CASE d = c
    BY <1>5, <2>1
  <2>2. CASE d # c
    BY <1>3, <1>5, <2>2, OthersKeep
  <2> QED
    BY <2>1, <2>2
<1>6. ASSUME NEW d \in Cors, NEW k \in Keys PROVE Items(d, k)'
  <2>1. CASE d = c
    BY <2>1
  <2>2. CASE d # c
    <3>1. LatestOf(d, k)'
      <4>1. LatestOf(d, k) /\ (Passed(d, k)' <=> Passed(d, k))
        BY <2>2, OthersKeep DEF Inv, Items
      <4> QED
        BY <1>2, <1>3, <2>2, <4>1 DEF LatestOf, ScannedOf
    <3>2. InstalledOf(d, k)'
      <4>1. InstalledOf(d, k)
        BY DEF Inv, Items
      <4> QED
        BY <1>3, <2>2, <4>1 DEF InstalledOf, TopOf
    <3>3. MarkedOf(d, k)'
      <4> SUFFICES ASSUME ~verbs, k \in last[d], pc[d] \in {"rnote", "rcopy", "rrecheck", "rdone"}
                   PROVE  /\ ts[d] <= rts'[k]
                          /\ pc[d] = "rdone" => \A e \in Cors : Passed(e, k)' => ts[d] <= ts'[e]
        BY <1>3, <2>2 DEF MarkedOf
      <4>1. ts[d] <= rts[k] /\ (pc[d] = "rdone" => \A e \in Cors : Passed(e, k) => ts[d] <= ts[e])
        BY DEF Inv, Items, MarkedOf
      <4> QED
        BY <1>4, <1>5, <4>1
    <3> QED
      BY <3>1, <3>2, <3>3 DEF Items
  <2> QED
    BY <2>1, <2>2
<1>7. ASSUME NEW k \in Keys, NEW i \in Slots PROVE VersionPast(k, i)'
  <2>1. VersionPast(k, i)
    BY DEF Inv
  <2>2. ASSUME NEW d \in Cors, NEW n \in Nat, wts[k][i] = Stamp(n, d) PROVE n <= clock'[d]
    <3>1. n <= clock[d] /\ clock[d] \in Nat /\ clock'[d] \in Nat
      BY <2>1, <2>2, ClockBound DEF VersionPast, Inv, TypeOK
    <3> QED
      BY <1>3, <3>1
  <2>3. ASSUME NEW d \in Cors, pc'[d] \notin {"idle", "upd"} PROVE wts[k][i] # ts'[d]
    BY <1>3, <2>1, <2>3 DEF VersionPast
  <2> QED
    BY <2>2, <2>3 DEF VersionPast
<1>8. ASSUME NEW k \in Keys, NEW i \in Slots PROVE VersionOf(k, i)'
  <2>1. VersionOf(k, i)
    BY DEF Inv
  <2>2. ASSUME NEW d \in Cors, Touched(d, k, i) PROVE Touched(d, k, i)' \/ SlotContents(k, i)
    <3>1. CASE d = c
      <4>1. pc[c] = "upd"
        BY <2>2, <3>1 DEF Touched, Updating
      <4> QED
        BY <2>2, <3>1, <4>1 DEF Finishes
    <3>2. CASE d # c
      <4>1. /\ pc'[d] = pc[d] /\ slot'[d] = slot[d] /\ base'[d] = base[d]
            /\ pend'[d] = pend[d] /\ stamped'[d] = stamped[d]
        BY <1>3, <3>2
      <4> QED
        BY <2>2, <4>1, Zenon DEF Touched, Updating, Changed
    <3> QED
      BY <3>1, <3>2
  <2>3. SlotContents(k, i)' <=> SlotContents(k, i)
    BY ContentsKept
  <2>4. SlotContents(k, i)' \/ \E d \in Cors : Touched(d, k, i)'
    BY <2>1, <2>2, <2>3 DEF VersionOf
  <2> QED
    BY <2>1, <2>4 DEF VersionOf
<1>9. ASSUME NEW r \in served PROVE ServedOf(r)'
  <2>1. r[1] \in Keys /\ r[2] \in Nat /\ r[3] \in Nat
    <3>1. Stamps \subseteq Nat
      BY DEF Stamps
    <3> QED
      BY <3>1 DEF Inv, TypeOK
  <2>2. ServedOf(r)
    BY DEF Inv
  <2>3. ASSUME ~verbs, NEW d \in Cors, Passed(d, r[1])'
        PROVE  ~(r[2] < ts'[d] /\ ts'[d] < r[3])
    <3>1. rts[r[1]] \in Nat /\ ts'[d] \in Nat /\ ts[d] \in Nat
      BY <1>4, <2>1
    <3> QED
      BY <1>5, <2>1, <2>2, <2>3, <3>1 DEF ServedOf
  <2>4. ~verbs => r[3] <= rts'[r[1]]
    <3>1. rts[r[1]] \in Nat /\ rts'[r[1]] \in Nat /\ rts[r[1]] <= rts'[r[1]]
      BY <1>4, <2>1
    <3> QED
      BY <2>1, <2>2, <3>1 DEF ServedOf
  <2> QED
    BY <2>2, <2>3, <2>4 DEF ServedOf
<1> QED
  BY <1>1, <1>6, <1>7, <1>8, <1>9 DEF Inv

\* A step of a read: neither the write set nor what it was given changes.
LEMMA ReadStep ==
  ASSUME Inv, NEW c \in Cors, OnlyOf(c), TypeOK',
         pc[c] \in Reads \cup {"exec"}, pc'[c] \in Reads \cup {"exec"}, PhaseOf(c)',
         UNCHANGED << verbs, lock, wts, data, clock, ts, wset, batch >>,
         \A k \in Keys : rts[k] <= rts'[k],
         base' = base,
         \A k \in wset[c] : buf'[c][k] = buf[c][k] /\ slot'[c][k] = slot[c][k],
         \A k \in Keys : MarkedOf(c, k)',
         \A r \in served' : r \in served \/ ServedOf(r)'
  PROVE  Inv'
<1>1. /\ verbs' = verbs /\ lock' = lock /\ wts' = wts /\ data' = data
      /\ clock' = clock /\ ts' = ts /\ wset' = wset
      /\ pend' = pend /\ stamped' = stamped
  BY DEF batch
<1>2. /\ PhaseOf(c) /\ StampOf(c) /\ stamped[c] = {}
      /\ last[c] \cap wset[c] = {} /\ last'[c] \cap wset[c] = {}
  BY <1>1 DEF Inv, Own, PhaseOf, Reads
<1>3. StampOf(c)'
  BY <1>1, <1>2, Zenon DEF StampOf, Reads
<1>4. ASSUME NEW k \in Keys
      PROVE  /\ Holds(c, k)' <=> Holds(c, k)
             /\ Passed(c, k)' <=> Passed(c, k)
             /\ Passed(c, k) => k \in wset[c]
  BY <1>1, <1>2 DEF Holds, Passed, Reads
<1>5. LockOK'
  BY <1>1, <1>4, LocksKeep
<1>6. ASSUME NEW k \in Keys PROVE Items(c, k)'
  <2>1. LatestOf(c, k) /\ Newest(k)' = Newest(k)
    BY <1>1 DEF Inv, Items, Newest
  <2>2. LatestOf(c, k)'
    BY <1>1, <1>4, <2>1 DEF LatestOf, ScannedOf
  <2>3. InstalledOf(c, k)'
    BY <1>1, <1>2 DEF InstalledOf
  <2> QED
    BY <2>2, <2>3 DEF Items
<1>7. pc'[c] \notin {"idle", "upd"} => \A k \in Keys, i \in Slots : wts[k][i] # ts'[c]
  BY <1>1 DEF Inv, VersionPast, Reads
<1>8. clock[c] <= clock'[c]
  BY <1>1, ClockBound DEF Inv, TypeOK
<1>9. pc[c] # "upd"
  BY DEF Reads
<1> QED
  BY <1>1, <1>2, <1>3, <1>4, <1>5, <1>6, <1>7, <1>8, <1>9, Frame DEF Own

\* A refused or failed call: the transaction goes on to release what it holds.
LEMMA FailStep ==
  ASSUME Inv, NEW c \in Cors, NEW all, Fail(c, all), pc[c] \in Reads \cup Writes,
         UNCHANGED << verbs, rts, wts >>, LockOK', lock' \in [Keys -> Stamps],
         clock' \in [Cors -> 0 .. MaxClock], clock[c] <= clock'[c],
         \A d \in Cors \ {c} : clock'[d] = clock[d]
  PROVE  Inv'
<1>1. /\ verbs' = verbs /\ rts' = rts /\ wts' = wts /\ data' = data
      /\ ts' = ts /\ rset' = rset /\ wset' = wset /\ last' = last
      /\ slot' = slot /\ before' = before /\ buf' = buf
      /\ stamped' = stamped /\ base' = base /\ served' = served
  BY DEF Fail, item
<1>2. /\ pc' = [pc EXCEPT ![c] = "rel"]
      /\ pend' = [pend EXCEPT ![c] = IF all THEN wset[c] ELSE wset[c] \ last[c]]
  BY DEF Fail, Goto
<1>3. TypeOK'
  <2>1. pend' \in [Cors -> SUBSET Keys]
    BY <1>2 DEF Inv, TypeOK
  <2>2. pc' \in [Cors -> {"idle", "exec", "rcheck", "rpick", "rmark", "rnote",
                          "rcopy", "rrecheck", "rdone", "wcheck", "wlock",
                          "wrecheck", "rel", "upd"}]
    BY <1>2 DEF Inv, TypeOK
  <2> QED
    BY <1>1, <2>1, <2>2 DEF Inv, TypeOK
<1>4. pc'[c] = "rel" /\ pend'[c] \subseteq wset[c]
  BY <1>2 DEF Inv, TypeOK
<1>5. OnlyOf(c)
  BY <1>1, <1>2 DEF OnlyOf, Inv, TypeOK
<1>6. stamped[c] = {} /\ pc[c] # "idle" /\ pc[c] # "upd"
  BY DEF Inv, Own, PhaseOf, Reads, Writes
<1>7. PhaseOf(c)'
  BY <1>1, <1>4, <1>6 DEF PhaseOf, Reads, Writes
<1>8. StampOf(c)'
  <2>1. PICK n \in Nat : 1 <= n /\ n <= clock[c] /\ ts[c] = Stamp(n, c)
    BY <1>6 DEF Inv, Own, StampOf
  <2>2. n <= clock'[c]
    <3>1. clock[c] \in Nat /\ clock'[c] \in Nat
      BY ClockBound DEF Inv, TypeOK
    <3> QED
      BY <2>1, <3>1
  <2> QED
    BY <1>1, <1>4, <2>1, <2>2 DEF StampOf
<1>9. \A k \in Keys : Items(c, k)' /\ ~Passed(c, k)'
  BY <1>1, <1>4, <1>6 DEF Items, LatestOf, InstalledOf, MarkedOf, Passed
<1>10. \A k \in Keys, i \in Slots : wts[k][i] # ts'[c]
  BY <1>1, <1>6, <1>4 DEF Inv, VersionPast, Reads, Writes
<1>11. \A k \in Keys : rts[k] <= rts'[k]
  BY <1>1 DEF Inv, TypeOK, Stamps
<1> QED
  BY <1>1, <1>3, <1>5, <1>6, <1>7, <1>8, <1>9, <1>10, <1>11, Frame DEF Own
-----------------------------------------------------------------------------
(* The reads                                                               *)
-----------------------------------------------------------------------------
\* A failed read leaves the locks of the transaction to be released.
LEMMA ReadFails ==
  ASSUME Inv, NEW c \in Cors, pc[c] \in Reads, Fail(c, TRUE),
         UNCHANGED << verbs, header, clock >>
  PROVE  Inv'
<1>1. /\ verbs' = verbs /\ lock' = lock /\ rts' = rts /\ wts' = wts /\ clock' = clock
      /\ ts' = ts /\ wset' = wset /\ last' = last
      /\ slot' = slot /\ buf' = buf /\ stamped' = stamped /\ base' = base
      /\ pc' = [pc EXCEPT ![c] = "rel"] /\ pend' = [pend EXCEPT ![c] = wset[c]]
  BY DEF header, Fail, Goto, item
<1>2. OnlyOf(c)
  BY <1>1 DEF OnlyOf, Inv, TypeOK
<1>3. pc'[c] = "rel" /\ pend'[c] = wset[c]
  BY <1>1 DEF Inv, TypeOK
<1>4. \A k \in Keys : Holds(c, k)' <=> Holds(c, k)
  BY <1>1, <1>3 DEF Holds, Reads
<1>5. LockOK'
  BY <1>1, <1>2, <1>4, LocksKeep
<1>6. clock[c] <= clock'[c]
  BY <1>1, ClockBound DEF Inv, TypeOK
<1> QED
  BY <1>1, <1>5, <1>6, FailStep DEF Inv, TypeOK

LEMMA ReadInv ==
  ASSUME Inv, NEW c \in Cors, NEW k \in Keys, Read(c, k), verbs' = verbs
  PROVE  Inv'
<1>1. /\ pc[c] = "exec" /\ k \notin wset[c]
      /\ last' = [last EXCEPT ![c] = {k}] /\ pc' = [pc EXCEPT ![c] = "rcheck"]
      /\ lock' = lock /\ rts' = rts /\ wts' = wts /\ data' = data /\ clock' = clock /\ ts' = ts
      /\ rset' = rset /\ wset' = wset /\ slot' = slot /\ before' = before /\ buf' = buf
      /\ pend' = pend /\ stamped' = stamped /\ base' = base /\ served' = served
  BY DEF Read, Goto, header, item, batch
<1>2. TypeOK'
  BY <1>1 DEF Inv, TypeOK
<1>3. OnlyOf(c) /\ pc'[c] = "rcheck" /\ last'[c] = {k}
  BY <1>1 DEF OnlyOf, Inv, TypeOK
<1>4. PhaseOf(c)'
  BY <1>1, <1>3 DEF Inv, Own, PhaseOf, Reads, Writes
<1>5. \A j \in Keys : MarkedOf(c, j)'
  BY <1>3 DEF MarkedOf
<1>6. \A j \in Keys : rts[j] <= rts'[j]
  BY <1>1 DEF Inv, TypeOK, Stamps
<1> QED
  BY <1>1, <1>2, <1>3, <1>4, <1>5, <1>6, ReadStep DEF batch, Reads

LEMMA ReadCheckInv ==
  ASSUME Inv, NEW c \in Cors, NEW k \in Keys, ReadCheck(c, k), verbs' = verbs
  PROVE  Inv'
<1>1. CASE EarlierWrite(c, k)
  BY <1>1, ReadFails DEF ReadCheck, Reads
<1>2. CASE ~EarlierWrite(c, k)
  <2>1. /\ pc[c] = "rcheck" /\ last' = last /\ pc' = [pc EXCEPT ![c] = "rpick"]
        /\ lock' = lock /\ rts' = rts /\ wts' = wts /\ data' = data /\ clock' = clock /\ ts' = ts
        /\ rset' = rset /\ wset' = wset /\ slot' = slot /\ before' = before /\ buf' = buf
        /\ pend' = pend /\ stamped' = stamped /\ base' = base /\ served' = served
    BY <1>2 DEF ReadCheck, Goto, header, item, batch
  <2>2. TypeOK'
    BY <2>1 DEF Inv, TypeOK
  <2>3. OnlyOf(c) /\ pc'[c] = "rpick"
    BY <2>1 DEF OnlyOf, Inv, TypeOK
  <2>4. PhaseOf(c)'
    BY <2>1, <2>3 DEF Inv, Own, PhaseOf, Reads, Writes
  <2>5. \A j \in Keys : MarkedOf(c, j)'
    BY <2>3 DEF MarkedOf
  <2>6. \A j \in Keys : rts[j] <= rts'[j]
    BY <2>1 DEF Inv, TypeOK, Stamps
  <2> QED
    BY <2>1, <2>2, <2>3, <2>4, <2>5, <2>6, ReadStep DEF batch, Reads
<1> QED
  BY <1>1, <1>2

LEMMA ReadPickInv ==
  ASSUME Inv, NEW c \in Cors, NEW k \in Keys, ReadPick(c, k), verbs' = verbs
  PROVE  Inv'
<1>1. CASE Readable(c, k) = {}
  BY <1>1, ReadFails DEF ReadPick, Reads
<1>2. CASE Readable(c, k) # {}
  <2>1. PICK i \in Readable(c, k) :
          /\ slot' = [slot EXCEPT ![c][k] = i]
          /\ before' = [before EXCEPT ![c] = IF verbs THEN wts[k][i] ELSE @]
    BY <1>2 DEF ReadPick
  <2>2. /\ pc[c] = "rpick" /\ k \in last[c] /\ last' = last
        /\ pc' = [pc EXCEPT ![c] = IF verbs THEN "rcopy" ELSE "rmark"]
        /\ lock' = lock /\ rts' = rts /\ wts' = wts /\ data' = data /\ clock' = clock /\ ts' = ts
        /\ rset' = rset /\ wset' = wset /\ buf' = buf
        /\ pend' = pend /\ stamped' = stamped /\ base' = base /\ served' = served
    BY <1>2 DEF ReadPick, Goto, header, batch
  <2>3. TypeOK'
    <3>1. i \in Slots /\ wts[k][i] \in Stamps
      BY <2>1 DEF Readable, Inv, TypeOK
    <3>2. slot' \in [Cors -> [Keys -> Slots]]
      BY <2>1, <3>1 DEF Inv, TypeOK
    <3>3. before' \in [Cors -> Stamps]
      BY <2>1, <3>1 DEF Inv, TypeOK
    <3> QED
      BY <2>2, <3>2, <3>3 DEF Inv, TypeOK
  <2>4. pc'[c] = IF verbs THEN "rcopy" ELSE "rmark"
    BY <2>2 DEF Inv, TypeOK
  <2>5. OnlyOf(c)
    BY <2>1, <2>2 DEF OnlyOf, Inv, TypeOK
  <2>6. PhaseOf(c)'
    BY <2>2, <2>4 DEF Inv, Own, PhaseOf, Reads, Writes
  <2>7. \A j \in Keys : MarkedOf(c, j)'
    BY <2>4 DEF MarkedOf
  <2>8. \A j \in Keys : rts[j] <= rts'[j]
    BY <2>2 DEF Inv, TypeOK, Stamps
  <2>9. \A j \in wset[c] : slot'[c][j] = slot[c][j]
    <3>1. k \notin wset[c]
      BY <2>2 DEF Inv, Own, PhaseOf, Reads
    <3> QED
      BY <2>1, <3>1 DEF Inv, TypeOK
  <2> QED
    BY <2>2, <2>3, <2>4, <2>5, <2>6, <2>7, <2>8, <2>9, ReadStep DEF batch, Reads
<1> QED
  BY <1>1, <1>2

\* From here on rts keeps the later writers above the reader.
LEMMA ReadMarkInv ==
  ASSUME Inv, NEW c \in Cors, NEW k \in Keys, ReadMark(c, k), verbs' = verbs
  PROVE  Inv'
<1>1. /\ pc[c] = "rmark" /\ k \in last[c] /\ last' = last /\ pc' = [pc EXCEPT ![c] = "rnote"]
      /\ rts' = [rts EXCEPT ![k] = IF ts[c] > @ THEN ts[c] ELSE @]
      /\ lock' = lock /\ wts' = wts /\ data' = data /\ clock' = clock /\ ts' = ts
      /\ rset' = rset /\ wset' = wset /\ slot' = slot /\ before' = before /\ buf' = buf
      /\ pend' = pend /\ stamped' = stamped /\ base' = base /\ served' = served
  BY DEF ReadMark, Goto, txn, item, batch
<1>2. TypeOK'
  <2>1. rts' \in [Keys -> Stamps]
    BY <1>1 DEF Inv, TypeOK
  <2> QED
    BY <1>1, <2>1 DEF Inv, TypeOK
<1>3. OnlyOf(c) /\ pc'[c] = "rnote"
  BY <1>1 DEF OnlyOf, Inv, TypeOK
<1>4. PhaseOf(c)'
  BY <1>1, <1>3 DEF Inv, Own, PhaseOf, Reads, Writes
<1>5. /\ \A j \in Keys : rts[j] <= rts'[j]
      /\ ts[c] <= rts'[k]
  BY <1>1 DEF Inv, TypeOK, Stamps
<1>6. \A j \in Keys : j \in last[c] => j = k
  BY <1>1 DEF Inv, Own, PhaseOf, Reads
<1>7. \A j \in Keys : MarkedOf(c, j)'
  BY <1>1, <1>3, <1>5, <1>6 DEF MarkedOf
<1> QED
  BY <1>1, <1>2, <1>3, <1>4, <1>5, <1>7, ReadStep DEF batch, Reads

LEMMA ReadNoteInv ==
  ASSUME Inv, NEW c \in Cors, NEW k \in Keys, ReadNote(c, k), verbs' = verbs
  PROVE  Inv'
<1>1. /\ pc[c] = "rnote" /\ k \in last[c] /\ last' = last /\ pc' = [pc EXCEPT ![c] = "rcopy"]
      /\ before' = [before EXCEPT ![c] = wts[k][slot[c][k]]]
      /\ lock' = lock /\ rts' = rts /\ wts' = wts /\ data' = data /\ clock' = clock /\ ts' = ts
      /\ rset' = rset /\ wset' = wset /\ slot' = slot /\ buf' = buf
      /\ pend' = pend /\ stamped' = stamped /\ base' = base /\ served' = served
  BY DEF ReadNote, Goto, header, txn, batch
<1>2. TypeOK'
  <2>1. before' \in [Cors -> Stamps]
    BY <1>1 DEF Inv, TypeOK
  <2> QED
    BY <1>1, <2>1 DEF Inv, TypeOK
<1>3. OnlyOf(c) /\ pc'[c] = "rcopy"
  BY <1>1 DEF OnlyOf, Inv, TypeOK
<1>4. PhaseOf(c)'
  BY <1>1, <1>3 DEF Inv, Own, PhaseOf, Reads, Writes
<1>5. \A j \in Keys : MarkedOf(c, j)'
  BY <1>1, <1>3 DEF Inv, Items, MarkedOf
<1>6. \A j \in Keys : rts[j] <= rts'[j]
  BY <1>1 DEF Inv, TypeOK, Stamps
<1> QED
  BY <1>1, <1>2, <1>3, <1>4, <1>5, <1>6, ReadStep DEF batch, Reads

LEMMA ReadCopyInv ==
  ASSUME Inv, NEW c \in Cors, NEW k \in Keys, ReadCopy(c, k), verbs' = verbs
  PROVE  Inv'
<1>1. /\ pc[c] = "rcopy" /\ k \in last[c] /\ last' = last /\ pc' = [pc EXCEPT ![c] = "rrecheck"]
      /\ buf' = [buf EXCEPT ![c][k] = data[k][slot[c][k]]]
      /\ lock' = lock /\ rts' = rts /\ wts' = wts /\ data' = data /\ clock' = clock /\ ts' = ts
      /\ rset' = rset /\ wset' = wset /\ slot' = slot /\ before' = before
      /\ pend' = pend /\ stamped' = stamped /\ base' = base /\ served' = served
  BY DEF ReadCopy, Goto, header, txn, batch
<1>2. TypeOK'
  <2>1. buf' \in [Cors -> [Keys -> Stamps \cup Slots]]
    BY <1>1 DEF Inv, TypeOK
  <2> QED
    BY <1>1, <2>1 DEF Inv, TypeOK
<1>3. OnlyOf(c) /\ pc'[c] = "rrecheck"
  BY <1>1 DEF OnlyOf, Inv, TypeOK
<1>4. PhaseOf(c)'
  BY <1>1, <1>3 DEF Inv, Own, PhaseOf, Reads, Writes
<1>5. \A j \in Keys : MarkedOf(c, j)'
  BY <1>1, <1>3 DEF Inv, Items, MarkedOf
<1>6. \A j \in Keys : rts[j] <= rts'[j]
  BY <1>1 DEF Inv, TypeOK, Stamps
<1>7. \A j \in wset[c] : buf'[c][j] = buf[c][j]
  <2>1. k \notin wset[c]
    BY <1>1 DEF Inv, Own, PhaseOf, Reads
  <2> QED
    BY <1>1, <2>1 DEF Inv, TypeOK
<1> QED
  BY <1>1, <1>2, <1>3, <1>4, <1>5, <1>6, <1>7, ReadStep DEF batch, Reads

\* No writer with a stamp below the reader's has the lock: those that will
\* install a version are above it.
LEMMA ReadRecheckInv ==
  ASSUME Inv, NEW c \in Cors, NEW k \in Keys, ReadRecheck(c, k), verbs' = verbs
  PROVE  Inv'
<1>1. CASE EarlierWrite(c, k)
  BY <1>1, ReadFails DEF ReadRecheck, Reads
<1>2. CASE ~EarlierWrite(c, k)
  <2>1. /\ pc[c] = "rrecheck" /\ k \in last[c] /\ last' = last /\ pc' = [pc EXCEPT ![c] = "rdone"]
        /\ lock' = lock /\ rts' = rts /\ wts' = wts /\ data' = data /\ clock' = clock /\ ts' = ts
        /\ rset' = rset /\ wset' = wset /\ slot' = slot /\ before' = before /\ buf' = buf
        /\ pend' = pend /\ stamped' = stamped /\ base' = base /\ served' = served
    BY <1>2 DEF ReadRecheck, Goto, header, item, batch
  <2>2. TypeOK'
    BY <2>1 DEF Inv, TypeOK
  <2>3. OnlyOf(c) /\ pc'[c] = "rdone"
    BY <2>1 DEF OnlyOf, Inv, TypeOK
  <2>4. PhaseOf(c)'
    BY <2>1, <2>3 DEF Inv, Own, PhaseOf, Reads, Writes
  <2>5. \A j \in Keys : j \in last[c] => j = k
    BY <2>1 DEF Inv, Own, PhaseOf, Reads
  <2>6. ASSUME NEW d \in Cors, Passed(d, k)' PROVE ts[c] <= ts[d]
    <3>1. Passed(d, k)
      <4>1. CASE d = c
        BY <2>1, <2>3, <2>6, <4>1 DEF Passed
      <4>2. CASE d # c
        BY <2>3, <2>6, <4>2, OthersKeep
      <4> QED
        BY <4>1, <4>2
    <3>2. lock[k] = ts[d] /\ ts[d] # 0
      BY <3>1, HoldFacts
    <3>3. ~(ts[d] < ts[c])
      BY <1>2, <3>2 DEF EarlierWrite
    <3>4. ts[c] \in Nat /\ ts[d] \in Nat
      BY DEF Inv, TypeOK, Stamps
    <3> QED
      BY <3>3, <3>4
  <2>7. ASSUME NEW j \in Keys PROVE MarkedOf(c, j)'
    <3>1. MarkedOf(c, j)
      BY DEF Inv, Items
    <3> QED
      BY <2>1, <2>3, <2>5, <2>6, <3>1 DEF MarkedOf
  <2>8. \A j \in Keys : rts[j] <= rts'[j]
    BY <2>1 DEF Inv, TypeOK, Stamps
  <2> QED
    BY <2>1, <2>2, <2>3, <2>4, <2>7, <2>8, ReadStep DEF batch, Reads
<1> QED
  BY <1>1, <1>2

\* The read is served: the version it found is the newest below its stamp, and
\* stays so.
LEMMA ReadDoneInv ==
  ASSUME Inv, NEW c \in Cors, NEW k \in Keys, ReadDone(c, k), verbs' = verbs
  PROVE  Inv'
<1> DEFINE Found == slot[c][k] \in Readable(c, k) /\ wts[k][slot[c][k]] = before[c]
<1>1. CASE ~Found
  BY <1>1, ReadFails DEF ReadDone, Reads
<1>2. CASE Found
  <2>1. /\ pc[c] = "rdone" /\ k \in last[c]
        /\ rset' = [rset EXCEPT ![c] = @ \cup {k}]
        /\ last' = [last EXCEPT ![c] = {}]
        /\ buf' = [buf EXCEPT ![c][k] = Received(c, k)]
        /\ served' = served \cup {<< k, before[c], ts[c] >>}
        /\ pc' = [pc EXCEPT ![c] = "exec"]
        /\ lock' = lock /\ rts' = rts /\ wts' = wts /\ data' = data /\ clock' = clock /\ ts' = ts
        /\ wset' = wset /\ slot' = slot /\ before' = before
        /\ pend' = pend /\ stamped' = stamped /\ base' = base
    BY <1>2 DEF ReadDone, Goto, header, batch
  <2>2. TypeOK'
    <3>1. Received(c, k) \in Stamps \cup Slots
      BY DEF Received, Inv, TypeOK
    <3>2. buf' \in [Cors -> [Keys -> Stamps \cup Slots]]
      BY <2>1, <3>1 DEF Inv, TypeOK
    <3>3. served' \subseteq Keys \X Stamps \X Stamps
      BY <2>1 DEF Inv, TypeOK
    <3>4. rset' \in [Cors -> SUBSET Keys] /\ last' \in [Cors -> SUBSET Keys]
      BY <2>1 DEF Inv, TypeOK
    <3> QED
      BY <2>1, <3>2, <3>3, <3>4 DEF Inv, TypeOK
  <2>3. pc'[c] = "exec" /\ last'[c] = {}
    BY <2>1 DEF Inv, TypeOK
  <2>4. OnlyOf(c)
    BY <2>1 DEF OnlyOf, Inv, TypeOK
  <2>5. PhaseOf(c)'
    BY <2>1, <2>3 DEF Inv, Own, PhaseOf, Reads, Writes
  <2>6. \A j \in Keys : MarkedOf(c, j)'
    BY <2>3 DEF MarkedOf
  <2>7. \A j \in Keys : rts[j] <= rts'[j]
    BY <2>1 DEF Inv, TypeOK, Stamps
  <2>8. k \notin wset[c]
    BY <2>1 DEF Inv, Own, PhaseOf, Reads
  <2>9. \A j \in wset[c] : buf'[c][j] = buf[c][j]
    BY <2>1, <2>8 DEF Inv, TypeOK
  <2>10. ASSUME NEW r, r = << k, before[c], ts[c] >> PROVE ServedOf(r)'
    <3>1. r[1] = k /\ r[2] = before[c] /\ r[3] = ts[c]
      BY <2>10
    <3>2. ~verbs => /\ ts[c] <= rts[k]
                    /\ \A d \in Cors : Passed(d, k) => ts[c] <= ts[d]
      BY <2>1 DEF Inv, Items, MarkedOf
    <3>3. ASSUME NEW i \in Slots PROVE ~(before[c] < wts[k][i] /\ wts[k][i] < ts[c])
      <4>1. wts[k][i] < ts[c] => wts[k][i] <= before[c]
        BY <1>2 DEF Readable
      <4>2. wts[k][i] \in Nat /\ before[c] \in Nat
        BY DEF Inv, TypeOK, Stamps
      <4> QED
        BY <4>1, <4>2
    <3>4. ASSUME NEW d \in Cors, Passed(d, k)', ~verbs PROVE ~(ts[d] < ts[c])
      <4>1. Passed(d, k)
        <5>1. CASE d = c
          BY <2>1, <2>3, <2>8, <3>4, <5>1 DEF Passed
        <5>2. CASE d # c
          BY <2>4, <3>4, <5>2, OthersKeep
        <5> QED
          BY <5>1, <5>2
      <4>2. ts[c] \in Nat /\ ts[d] \in Nat
        BY DEF Inv, TypeOK, Stamps
      <4> QED
        BY <3>2, <3>4, <4>1, <4>2
    <3> QED
      BY <2>1, <3>1, <3>2, <3>3, <3>4 DEF ServedOf
  <2>11. \A r \in served' : r \in served \/ ServedOf(r)'
    BY <2>1, <2>10
  <2> QED
    BY <2>1, <2>2, <2>3, <2>4, <2>5, <2>6, <2>7, <2>9, <2>11, ReadStep DEF batch, Reads
<1> QED
  BY <1>1, <1>2
-----------------------------------------------------------------------------
(* The writes                                                              *)
-----------------------------------------------------------------------------
\* A refusal moves the clock forward, and not beyond the other clocks.
LEMMA CatchUpFacts ==
  ASSUME Inv, NEW c \in Cors, pc[c] \notin {"idle", "rel"},
         NEW t \in Stamps, t > ts[c], CatchUp(c, t)
  PROVE  /\ clock' \in [Cors -> 0 .. MaxClock]
         /\ clock[c] <= clock'[c]
         /\ \A d \in Cors \ {c} : clock'[d] = clock[d]
<1>1. PICK n \in Nat : n = clock[c] /\ ts[c] = Stamp(n, c)
  <2>1. StampOf(c)
    BY DEF Inv, Own
  <2> QED
    BY <2>1 DEF StampOf
<1>2. PICK q : q = Reading(t)
  OBVIOUS
<1>3. q \in 0 .. MaxClock /\ n <= q
  <2>1. t > Stamp(n, c)
    BY <1>1
  <2>2. \A u \in Stamps : Reading(u) \in 0 .. MaxClock
    BY StampReading
  <2>3. \A u \in Stamps : u > Stamp(n, c) => n <= Reading(u)
    BY StampReading
  <2> QED
    BY <1>2, <2>1, <2>2, <2>3
<1>4. clock' = [clock EXCEPT ![c] = q]
  BY <1>2 DEF CatchUp, Reading
<1> QED
  BY <1>1, <1>3, <1>4, ClockBound DEF Inv, TypeOK

LEMMA CheckFacts ==
  ASSUME Inv, NEW c \in Cors, NEW k \in Keys
  PROVE  /\ check_write(c, k) # 0 => check_write(c, k) \in Stamps /\ check_write(c, k) > ts[c]
         /\ check_write(c, k) # 0 => rts[k] > ts[c] \/ wts[k][Newest(k)] > ts[c]
         /\ check_write(c, k) = 0 => rts[k] <= ts[c] /\ wts[k][Newest(k)] <= ts[c]
<1>1. PICK r, w, t : r = rts[k] /\ w = wts[k][Newest(k)] /\ t = ts[c]
  OBVIOUS
<1>2. r \in Stamps /\ w \in Stamps /\ t \in Stamps
  BY <1>1, Scans DEF Inv, TypeOK
<1>3. Stamps \subseteq Nat
  BY DEF Stamps
<1>4. PICK g : g = IF r > w THEN r ELSE w
  OBVIOUS
<1>5. check_write(c, k) = IF g > t THEN g ELSE 0
  BY <1>1, <1>4 DEF check_write, LargestStamp
<1>6. g \in Stamps /\ (g > t => r > t \/ w > t) /\ (~(g > t) => r <= t /\ w <= t) /\ (g > t => g # 0)
  BY <1>2, <1>3, <1>4
<1> QED
  BY <1>1, <1>5, <1>6

\* A refused write call: the record is not held and is not released.
LEMMA WriteFails ==
  ASSUME Inv, NEW c \in Cors, pc[c] \in {"wcheck", "wlock"}, Fail(c, FALSE),
         UNCHANGED << verbs, header >>,
         clock' \in [Cors -> 0 .. MaxClock], clock[c] <= clock'[c],
         \A d \in Cors \ {c} : clock'[d] = clock[d]
  PROVE  Inv'
<1>1. /\ verbs' = verbs /\ lock' = lock /\ rts' = rts /\ wts' = wts
      /\ ts' = ts /\ wset' = wset /\ last' = last
      /\ slot' = slot /\ buf' = buf /\ stamped' = stamped /\ base' = base
      /\ pc' = [pc EXCEPT ![c] = "rel"] /\ pend' = [pend EXCEPT ![c] = wset[c] \ last[c]]
  BY DEF header, Fail, Goto, item
<1>2. OnlyOf(c)
  BY <1>1 DEF OnlyOf, Inv, TypeOK
<1>3. pc'[c] = "rel" /\ pend'[c] = wset[c] \ last[c]
  BY <1>1 DEF Inv, TypeOK
<1>4. \A k \in Keys : Holds(c, k)' <=> Holds(c, k)
  BY <1>1, <1>3 DEF Holds, Reads
<1>5. LockOK'
  BY <1>1, <1>2, <1>4, LocksKeep
<1>6. lock' \in [Keys -> Stamps]
  BY <1>1 DEF Inv, TypeOK
<1> QED
  BY <1>1, <1>5, <1>6, FailStep DEF Writes

LEMMA BeginInv ==
  ASSUME Inv, NEW c \in Cors, Begin(c), verbs' = verbs
  PROVE  Inv'
<1>1. /\ pc[c] = "idle" /\ clock[c] < Until[c]
      /\ clock' = [clock EXCEPT ![c] = @ + 1]
      /\ ts' = [ts EXCEPT ![c] = Stamp(clock[c] + 1, c)]
      /\ pc' = [pc EXCEPT ![c] = "exec"]
      /\ lock' = lock /\ rts' = rts /\ wts' = wts /\ data' = data
      /\ rset' = rset /\ wset' = wset /\ last' = last
      /\ slot' = slot /\ before' = before /\ buf' = buf
      /\ pend' = pend /\ stamped' = stamped /\ base' = base /\ served' = served
  BY DEF Begin, Goto, header, item, batch, Stamp
<1>2. PICK n \in Nat : n = clock[c] + 1 /\ n <= MaxClock /\ 1 <= n /\ clock[c] \in Nat
  <2>1. clock[c] \in Nat /\ Until[c] \in Nat /\ MaxClock \in Nat /\ Until[c] <= MaxClock
    BY Constants, ClockBound DEF Inv, TypeOK
  <2> QED
    BY <1>1, <2>1
<1>3. Stamp(n, c) \in Stamps
  BY <1>2, StampReading
<1>4. clock' = [clock EXCEPT ![c] = n] /\ ts' = [ts EXCEPT ![c] = Stamp(n, c)]
  BY <1>1, <1>2
<1>5. TypeOK'
  <2>1. clock' \in [Cors -> 0 .. MaxClock]
    BY <1>2, <1>4, ClockBound DEF Inv, TypeOK
  <2>2. ts' \in [Cors -> Stamps]
    BY <1>3, <1>4 DEF Inv, TypeOK
  <2> QED
    BY <1>1, <2>1, <2>2 DEF Inv, TypeOK
<1>6. pc'[c] = "exec" /\ clock'[c] = n /\ ts'[c] = Stamp(n, c) /\ clock[c] <= clock'[c]
  BY <1>1, <1>2, <1>4 DEF Inv, TypeOK
<1>7. OnlyOf(c)
  BY <1>1, <1>4 DEF OnlyOf, Inv, TypeOK
<1>8. wset[c] = {} /\ last[c] = {} /\ stamped[c] = {} /\ pend[c] = {}
  BY <1>1 DEF Inv, Own, PhaseOf
<1>9. PhaseOf(c)'
  BY <1>1, <1>6, <1>8 DEF PhaseOf, Reads, Writes
<1>10. StampOf(c)'
  <2>1. 1 <= n /\ n <= clock'[c]
    BY <1>2, <1>6
  <2> QED
    BY <1>6, <2>1 DEF StampOf
<1>11. \A k \in Keys : ~Holds(c, k) /\ ~Holds(c, k)' /\ ~Passed(c, k)'
  BY <1>1, <1>8 DEF Holds, Passed
<1>12. LockOK'
  BY <1>1, <1>7, <1>11, LocksKeep
<1>13. \A k \in Keys : Items(c, k)'
  BY <1>1, <1>6, <1>8, <1>11 DEF Items, LatestOf, InstalledOf, MarkedOf
<1>14. ASSUME NEW k \in Keys, NEW i \in Slots PROVE wts[k][i] # ts'[c]
  <2>1. wts[k][i] = Stamp(n, c) => n <= clock[c]
    BY DEF Inv, VersionPast
  <2> QED
    BY <1>2, <1>6, <2>1
<1>15. \A k \in Keys : rts[k] <= rts'[k]
  BY <1>1 DEF Inv, TypeOK, Stamps
<1> QED
  BY <1>1, <1>5, <1>6, <1>7, <1>8, <1>9, <1>10, <1>11, <1>12, <1>13, <1>14, <1>15, Frame DEF Own

LEMMA WriteInv ==
  ASSUME Inv, NEW c \in Cors, NEW k \in Keys, Write(c, k), verbs' = verbs
  PROVE  Inv'
<1>1. /\ pc[c] = "exec" /\ k \notin wset[c]
      /\ wset' = [wset EXCEPT ![c] = @ \cup {k}]
      /\ last' = [last EXCEPT ![c] = {k}] /\ pc' = [pc EXCEPT ![c] = "wcheck"]
      /\ lock' = lock /\ rts' = rts /\ wts' = wts /\ data' = data /\ clock' = clock /\ ts' = ts
      /\ rset' = rset /\ slot' = slot /\ before' = before /\ buf' = buf
      /\ pend' = pend /\ stamped' = stamped /\ base' = base /\ served' = served
  BY DEF Write, Goto, header, item, batch
<1>2. TypeOK'
  <2>1. wset' \in [Cors -> SUBSET Keys] /\ last' \in [Cors -> SUBSET Keys]
    BY <1>1 DEF Inv, TypeOK
  <2> QED
    BY <1>1, <2>1 DEF Inv, TypeOK
<1>3. pc'[c] = "wcheck" /\ last'[c] = {k} /\ wset'[c] = wset[c] \cup {k}
  BY <1>1 DEF Inv, TypeOK
<1>4. OnlyOf(c)
  BY <1>1 DEF OnlyOf, Inv, TypeOK
<1>5. stamped[c] = {} /\ pend[c] = {} /\ last[c] = {}
  BY <1>1 DEF Inv, Own, PhaseOf
<1>6. PhaseOf(c)'
  BY <1>1, <1>3, <1>5 DEF PhaseOf, Reads, Writes
<1>7. StampOf(c)'
  <2>1. StampOf(c)
    BY DEF Inv, Own
  <2> QED
    BY <1>1, <1>3, <2>1 DEF StampOf
<1>8. ASSUME NEW j \in Keys
      PROVE  (Holds(c, j)' <=> Holds(c, j)) /\ (Passed(c, j)' <=> Passed(c, j))
  BY <1>1, <1>3, <1>5 DEF Holds, Passed, Reads
<1>9. LockOK'
  BY <1>1, <1>4, <1>8, LocksKeep
<1>10. ASSUME NEW j \in Keys PROVE Items(c, j)'
  <2>1. LatestOf(c, j) /\ Newest(j)' = Newest(j)
    BY <1>1 DEF Inv, Items, Newest
  <2> QED
    BY <1>1, <1>3, <1>5, <1>8, <2>1 DEF Items, LatestOf, ScannedOf, InstalledOf, MarkedOf
<1>11. \A j \in Keys, i \in Slots : wts[j][i] # ts'[c]
  BY <1>1 DEF Inv, VersionPast
<1>12. (\A j \in Keys : rts[j] <= rts'[j]) /\ clock[c] <= clock'[c]
  BY <1>1, ClockBound DEF Inv, TypeOK, Stamps
<1> QED
  BY <1>1, <1>2, <1>4, <1>5, <1>6, <1>7, <1>8, <1>9, <1>10, <1>11, <1>12, Frame DEF Own

LEMMA WriteCheckInv ==
  ASSUME Inv, NEW c \in Cors, NEW k \in Keys, WriteCheck(c, k), verbs' = verbs
  PROVE  Inv'
<1>1. /\ pc[c] = "wcheck" /\ k \in last[c]
      /\ lock' = lock /\ rts' = rts /\ wts' = wts
  BY DEF WriteCheck, header
<1>2. CASE check_write(c, k) # 0
  <2>1. CatchUp(c, check_write(c, k)) /\ Fail(c, FALSE)
    BY <1>2 DEF WriteCheck
  <2>2. PICK t : t = check_write(c, k)
    OBVIOUS
  <2>3. t \in Stamps /\ t > ts[c]
    BY <1>2, <2>2, CheckFacts
  <2>4. CatchUp(c, t)
    BY <2>1, <2>2 DEF CatchUp
  <2> QED
    BY <1>1, <2>1, <2>3, <2>4, CatchUpFacts, WriteFails DEF header
<1>3. CASE check_write(c, k) = 0 /\ ~verbs /\ lock[k] > ts[c]
  <2>1. CatchUp(c, lock[k]) /\ Fail(c, FALSE)
    <3>1. lock[k] \in Nat /\ ts[c] \in Nat
      BY DEF Inv, TypeOK, Stamps
    <3>2. ~(lock[k] <= ts[c])
      BY <1>3, <3>1
    <3> QED
      BY <1>3, <3>2, Zenon DEF WriteCheck
  <2>2. PICK t : t = lock[k]
    OBVIOUS
  <2>3. t \in Stamps /\ t > ts[c]
    BY <1>3, <2>2 DEF Inv, TypeOK
  <2>4. CatchUp(c, t)
    BY <2>1, <2>2 DEF CatchUp
  <2> QED
    BY <1>1, <2>1, <2>3, <2>4, CatchUpFacts, WriteFails DEF header
<1>4. CASE check_write(c, k) = 0 /\ (verbs \/ lock[k] <= ts[c])
  <2>1. /\ pc' = [pc EXCEPT ![c] = "wlock"]
        /\ data' = data /\ clock' = clock /\ ts' = ts /\ rset' = rset /\ wset' = wset
        /\ last' = last /\ slot' = slot /\ before' = before /\ buf' = buf
        /\ pend' = pend /\ stamped' = stamped /\ base' = base /\ served' = served
    <3>1. lock[k] \in Nat /\ ts[c] \in Nat
      BY DEF Inv, TypeOK, Stamps
    <3>2. verbs \/ ~(lock[k] > ts[c])
      BY <1>4, <3>1
    <3>3. Goto(c, "wlock") /\ UNCHANGED << data, txn, item, batch, served >>
      BY <1>4, <3>2, Zenon DEF WriteCheck
    <3> QED
      BY <3>3 DEF Goto, txn, item, batch
  <2>2. TypeOK'
    BY <1>1, <2>1 DEF Inv, TypeOK
  <2>3. OnlyOf(c) /\ pc'[c] = "wlock"
    BY <2>1 DEF OnlyOf, Inv, TypeOK
  <2>4. stamped[c] = {} /\ pend[c] = {}
    BY <1>1 DEF Inv, Own, PhaseOf
  <2>5. PhaseOf(c)'
    BY <1>1, <2>1, <2>3, <2>4 DEF Inv, Own, PhaseOf, Reads, Writes
  <2>6. StampOf(c)'
    <3>1. StampOf(c)
      BY DEF Inv, Own
    <3> QED
      BY <1>1, <2>1, <2>3, <3>1 DEF StampOf
  <2>7. ASSUME NEW j \in Keys
        PROVE  (Holds(c, j)' <=> Holds(c, j)) /\ (Passed(c, j)' <=> Passed(c, j))
    BY <1>1, <2>1, <2>3, <2>4 DEF Holds, Passed, Reads
  <2>8. LockOK'
    BY <1>1, <2>1, <2>3, <2>7, LocksKeep
  <2>9. ASSUME NEW j \in Keys PROVE Items(c, j)'
    <3>1. LatestOf(c, j) /\ Newest(j)' = Newest(j)
      BY <1>1 DEF Inv, Items, Newest
    <3> QED
      BY <1>1, <2>1, <2>3, <2>4, <2>7, <3>1 DEF Items, LatestOf, ScannedOf, InstalledOf, MarkedOf
  <2>10. \A j \in Keys, i \in Slots : wts[j][i] # ts'[c]
    BY <1>1, <2>1 DEF Inv, VersionPast
  <2>11. (\A j \in Keys : rts[j] <= rts'[j]) /\ clock[c] <= clock'[c]
    BY <1>1, <2>1, ClockBound DEF Inv, TypeOK, Stamps
  <2> QED
    BY <1>1, <2>1, <2>2, <2>3, <2>4, <2>5, <2>6, <2>7, <2>8, <2>9, <2>10, <2>11, Frame DEF Own
<1> QED
  <2>1. lock[k] \in Nat /\ ts[c] \in Nat
    BY DEF Inv, TypeOK, Stamps
  <2> QED
    BY <1>2, <1>3, <1>4, <2>1

\* The compare-and-swap takes a lock word that nobody holds.
LEMMA WriteLockInv ==
  ASSUME Inv, NEW c \in Cors, NEW k \in Keys, WriteLock(c, k), verbs' = verbs
  PROVE  Inv'
<1>1. /\ pc[c] = "wlock" /\ k \in last[c] /\ rts' = rts /\ wts' = wts
  BY DEF WriteLock
<1>2. CASE lock[k] # 0
  <2>1. Fail(c, FALSE) /\ lock' = lock
    BY <1>2 DEF WriteLock
  <2>2. CASE verbs /\ lock[k] > ts[c]
    <3>1. PICK t : t = lock[k]
      OBVIOUS
    <3>2. t \in Stamps /\ t > ts[c]
      BY <2>2, <3>1 DEF Inv, TypeOK
    <3>3. CatchUp(c, t)
      BY <1>2, <2>2, <3>1 DEF WriteLock, CatchUp
    <3> QED
      BY <1>1, <2>1, <3>2, <3>3, CatchUpFacts, WriteFails DEF header
  <2>3. CASE ~(verbs /\ lock[k] > ts[c])
    <3>1. clock' = clock
      BY <1>2, <2>3 DEF WriteLock
    <3>2. clock' \in [Cors -> 0 .. MaxClock] /\ clock[c] <= clock'[c]
      BY <3>1, ClockBound DEF Inv, TypeOK
    <3> QED
      BY <1>1, <2>1, <3>1, <3>2, WriteFails DEF header
  <2> QED
    BY <2>2, <2>3
<1>3. CASE lock[k] = 0
  <2>1. /\ pc' = [pc EXCEPT ![c] = "wrecheck"] /\ lock' = [lock EXCEPT ![k] = ts[c]]
        /\ data' = data /\ clock' = clock /\ ts' = ts /\ rset' = rset /\ wset' = wset
        /\ last' = last /\ slot' = slot /\ before' = before /\ buf' = buf
        /\ pend' = pend /\ stamped' = stamped /\ base' = base /\ served' = served
    BY <1>3 DEF WriteLock, Goto, txn, item, batch
  <2>2. TypeOK'
    <3>1. lock' \in [Keys -> Stamps]
      BY <2>1 DEF Inv, TypeOK
    <3> QED
      BY <1>1, <2>1, <3>1 DEF Inv, TypeOK
  <2>3. OnlyOf(c) /\ pc'[c] = "wrecheck"
    BY <2>1 DEF OnlyOf, Inv, TypeOK
  <2>4. stamped[c] = {} /\ pend[c] = {} /\ last[c] = {k} /\ k \in wset[c]
    BY <1>1 DEF Inv, Own, PhaseOf, Writes
  <2>5. PhaseOf(c)'
    BY <1>1, <2>1, <2>3, <2>4 DEF PhaseOf, Reads, Writes
  <2>6. StampOf(c)'
    <3>1. StampOf(c)
      BY DEF Inv, Own
    <3> QED
      BY <1>1, <2>1, <2>3, <3>1 DEF StampOf
  <2>7. ASSUME NEW j \in Keys
        PROVE  (Holds(c, j)' <=> (Holds(c, j) \/ j = k)) /\ (Passed(c, j)' <=> Passed(c, j))
    BY <1>1, <2>1, <2>3, <2>4 DEF Holds, Passed, Reads
  <2>8. LockOK'
    <3>1. \A j \in Keys : lock'[j] = IF j = k THEN ts[c] ELSE lock[j]
      BY <2>1 DEF Inv, TypeOK
    <3>2. ASSUME NEW d \in Cors, NEW j \in Keys
          PROVE  Holds(d, j)' <=> (Holds(d, j) \/ (d = c /\ j = k))
      <4>1. CASE d = c
        BY <2>7, <4>1
      <4>2. CASE d # c
        BY <2>3, <4>2, OthersKeep
      <4> QED
        BY <4>1, <4>2
    <3>3. \A d \in Cors : ~Holds(d, k)
      BY <1>3, HoldFacts
    <3>4. \A d \in Cors, j \in Keys : Holds(d, j) => lock[j] = ts[d]
      BY DEF Inv, LockOK
    <3>5. \A j \in Keys : lock[j] # 0 => \E d \in Cors : Holds(d, j)
      BY DEF Inv, LockOK
    <3> QED
      BY <2>1, <3>1, <3>2, <3>3, <3>4, <3>5 DEF LockOK
  <2>9. ASSUME NEW j \in Keys PROVE Items(c, j)'
    <3>1. LatestOf(c, j) /\ Newest(j)' = Newest(j)
      BY <1>1 DEF Inv, Items, Newest
    <3> QED
      BY <1>1, <2>1, <2>3, <2>4, <2>7, <3>1 DEF Items, LatestOf, ScannedOf, InstalledOf, MarkedOf
  <2>10. \A j \in Keys, i \in Slots : wts[j][i] # ts'[c]
    BY <1>1, <2>1 DEF Inv, VersionPast
  <2>11. (\A j \in Keys : rts[j] <= rts'[j]) /\ clock[c] <= clock'[c]
    BY <1>1, <2>1, ClockBound DEF Inv, TypeOK, Stamps
  <2> QED
    BY <1>1, <2>1, <2>2, <2>3, <2>4, <2>5, <2>6, <2>7, <2>8, <2>9, <2>10, <2>11, Frame DEF Own
<1> QED
  BY <1>2, <1>3

\* Under the lock: a record read or written above the stamp is refused.
LEMMA RefusedUnderLock ==
  ASSUME Inv, NEW c \in Cors, NEW k \in Keys, WriteRecheck(c, k), verbs' = verbs,
         check_write(c, k) # 0
  PROVE  Inv'
<1>1. /\ pc[c] = "wrecheck" /\ k \in last[c] /\ rts' = rts /\ wts' = wts
      /\ CatchUp(c, IF rts[k] > ts[c] THEN rts[k] ELSE wts[k][Newest(k)])
      /\ lock' = IF verbs THEN lock ELSE [lock EXCEPT ![k] = 0]
      /\ Fail(c, verbs)
  BY DEF WriteRecheck
<1>2. PICK t : t = IF rts[k] > ts[c] THEN rts[k] ELSE wts[k][Newest(k)]
  OBVIOUS
<1>3. t \in Stamps /\ t > ts[c]
  <2>1. rts[k] > ts[c] \/ wts[k][Newest(k)] > ts[c]
    BY CheckFacts
  <2>2. rts[k] \in Stamps /\ wts[k][Newest(k)] \in Stamps
    BY Scans DEF Inv, TypeOK
  <2> QED
    BY <1>2, <2>1, <2>2
<1>4. CatchUp(c, t)
  BY <1>1, <1>2 DEF CatchUp
<1>5. /\ clock' \in [Cors -> 0 .. MaxClock] /\ clock[c] <= clock'[c]
      /\ \A d \in Cors \ {c} : clock'[d] = clock[d]
  BY <1>1, <1>3, <1>4, CatchUpFacts
<1>6. /\ ts' = ts /\ wset' = wset /\ last' = last
      /\ slot' = slot /\ buf' = buf /\ stamped' = stamped /\ base' = base
      /\ pc' = [pc EXCEPT ![c] = "rel"]
      /\ pend' = [pend EXCEPT ![c] = IF verbs THEN wset[c] ELSE wset[c] \ last[c]]
  BY <1>1 DEF Fail, Goto, item
<1>7. OnlyOf(c)
  BY <1>5, <1>6 DEF OnlyOf, Inv, TypeOK
<1>8. /\ pc'[c] = "rel" /\ pend'[c] = IF verbs THEN wset[c] ELSE wset[c] \ last[c]
      /\ last[c] = {k} /\ k \in wset[c]
  BY <1>1, <1>6 DEF Inv, TypeOK, Own, PhaseOf, Writes
<1>9. Holds(c, k) /\ \A j \in Keys : Holds(c, j)' <=> (Holds(c, j) /\ (verbs \/ j # k))
  BY <1>1, <1>6, <1>8 DEF Holds, Reads
<1>10. LockOK'
  <2>1. CASE verbs
    BY <1>1, <1>6, <1>7, <1>9, <2>1, LocksKeep
  <2>2. CASE ~verbs
    BY <1>1, <1>6, <1>7, <1>9, <2>2, LockGivenBack
  <2> QED
    BY <2>1, <2>2
<1>11. lock' \in [Keys -> Stamps]
  BY <1>1, ClockBound DEF Inv, TypeOK, Stamps
<1> QED
  BY <1>1, <1>5, <1>10, <1>11, FailStep DEF Writes

\* Otherwise nobody is writing the record: the contents of its newest version
\* are complete, and all reads of it so far are below the stamp.
LEMMA GrantedUnderLock ==
  ASSUME Inv, NEW c \in Cors, NEW k \in Keys, WriteRecheck(c, k), verbs' = verbs,
         check_write(c, k) = 0
  PROVE  Inv'
<1>1. /\ pc[c] = "wrecheck" /\ k \in last[c]
      /\ slot' = [slot EXCEPT ![c][k] = Oldest(k)]
      /\ base' = [base EXCEPT ![c][k] = Newest(k)]
      /\ buf' = [buf EXCEPT ![c][k] = data[k][Newest(k)]]
      /\ last' = [last EXCEPT ![c] = {}] /\ pc' = [pc EXCEPT ![c] = "exec"]
      /\ lock' = lock /\ rts' = rts /\ wts' = wts /\ data' = data /\ clock' = clock /\ ts' = ts
      /\ rset' = rset /\ wset' = wset /\ before' = before
      /\ pend' = pend /\ stamped' = stamped /\ served' = served
  BY DEF WriteRecheck, Goto, batch
<1>2. Newest(k) \in Slots /\ Oldest(k) \in Slots
  BY Scans DEF Inv
<1>3. TypeOK'
  <2>1. slot' \in [Cors -> [Keys -> Slots]] /\ base' \in [Cors -> [Keys -> Slots]]
    BY <1>1, <1>2 DEF Inv, TypeOK
  <2>2. buf' \in [Cors -> [Keys -> Stamps \cup Slots]]
    BY <1>1, <1>2 DEF Inv, TypeOK
  <2> QED
    BY <1>1, <2>1, <2>2 DEF Inv, TypeOK
<1>4. pc'[c] = "exec" /\ last'[c] = {}
  BY <1>1 DEF Inv, TypeOK
<1>5. OnlyOf(c)
  BY <1>1 DEF OnlyOf, Inv, TypeOK
<1>6. stamped[c] = {} /\ pend[c] = {} /\ last[c] = {k} /\ k \in wset[c]
  BY <1>1 DEF Inv, Own, PhaseOf, Writes
<1>7. PhaseOf(c)'
  BY <1>1, <1>4, <1>6 DEF PhaseOf, Reads, Writes
<1>8. StampOf(c)'
  <2>1. StampOf(c)
    BY DEF Inv, Own
  <2> QED
    BY <1>1, <1>4, <2>1 DEF StampOf
<1>9. ASSUME NEW j \in Keys
      PROVE  /\ Holds(c, j)' <=> Holds(c, j)
             /\ Passed(c, j)' <=> (Passed(c, j) \/ j = k)
  BY <1>1, <1>4, <1>6 DEF Holds, Passed, Reads
<1>10. LockOK'
  BY <1>1, <1>5, <1>9, LocksKeep
<1>11. data[k][Newest(k)] = wts[k][Newest(k)]
  <2>1. Holds(c, k)
    BY <1>1, <1>6 DEF Holds
  <2>2. ASSUME NEW d \in Cors, Touched(d, k, Newest(k)) PROVE FALSE
    <3>1. Holds(d, k) /\ pc[d] = "upd"
      BY <2>2, HoldFacts
    <3>2. c = d
      BY <2>1, <3>1, HoldFacts
    <3> QED
      BY <1>1, <3>1, <3>2
  <2>3. VersionOf(k, Newest(k))
    BY <1>2 DEF Inv
  <2>4. SlotContents(k, Newest(k))
    BY <2>2, <2>3 DEF VersionOf
  <2>5. Later(k, Newest(k)) = {}
    <3> SUFFICES ASSUME NEW j \in Slots, wts[k][Newest(k)] < wts[k][j] PROVE FALSE
      BY DEF Later
    <3>1. wts[k][j] <= wts[k][Newest(k)]
      BY Scans DEF Inv
    <3>2. wts[k][j] \in Nat /\ wts[k][Newest(k)] \in Nat
      BY <1>2 DEF Inv, TypeOK, Stamps
    <3> QED
      BY <3>1, <3>2
  <2> QED
    BY <2>4, <2>5 DEF SlotContents
<1>12. rts[k] <= ts[c] /\ wts[k][Newest(k)] < ts[c]
  <2>1. rts[k] <= ts[c] /\ wts[k][Newest(k)] <= ts[c]
    BY CheckFacts
  <2>2. wts[k][Newest(k)] # ts[c]
    BY <1>1, <1>2 DEF Inv, VersionPast
  <2>3. wts[k][Newest(k)] \in Nat /\ ts[c] \in Nat
    BY <1>2 DEF Inv, TypeOK, Stamps
  <2> QED
    BY <2>1, <2>2, <2>3
<1>13. \A j \in Keys : buf'[c][j] = IF j = k THEN data[k][Newest(k)] ELSE buf[c][j]
  BY <1>1 DEF Inv, TypeOK
<1>14. ASSUME NEW j \in Keys PROVE Items(c, j)'
  <2>1. LatestOf(c, j) /\ Newest(j)' = Newest(j)
    BY <1>1 DEF Inv, Items, Newest
  <2>2. CASE j = k
    <3>1. slot'[c][k] = Oldest(k) /\ base'[c][k] = Newest(k)
      BY <1>1 DEF Inv, TypeOK
    <3>2. wts[k][Newest(k)] # 0
      <4>1. PICK l \in Slots : wts[k][l] # 0
        BY <1>2 DEF Inv, VersionOf
      <4>2. wts[k][l] <= wts[k][Newest(k)]
        BY Scans DEF Inv
      <4>3. wts[k][l] \in Nat /\ wts[k][Newest(k)] \in Nat
        BY <1>2 DEF Inv, TypeOK, Stamps
      <4> QED
        BY <4>1, <4>2, <4>3
    <3>3. \A l \in Slots : wts[k][Oldest(k)] <= wts[k][l] /\ wts[k][l] <= wts[k][Newest(k)]
      BY Scans DEF Inv
    <3>4. ScannedOf(c, k)'
      BY <1>1, <3>1, <3>2, <3>3 DEF ScannedOf
    <3>5. LatestOf(c, k)'
      BY <1>1, <1>11, <1>12, <1>13, <2>1, <2>2, <3>4 DEF LatestOf
    <3> QED
      BY <1>1, <1>4, <1>6, <2>2, <3>5 DEF Items, InstalledOf, MarkedOf
  <2>3. CASE j # k
    <3>1. slot'[c][j] = slot[c][j] /\ base'[c][j] = base[c][j]
      BY <1>1, <2>3 DEF Inv, TypeOK
    <3>2. LatestOf(c, j)'
      BY <1>1, <1>9, <1>13, <2>1, <2>3, <3>1 DEF LatestOf, ScannedOf
    <3> QED
      BY <1>1, <1>4, <1>6, <3>2 DEF Items, InstalledOf, MarkedOf
  <2> QED
    BY <2>2, <2>3
<1>15. \A j \in Keys, i \in Slots : wts[j][i] # ts'[c]
  BY <1>1 DEF Inv, VersionPast
<1>16. (\A j \in Keys : rts[j] <= rts'[j]) /\ clock[c] <= clock'[c]
  BY <1>1, ClockBound DEF Inv, TypeOK, Stamps
<1> QED
  BY <1>1, <1>3, <1>5, <1>6, <1>7, <1>8, <1>9, <1>10, <1>12, <1>14, <1>15, <1>16, Frame DEF Own
-----------------------------------------------------------------------------
(* The batches at the end of a transaction                                 *)
-----------------------------------------------------------------------------
LEMMA ReleaseItemInv ==
  ASSUME Inv, NEW c \in Cors, NEW k \in Keys, ReleaseItem(c, k), verbs' = verbs
  PROVE  Inv'
<1>1. /\ pc[c] = "rel" /\ k \in pend[c]
      /\ lock' = [lock EXCEPT ![k] = 0] /\ pend' = [pend EXCEPT ![c] = @ \ {k}]
      /\ rts' = rts /\ wts' = wts /\ data' = data /\ clock' = clock /\ ts' = ts /\ pc' = pc
      /\ rset' = rset /\ wset' = wset /\ last' = last /\ slot' = slot /\ before' = before
      /\ buf' = buf /\ stamped' = stamped /\ base' = base /\ served' = served
  BY DEF ReleaseItem, txn, item
<1>2. TypeOK'
  <2>1. lock' \in [Keys -> Stamps]
    BY <1>1, ClockBound DEF Inv, TypeOK, Stamps
  <2>2. pend' \in [Cors -> SUBSET Keys]
    BY <1>1 DEF Inv, TypeOK
  <2> QED
    BY <1>1, <2>1, <2>2 DEF Inv, TypeOK
<1>3. OnlyOf(c) /\ pend'[c] = pend[c] \ {k}
  BY <1>1 DEF OnlyOf, Inv, TypeOK
<1>4. stamped[c] = {} /\ pend[c] \subseteq wset[c]
  BY <1>1 DEF Inv, Own, PhaseOf
<1>5. PhaseOf(c)'
  BY <1>1, <1>3, <1>4 DEF PhaseOf, Reads, Writes
<1>6. StampOf(c)'
  <2>1. StampOf(c)
    BY DEF Inv, Own
  <2> QED
    BY <1>1, <2>1 DEF StampOf
<1>7. /\ Holds(c, k) /\ ~Holds(c, k)'
      /\ \A j \in Keys \ {k} : Holds(c, j)' <=> Holds(c, j)
      /\ \A j \in Keys : ~Passed(c, j)'
  BY <1>1, <1>3, <1>4 DEF Holds, Passed, Reads
<1>8. LockOK'
  BY <1>1, <1>3, <1>7, LockGivenBack
<1>9. \A j \in Keys : Items(c, j)'
  BY <1>1, <1>4, <1>7 DEF Items, LatestOf, InstalledOf, MarkedOf
<1>10. \A j \in Keys, i \in Slots : wts[j][i] # ts'[c]
  BY <1>1 DEF Inv, VersionPast
<1>11. (\A j \in Keys : rts[j] <= rts'[j]) /\ clock[c] <= clock'[c]
  BY <1>1, ClockBound DEF Inv, TypeOK, Stamps
<1> QED
  BY <1>1, <1>2, <1>3, <1>4, <1>5, <1>6, <1>7, <1>8, <1>9, <1>10, <1>11, Frame DEF Own

LEMMA CommitInv ==
  ASSUME Inv, NEW c \in Cors, Commit(c), verbs' = verbs
  PROVE  Inv'
<1>1. /\ pc[c] = "exec" /\ pend' = [pend EXCEPT ![c] = wset[c]]
      /\ pc' = [pc EXCEPT ![c] = "upd"]
      /\ lock' = lock /\ rts' = rts /\ wts' = wts /\ data' = data /\ clock' = clock /\ ts' = ts
      /\ rset' = rset /\ wset' = wset /\ last' = last /\ slot' = slot /\ before' = before
      /\ buf' = buf /\ stamped' = stamped /\ base' = base /\ served' = served
  BY DEF Commit, Goto, header, txn, item
<1>2. TypeOK'
  <2>1. pend' \in [Cors -> SUBSET Keys]
    BY <1>1 DEF Inv, TypeOK
  <2> QED
    BY <1>1, <2>1 DEF Inv, TypeOK
<1>3. OnlyOf(c) /\ pend'[c] = wset[c] /\ pc'[c] = "upd"
  BY <1>1 DEF OnlyOf, Inv, TypeOK
<1>4. stamped[c] = {} /\ last[c] = {}
  BY <1>1 DEF Inv, Own, PhaseOf
<1>5. PhaseOf(c)'
  BY <1>1, <1>3, <1>4 DEF PhaseOf, Reads, Writes
<1>6. StampOf(c)'
  <2>1. StampOf(c)
    BY DEF Inv, Own
  <2> QED
    BY <1>1, <1>3, <2>1 DEF StampOf
<1>7. \A j \in Keys : (Holds(c, j)' <=> Holds(c, j)) /\ (Passed(c, j)' <=> Passed(c, j))
  BY <1>1, <1>3, <1>4 DEF Holds, Passed, Reads
<1>8. LockOK'
  BY <1>1, <1>3, <1>7, LocksKeep
<1>9. ASSUME NEW j \in Keys PROVE Items(c, j)'
  <2>1. LatestOf(c, j) /\ Newest(j)' = Newest(j)
    BY <1>1 DEF Inv, Items, Newest
  <2> QED
    BY <1>1, <1>3, <1>4, <1>7, <2>1 DEF Items, LatestOf, ScannedOf, InstalledOf, MarkedOf
<1>10. (\A j \in Keys : rts[j] <= rts'[j]) /\ clock[c] <= clock'[c]
  BY <1>1, ClockBound DEF Inv, TypeOK, Stamps
<1> QED
  BY <1>1, <1>2, <1>3, <1>4, <1>5, <1>6, <1>7, <1>8, <1>9, <1>10, Frame DEF Own

\* When all that changes is in place the new version is right, and over verbs
\* the one before it holds the contents of the new one.
LEMMA WrittenOut ==
  ASSUME Inv, NEW c \in Cors, NEW k \in Keys, k \in stamped[c],
         NEW i \in Slots, i \in Changed(c, k), data[k][i] = ts[c]
  PROVE  SlotContents(k, i)
<1>1. TopOf(c, k)
  BY DEF Inv, Items, InstalledOf
<1>2. PICK s \in Slots : s = slot[c][k]
  BY DEF Inv, TypeOK
<1>3. PICK b \in Slots : b = base[c][k]
  BY DEF Inv, TypeOK
<1>4. /\ wts[k][s] = ts[c] /\ wts[k][b] # 0
      /\ \A j \in Slots : j # s => wts[k][j] < ts[c] /\ wts[k][j] <= wts[k][b]
  BY <1>1, <1>2, <1>3 DEF TopOf
<1>5. ts[c] \in Nat /\ \A j \in Slots : wts[k][j] \in Nat
  BY DEF Inv, TypeOK, Stamps
<1>6. i = s \/ (verbs /\ i = b)
  BY <1>2, <1>3 DEF Changed
<1>7. CASE i = s
  <2>1. Later(k, i) = {}
    <3> SUFFICES ASSUME NEW j \in Slots, wts[k][s] < wts[k][j] PROVE FALSE
      BY <1>7 DEF Later
    <3> QED
      BY <1>4, <1>5
  <2> QED
    BY <1>4, <1>7, <2>1 DEF SlotContents
<1>8. CASE verbs /\ i = b /\ i # s
  <2>1. s \in Later(k, i)
    <3>1. wts[k][i] < wts[k][s]
      BY <1>4, <1>8
    <3>2. ASSUME NEW l \in Slots, wts[k][i] < wts[k][l] PROVE wts[k][s] <= wts[k][l]
      <4>1. l = s
        BY <1>4, <1>5, <1>8, <3>2
      <4> QED
        BY <1>5, <4>1
    <3> QED
      BY <3>1, <3>2 DEF Later
  <2> QED
    BY <1>4, <1>8, <2>1 DEF SlotContents
<1> QED
  BY <1>6, <1>7, <1>8

\* The lock goes back when the contents of the new version are in place.
LEMMA UpdateUnlockInv ==
  ASSUME Inv, NEW c \in Cors, NEW k \in Keys, UpdateUnlock(c, k), verbs' = verbs
  PROVE  Inv'
<1>1. /\ pc[c] = "upd" /\ k \in stamped[c]
      /\ \A i \in Changed(c, k) : data[k][i] = ts[c]
      /\ lock' = [lock EXCEPT ![k] = 0] /\ pend' = [pend EXCEPT ![c] = @ \ {k}]
      /\ stamped' = [stamped EXCEPT ![c] = @ \ {k}] /\ base' = base
      /\ rts' = rts /\ wts' = wts /\ data' = data /\ clock' = clock /\ ts' = ts /\ pc' = pc
      /\ rset' = rset /\ wset' = wset /\ last' = last /\ slot' = slot /\ before' = before
      /\ buf' = buf /\ served' = served
  BY DEF UpdateUnlock, txn, item
<1>2. TypeOK'
  <2>1. lock' \in [Keys -> Stamps]
    BY <1>1, ClockBound DEF Inv, TypeOK, Stamps
  <2>2. /\ pend' \in [Cors -> SUBSET Keys] /\ stamped' \in [Cors -> SUBSET Keys]
    BY <1>1 DEF Inv, TypeOK
  <2> QED
    BY <1>1, <2>1, <2>2 DEF Inv, TypeOK
<1>3. pend'[c] = pend[c] \ {k} /\ stamped'[c] = stamped[c] \ {k}
  BY <1>1 DEF Inv, TypeOK
<1>4. OnlyOf(c)
  BY <1>1 DEF OnlyOf, Inv, TypeOK
<1>5. /\ stamped[c] \subseteq pend[c]
      /\ pend[c] \subseteq wset[c] /\ last[c] = {}
  BY <1>1 DEF Inv, Own, PhaseOf
<1>6. PhaseOf(c)'
  BY <1>1, <1>3, <1>5 DEF PhaseOf, Reads, Writes
<1>7. StampOf(c)'
  <2>1. StampOf(c)
    BY DEF Inv, Own
  <2> QED
    BY <1>1, <2>1 DEF StampOf
<1>8. /\ Holds(c, k) /\ ~Holds(c, k)'
      /\ \A j \in Keys \ {k} : Holds(c, j)' <=> Holds(c, j)
      /\ \A j \in Keys : Passed(c, j)' <=> (Passed(c, j) /\ j # k)
  BY <1>1, <1>3, <1>5 DEF Holds, Passed, Reads
<1>9. LockOK'
  BY <1>1, <1>4, <1>8, LockGivenBack
<1>10. ASSUME NEW j \in Keys PROVE Items(c, j)'
  <2>1. LatestOf(c, j) /\ InstalledOf(c, j) /\ Newest(j)' = Newest(j)
    BY <1>1 DEF Inv, Items, Newest
  <2>2. LatestOf(c, j)'
    BY <1>1, <1>3, <1>8, <2>1 DEF LatestOf, ScannedOf
  <2>3. InstalledOf(c, j)'
    BY <1>1, <1>3, <2>1 DEF InstalledOf, TopOf
  <2> QED
    BY <1>1, <2>2, <2>3 DEF Items, MarkedOf
<1>11. ASSUME NEW i \in Slots, i \in Changed(c, k) PROVE SlotContents(k, i)
  BY <1>1, <1>11, WrittenOut
<1>12. Finishes(c)
  <2> SUFFICES ASSUME NEW j \in Keys, NEW i \in Slots, Touched(c, j, i)
               PROVE  Touched(c, j, i)' \/ SlotContents(j, i)
    BY DEF Finishes
  <2>1. CASE j = k
    BY <1>11, <2>1 DEF Touched
  <2>2. CASE j # k
    <3>1. pc'[c] = pc[c] /\ (j \in pend'[c] <=> j \in pend[c]) /\ (j \in stamped'[c] <=> j \in stamped[c])
      BY <1>1, <1>3, <2>2
    <3>2. Changed(c, j)' = Changed(c, j)
      BY <1>1, Zenon DEF Changed
    <3> QED
      BY <3>1, <3>2 DEF Touched, Updating
  <2> QED
    BY <2>1, <2>2
<1>13. (\A j \in Keys : rts[j] <= rts'[j]) /\ clock[c] <= clock'[c]
  BY <1>1, ClockBound DEF Inv, TypeOK, Stamps
<1> QED
  BY <1>1, <1>2, <1>4, <1>6, <1>7, <1>8, <1>9, <1>10, <1>12, <1>13, Frame DEF Own

LEMMA EndInv ==
  ASSUME Inv, NEW c \in Cors, End(c), verbs' = verbs
  PROVE  Inv'
<1>1. /\ pc[c] \in {"rel", "upd"} /\ pend[c] = {} /\ pc' = [pc EXCEPT ![c] = "idle"]
      /\ rset' = [rset EXCEPT ![c] = {}] /\ wset' = [wset EXCEPT ![c] = {}]
      /\ last' = [last EXCEPT ![c] = {}] /\ slot' = [slot EXCEPT ![c] = [k \in Keys |-> 0]]
      /\ base' = [base EXCEPT ![c] = [k \in Keys |-> 0]]
      /\ before' = [before EXCEPT ![c] = 0] /\ buf' = [buf EXCEPT ![c] = [k \in Keys |-> 0]]
      /\ lock' = lock /\ rts' = rts /\ wts' = wts /\ data' = data /\ clock' = clock /\ ts' = ts
      /\ pend' = pend /\ stamped' = stamped /\ served' = served
  BY DEF End, Goto, header, batch
<1>2. TypeOK'
  <2>1. 0 \in Slots /\ 0 \in Stamps
    BY Constants, ClockBound DEF Slots, Stamps
  <2>2. slot' \in [Cors -> [Keys -> Slots]] /\ base' \in [Cors -> [Keys -> Slots]]
    BY <1>1, <2>1 DEF Inv, TypeOK
  <2>3. before' \in [Cors -> Stamps] /\ buf' \in [Cors -> [Keys -> Stamps \cup Slots]]
    BY <1>1, <2>1 DEF Inv, TypeOK
  <2>4. /\ rset' \in [Cors -> SUBSET Keys] /\ wset' \in [Cors -> SUBSET Keys]
        /\ last' \in [Cors -> SUBSET Keys]
    BY <1>1 DEF Inv, TypeOK
  <2> QED
    BY <1>1, <2>2, <2>3, <2>4 DEF Inv, TypeOK
<1>3. pc'[c] = "idle" /\ wset'[c] = {} /\ last'[c] = {}
  BY <1>1 DEF Inv, TypeOK
<1>4. OnlyOf(c)
  BY <1>1 DEF OnlyOf, Inv, TypeOK
<1>5. stamped[c] = {}
  BY <1>1 DEF Inv, Own, PhaseOf
<1>6. PhaseOf(c)' /\ StampOf(c)'
  BY <1>1, <1>3, <1>5 DEF PhaseOf, StampOf, Reads, Writes
<1>7. \A j \in Keys : ~Holds(c, j) /\ ~Holds(c, j)' /\ ~Passed(c, j)'
  BY <1>1, <1>3 DEF Holds, Passed, Reads
<1>8. LockOK'
  BY <1>1, <1>4, <1>7, LocksKeep
<1>9. \A j \in Keys : Items(c, j)'
  BY <1>1, <1>3, <1>5, <1>7 DEF Items, LatestOf, InstalledOf, MarkedOf
<1>10. (\A j \in Keys : rts[j] <= rts'[j]) /\ clock[c] <= clock'[c]
  BY <1>1, ClockBound DEF Inv, TypeOK, Stamps
<1>11. Finishes(c)
  BY <1>1 DEF Finishes, Touched, Updating
<1> QED
  BY <1>1, <1>2, <1>3, <1>4, <1>5, <1>6, <1>7, <1>8, <1>9, <1>10, <1>11, Frame DEF Own

\* The contents of the version under way.
LEMMA UpdateDataInv ==
  ASSUME Inv, NEW c \in Cors, NEW k \in Keys, UpdateData(c, k), verbs' = verbs
  PROVE  Inv'
<1>1. PICK s \in Changed(c, k) : data' = [data EXCEPT ![k][s] = ts[c]]
  BY DEF UpdateData
<1>2. /\ Updating(c, k) /\ pc[c] = "upd" /\ k \in pend[c]
      /\ lock' = lock /\ rts' = rts /\ wts' = wts /\ clock' = clock /\ ts' = ts /\ pc' = pc
      /\ rset' = rset /\ wset' = wset /\ last' = last /\ slot' = slot /\ before' = before
      /\ base' = base /\ buf' = buf /\ pend' = pend /\ stamped' = stamped /\ served' = served
  BY DEF UpdateData, Updating, header, txn, item, batch
<1>3. s \in Slots
  BY <1>1 DEF Changed, Inv, TypeOK
<1>4. \A j \in Keys, i \in Slots :
        data'[j][i] = IF j = k /\ i = s THEN ts[c] ELSE data[j][i]
  BY <1>1, <1>3 DEF Inv, TypeOK
<1>5. TypeOK'
  <2>1. data' \in [Keys -> [Slots -> Stamps]]
    BY <1>1, <1>3 DEF Inv, TypeOK
  <2> QED
    BY <1>2, <2>1 DEF Inv, TypeOK
<1>6. \A d \in Cors, j \in Keys : (Holds(d, j)' <=> Holds(d, j)) /\ (Passed(d, j)' <=> Passed(d, j))
  BY <1>2 DEF Holds, Passed
<1>7. LockOK'
  BY <1>2, <1>6 DEF Inv, LockOK
<1>8. ASSUME NEW d \in Cors PROVE Own(d)'
  BY <1>2 DEF Inv, Own, PhaseOf, StampOf
<1>9. ASSUME NEW d \in Cors, NEW j \in Keys PROVE Items(d, j)'
  <2>1. LatestOf(d, j) /\ InstalledOf(d, j) /\ MarkedOf(d, j) /\ Newest(j)' = Newest(j)
    BY <1>2 DEF Inv, Items, Newest
  <2>2. LatestOf(d, j)'
    BY <1>2, <1>6, <2>1 DEF LatestOf, ScannedOf
  <2>3. MarkedOf(d, j)'
    BY <1>2, <1>6, <2>1 DEF MarkedOf
  <2>4. InstalledOf(d, j)'
    BY <1>2, <2>1 DEF InstalledOf, TopOf
  <2> QED
    BY <2>2, <2>3, <2>4 DEF Items
<1>10. ASSUME NEW j \in Keys, NEW i \in Slots PROVE VersionPast(j, i)' /\ VersionOf(j, i)'
  <2>1. VersionPast(j, i) /\ VersionOf(j, i)
    BY DEF Inv
  <2>2. VersionPast(j, i)'
    BY <1>2, <2>1 DEF VersionPast
  <2>3. \A d \in Cors : Touched(d, j, i)' <=> Touched(d, j, i)
    BY <1>2, Zenon DEF Touched, Updating, Changed
  <2>4. CASE j = k /\ i = s
    <3>1. Touched(c, j, i)'
      BY <1>1, <1>2, <2>3, <2>4 DEF Touched
    <3> QED
      BY <1>2, <2>1, <2>2, <3>1 DEF VersionOf
  <2>5. CASE ~(j = k /\ i = s)
    <3>1. SlotContents(j, i)' <=> SlotContents(j, i)
      BY <1>2, <1>4, <2>5, ContentsKept
    <3> QED
      BY <1>2, <2>1, <2>2, <2>3, <3>1 DEF VersionOf
  <2> QED
    BY <2>4, <2>5
<1>11. ASSUME NEW r \in served' PROVE ServedOf(r)'
  <2>1. ServedOf(r) /\ r[1] \in Keys
    BY <1>2 DEF Inv, TypeOK
  <2> QED
    BY <1>2, <1>6, <2>1 DEF ServedOf
<1> QED
  BY <1>5, <1>7, <1>8, <1>9, <1>10, <1>11 DEF Inv

\* The stamp of a new version replaces the oldest one and goes above all: it
\* comes next after the version that was newest, and after no other.
LEMMA OlderKept ==
  ASSUME Inv, NEW c \in Cors, NEW k \in Keys, Passed(c, k), k \notin stamped[c],
         NEW s \in Slots, s = slot[c][k], verbs' = verbs, data' = data,
         \A j \in Keys, i \in Slots : wts'[j][i] = IF j = k /\ i = s THEN ts[c] ELSE wts[j][i],
         NEW i \in Slots, i # s, ~(verbs /\ i = base[c][k]), SlotContents(k, i)
  PROVE  SlotContents(k, i)'
<1>1. PICK b \in Slots : b = base[c][k]
  BY DEF Inv, TypeOK
<1>2. PICK n \in Slots : n = Newest(k) /\ \A j \in Slots : wts[k][j] <= wts[k][n]
  BY Scans DEF Inv
<1>3. /\ wts[k][n] < ts[c] /\ wts[k][b] # 0
      /\ \A j \in Slots : wts[k][s] <= wts[k][j] /\ wts[k][j] <= wts[k][b]
  BY <1>1, <1>2 DEF Inv, Items, LatestOf, ScannedOf
<1>4. ts[c] \in Nat /\ \A j \in Slots : wts[k][j] \in Nat
  BY DEF Inv, TypeOK, Stamps
<1>5. \A j \in Slots : wts'[k][j] = IF j = s THEN ts[c] ELSE wts[k][j]
  OBVIOUS
<1>6. wts'[k][i] = wts[k][i] /\ data'[k][i] = data[k][i]
  BY <1>5
<1>7. CASE ~verbs \/ wts[k][i] = 0
  BY <1>6, <1>7 DEF SlotContents
<1>8. CASE verbs /\ wts[k][i] # 0
  <2>1. i # b /\ wts[k][i] < wts[k][b]
    <3>1. i # b
      BY <1>1, <1>8
    <3>2. wts[k][i] # wts[k][b]
      BY <1>8, <3>1 DEF Inv, VersionOf
    <3> QED
      BY <1>3, <1>4, <3>1, <3>2
  <2>2. Later(k, i) # {}
    BY <2>1, LaterExists DEF Inv
  <2>3. PICK j \in Later(k, i) : data[k][i] = wts[k][j]
    BY <1>8, <2>2 DEF SlotContents
  <2>4. /\ j \in Slots /\ wts[k][i] < wts[k][j]
        /\ \A l \in Slots : wts[k][i] < wts[k][l] => wts[k][j] <= wts[k][l]
    BY DEF Later
  <2>5. j # s
    BY <1>3, <1>4, <2>4
  <2>6. wts'[k][j] = wts[k][j] /\ wts[k][j] < ts[c]
    BY <1>2, <1>3, <1>4, <1>5, <2>4, <2>5
  <2>7. ASSUME NEW l \in Slots, wts'[k][i] < wts'[k][l] PROVE wts'[k][j] <= wts'[k][l]
    BY <1>4, <1>5, <1>6, <2>4, <2>6, <2>7
  <2>8. j \in Later(k, i)'
    BY <1>6, <2>4, <2>6, <2>7 DEF Later
  <2> QED
    BY <1>6, <1>8, <2>3, <2>6, <2>8 DEF SlotContents
<1> QED
  BY <1>7, <1>8

\* The new version goes above all the others, and only its writer holds the
\* record.
LEMMA UpdateStampInv ==
  ASSUME Inv, NEW c \in Cors, NEW k \in Keys, UpdateStamp(c, k), verbs' = verbs
  PROVE  Inv'
<1>1. /\ pc[c] = "upd" /\ k \in pend[c] /\ k \notin stamped[c]
      /\ wts' = [wts EXCEPT ![k][slot[c][k]] = ts[c]]
      /\ stamped' = [stamped EXCEPT ![c] = @ \cup {k}]
      /\ lock' = lock /\ rts' = rts /\ data' = data /\ clock' = clock /\ ts' = ts /\ pc' = pc
      /\ rset' = rset /\ wset' = wset /\ last' = last /\ slot' = slot /\ before' = before
      /\ buf' = buf /\ pend' = pend /\ base' = base /\ served' = served
  BY DEF UpdateStamp, txn, item
<1>2. TypeOK'
  <2>1. wts' \in [Keys -> [Slots -> Stamps]]
    BY <1>1 DEF Inv, TypeOK
  <2>2. stamped' \in [Cors -> SUBSET Keys]
    BY <1>1 DEF Inv, TypeOK
  <2> QED
    BY <1>1, <2>1, <2>2 DEF Inv, TypeOK
<1>3. OnlyOf(c) /\ stamped'[c] = stamped[c] \cup {k}
  BY <1>1 DEF OnlyOf, Inv, TypeOK
<1>4. PICK s \in Slots : s = slot[c][k]
  BY DEF Inv, TypeOK
<1>5. \A j \in Keys, i \in Slots :
        wts'[j][i] = IF j = k /\ i = s THEN ts[c] ELSE wts[j][i]
  BY <1>1, <1>4 DEF Inv, TypeOK
<1>6. \A j \in Keys : j # k => wts'[j] = wts[j]
  BY <1>1 DEF Inv, TypeOK
<1>7. \A d \in Cors, j \in Keys : (Holds(d, j)' <=> Holds(d, j)) /\ (Passed(d, j)' <=> Passed(d, j))
  BY <1>1 DEF Holds, Passed
<1>8. Passed(c, k) /\ Holds(c, k)
  BY <1>1, HoldFacts DEF Inv, Own, PhaseOf, Passed
<1>9. ASSUME NEW d \in Cors, d # c PROVE ~Passed(d, k) /\ ~Holds(d, k) /\ k \notin stamped[d]
  BY <1>8, <1>9, HoldFacts
<1>10. LockOK'
  BY <1>1, <1>7 DEF Inv, LockOK
<1>11. ASSUME NEW d \in Cors PROVE Own(d)'
  <2>1. PhaseOf(d) /\ StampOf(d)
    BY DEF Inv, Own
  <2>2. PhaseOf(d)'
    <3>1. CASE d = c
      BY <1>1, <1>3, <2>1, <3>1 DEF PhaseOf
    <3>2. CASE d # c
      <4>1. stamped'[d] = stamped[d]
        BY <1>3, <3>2 DEF OnlyOf
      <4> QED
        BY <1>1, <2>1, <4>1 DEF PhaseOf
    <3> QED
      BY <3>1, <3>2
  <2>3. StampOf(d)'
    BY <1>1, <2>1 DEF StampOf
  <2> QED
    BY <2>2, <2>3 DEF Own
<1>12. ASSUME NEW j \in Slots PROVE wts[k][j] < ts[c] /\ wts[k][j] # ts[c]
  <2>1. wts[k][Newest(k)] < ts[c]
    BY <1>1, <1>8 DEF Inv, Items, LatestOf
  <2>2. wts[k][j] <= wts[k][Newest(k)] /\ Newest(k) \in Slots
    BY Scans DEF Inv
  <2>3. wts[k][j] \in Nat /\ wts[k][Newest(k)] \in Nat /\ ts[c] \in Nat
    BY <2>2 DEF Inv, TypeOK, Stamps
  <2> QED
    BY <2>1, <2>2, <2>3
<1>17. TopOf(c, k)'
  <2>1. PICK b \in Slots : b = base[c][k]
    BY DEF Inv, TypeOK
  <2>2. wts[k][b] # 0 /\ \A j \in Slots : wts[k][j] <= wts[k][b]
    BY <1>1, <1>8, <2>1 DEF Inv, Items, LatestOf, ScannedOf
  <2>3. ts[c] # 0
    BY <1>8, HoldFacts
  <2>4. wts'[k][s] = ts[c] /\ wts'[k][b] # 0
    BY <1>5, <2>2, <2>3
  <2>5. ASSUME NEW j \in Slots, j # s PROVE wts'[k][j] < ts[c] /\ wts'[k][j] <= wts'[k][b]
    <3>1. wts'[k][j] = wts[k][j] /\ wts[k][j] < ts[c] /\ wts[k][j] <= wts[k][b]
      BY <1>5, <1>12, <2>2, <2>5
    <3>2. wts[k][j] \in Nat /\ wts[k][b] \in Nat /\ ts[c] \in Nat
      BY DEF Inv, TypeOK, Stamps
    <3> QED
      BY <1>5, <3>1, <3>2
  <2> QED
    BY <1>1, <1>4, <2>1, <2>4, <2>5 DEF TopOf
<1>13. ASSUME NEW d \in Cors, NEW j \in Keys PROVE Items(d, j)'
  <2>1. LatestOf(d, j) /\ InstalledOf(d, j) /\ MarkedOf(d, j)
    BY DEF Inv, Items
  <2>2. d # c => stamped'[d] = stamped[d]
    BY <1>3 DEF OnlyOf
  <2>3. LatestOf(d, j)'
    <3>1. CASE j = k
      BY <1>3, <1>7, <1>9, <3>1 DEF LatestOf
    <3>2. CASE j # k
      <4>1. Newest(j)' = Newest(j)
        BY <1>6, <3>2 DEF Newest
      <4> QED
        BY <1>1, <1>3, <1>6, <1>7, <2>1, <2>2, <3>2, <4>1 DEF LatestOf, ScannedOf
    <3> QED
      BY <3>1, <3>2
  <2>4. MarkedOf(d, j)'
    BY <1>1, <1>7, <2>1 DEF MarkedOf
  <2>5. ASSUME j \in stamped'[d] PROVE TopOf(d, j)'
    <3>1. CASE d = c /\ j = k
      BY <1>17, <3>1
    <3>2. CASE j # k
      <4>1. j \in stamped[d]
        BY <1>3, <2>2, <2>5, <3>2
      <4>2. TopOf(d, j)
        BY <2>1, <4>1 DEF InstalledOf
      <4> QED
        BY <1>1, <1>6, <3>2, <4>2 DEF TopOf
    <3>3. CASE d # c /\ j = k
      BY <1>9, <2>2, <2>5, <3>3
    <3> QED
      BY <3>1, <3>2, <3>3
  <2>6. InstalledOf(d, j)'
    BY <2>5 DEF InstalledOf
  <2> QED
    BY <2>3, <2>4, <2>6 DEF Items
<1>14. ASSUME NEW j \in Keys, NEW i \in Slots PROVE VersionPast(j, i)'
  <2>1. VersionPast(j, i)
    BY DEF Inv
  <2>2. CASE j = k /\ i = s
    <3>1. PICK m \in Nat : m <= clock[c] /\ ts[c] = Stamp(m, c)
      <4>1. StampOf(c)
        BY DEF Inv, Own
      <4> QED
        BY <1>1, <4>1 DEF StampOf
    <3>2. ASSUME NEW d \in Cors, NEW n \in Nat, ts[c] = Stamp(n, d) PROVE n <= clock[d]
      BY <3>1, <3>2, StampUnique
    <3>3. ASSUME NEW d \in Cors, pc[d] \notin {"idle", "upd"} PROVE ts[c] # ts[d]
      BY <1>1, <3>3, StampsDiffer
    <3>4. wts'[j][i] = ts[c]
      BY <1>5, <2>2
    <3> QED
      BY <1>1, <3>2, <3>3, <3>4 DEF VersionPast
  <2>3. CASE ~(j = k /\ i = s)
    <3>1. wts'[j][i] = wts[j][i]
      BY <1>5, <2>3
    <3> QED
      BY <1>1, <2>1, <3>1 DEF VersionPast
  <2> QED
    BY <2>2, <2>3
<1>15. ASSUME NEW j \in Keys, NEW i \in Slots PROVE VersionOf(j, i)'
  <2>1. VersionOf(j, i)
    BY DEF Inv
  <2>2. SlotContents(j, i)' \/ \E d \in Cors : Touched(d, j, i)'
    <3>1. ASSUME NEW d \in Cors, Touched(d, j, i) PROVE Touched(d, j, i)'
      <4>1. \A l \in Keys : l \in stamped[d] => l \in stamped'[d]
        BY <1>3 DEF OnlyOf
      <4>2. Changed(d, j)' = Changed(d, j)
        BY <1>1, Zenon DEF Changed
      <4> QED
        BY <1>1, <3>1, <4>1, <4>2 DEF Touched, Updating
    <3>2. CASE SlotContents(j, i) /\ j # k
      BY <1>1, <1>6, <3>2, ContentsKept
    <3>3. CASE j = k /\ (i = s \/ (verbs /\ i = base[c][k]))
      <4>1. Updating(c, k)' /\ i \in Changed(c, k)'
        BY <1>1, <1>3, <1>4, <3>3 DEF Updating, Changed
      <4> QED
        BY <3>3, <4>1 DEF Touched
    <3>4. CASE SlotContents(j, i) /\ j = k /\ i # s /\ ~(verbs /\ i = base[c][k])
      BY <1>1, <1>4, <1>5, <1>8, <3>4, OlderKept
    <3> QED
      BY <2>1, <3>1, <3>2, <3>3, <3>4 DEF VersionOf
  <2>3. ASSUME NEW l \in Slots, wts'[j][i] = wts'[j][l] PROVE i = l \/ wts'[j][i] = 0
    BY <1>5, <1>12, <2>1, <2>3 DEF VersionOf
  <2>4. \E l \in Slots : wts'[j][l] # 0
    <3>1. PICK l \in Slots : wts[j][l] # 0
      BY <2>1 DEF VersionOf
    <3>2. ts[c] # 0
      BY <1>8, HoldFacts
    <3> QED
      BY <1>5, <3>1, <3>2
  <2> QED
    BY <2>2, <2>3, <2>4 DEF VersionOf
<1>16. ASSUME NEW r \in served' PROVE ServedOf(r)'
  <2>1. ServedOf(r) /\ r[1] \in Keys
    BY <1>1 DEF Inv, TypeOK
  <2>2. ASSUME ~verbs, NEW i \in Slots PROVE ~(r[2] < wts'[r[1]][i] /\ wts'[r[1]][i] < r[3])
    <3>1. CASE r[1] = k /\ i = s
      BY <1>5, <1>8, <2>1, <2>2, <3>1 DEF ServedOf
    <3>2. CASE ~(r[1] = k /\ i = s)
      BY <1>5, <2>1, <2>2, <3>2 DEF ServedOf
    <3> QED
      BY <3>1, <3>2
  <2> QED
    BY <1>1, <1>7, <2>1, <2>2 DEF ServedOf
<1> QED
  BY <1>2, <1>10, <1>11, <1>13, <1>14, <1>15, <1>16 DEF Inv
-----------------------------------------------------------------------------
(* Invariance                                                              *)
-----------------------------------------------------------------------------
LEMMA InvInit ==
  ASSUME Init PROVE Inv
<1>1. 0 \in Slots /\ Slots \subseteq Nat
  BY Constants DEF Slots
<1>2. 0 \in Stamps /\ 1 \in Stamps
  BY ClockBound DEF Stamps
<1>3. TypeOK
  <2>1. wts \in [Keys -> [Slots -> Stamps]]
    BY <1>2 DEF Init
  <2>2. clock \in [Cors -> 0 .. MaxClock]
    BY ClockBound DEF Init
  <2>3. /\ slot \in [Cors -> [Keys -> Slots]] /\ base \in [Cors -> [Keys -> Slots]]
        /\ buf \in [Cors -> [Keys -> Stamps \cup Slots]]
    BY <1>1, <1>2 DEF Init
  <2>4. verbs \in BOOLEAN
    BY Constants DEF Init
  <2>5. /\ lock \in [Keys -> Stamps] /\ rts \in [Keys -> Stamps] /\ ts \in [Cors -> Stamps]
        /\ before \in [Cors -> Stamps]
    BY <1>2 DEF Init
  <2>6. served \subseteq Keys \X Stamps \X Stamps
    BY DEF Init
  <2> QED
    BY <2>1, <2>2, <2>3, <2>4, <2>5, <2>6 DEF Init, TypeOK
<1>4. \A c \in Cors : /\ pc[c] = "idle" /\ wset[c] = {} /\ last[c] = {} /\ pend[c] = {}
                      /\ stamped[c] = {} /\ clock[c] = 0
  BY DEF Init
<1>5. LockOK
  BY <1>4 DEF Init, LockOK, Holds
<1>6. \A c \in Cors : Own(c)
  BY <1>4 DEF Own, PhaseOf, StampOf, Reads, Writes
<1>7. \A c \in Cors, k \in Keys : Items(c, k)
  BY <1>4 DEF Items, LatestOf, InstalledOf, MarkedOf, Passed
<1>8. ASSUME NEW k \in Keys, NEW i \in Slots PROVE VersionPast(k, i) /\ VersionOf(k, i)
  <2>1. \A j \in Slots : wts[k][j] = (IF j = 0 THEN 1 ELSE 0) /\ data[k][j] = wts[k][j]
    BY DEF Init
  <2>2. ASSUME NEW c \in Cors, NEW n \in Nat, wts[k][i] = Stamp(n, c) PROVE n <= clock[c]
    <3>1. PICK a \in 1 .. 1023 : a = Id[c]
      BY Constants
    <3>2. n * 1024 + a <= 1
      BY <2>1, <2>2, <3>1 DEF Stamp
    <3>3. n = 0
      BY <3>2
    <3> QED
      BY <1>4, <3>3
  <2>3. VersionPast(k, i)
    BY <1>4, <2>2 DEF VersionPast
  <2>4. \A j \in Slots : wts[k][i] = wts[k][j] => i = j \/ wts[k][i] = 0
    BY <1>1, <2>1
  <2>5. Later(k, i) = {} \/ wts[k][i] = 0
    <3>1. ASSUME wts[k][i] # 0, NEW j \in Slots, wts[k][i] < wts[k][j] PROVE FALSE
      <4>1. wts[k][i] = 1
        BY <2>1, <3>1
      <4> QED
        BY <2>1, <3>1, <4>1
    <3> QED
      BY <3>1 DEF Later
  <2>6. SlotContents(k, i)
    BY <2>1, <2>5 DEF SlotContents
  <2>7. wts[k][0] # 0
    BY <1>1, <2>1
  <2> QED
    BY <1>1, <2>3, <2>4, <2>6, <2>7 DEF VersionOf
<1>9. \A r \in served : ServedOf(r)
  BY DEF Init
<1> QED
  BY <1>3, <1>5, <1>6, <1>7, <1>8, <1>9 DEF Inv

LEMMA InvNext ==
  ASSUME Inv, Next PROVE Inv'
<1>1. verbs' = verbs
  BY DEF Next
<1>2. PICK c \in Cors : Begin(c) \/ Step(c)
  BY DEF Next
<1>3. CASE Begin(c)
  BY <1>1, <1>3, BeginInv
<1>4. ASSUME NEW k \in Keys, WriteRecheck(c, k) PROVE Inv'
  BY <1>1, <1>4, RefusedUnderLock, GrantedUnderLock
<1>5. CASE Commit(c) \/ End(c)
  BY <1>1, <1>5, CommitInv, EndInv
<1>6. ASSUME NEW k \in Keys,
             \/ Read(c, k) \/ ReadCheck(c, k) \/ ReadPick(c, k) \/ ReadMark(c, k)
             \/ ReadNote(c, k) \/ ReadCopy(c, k) \/ ReadRecheck(c, k) \/ ReadDone(c, k)
      PROVE  Inv'
  BY <1>1, <1>6, ReadInv, ReadCheckInv, ReadPickInv, ReadMarkInv, ReadNoteInv, ReadCopyInv,
     ReadRecheckInv, ReadDoneInv
<1>7. ASSUME NEW k \in Keys, Write(c, k) \/ WriteCheck(c, k) \/ WriteLock(c, k) PROVE Inv'
  BY <1>1, <1>7, WriteInv, WriteCheckInv, WriteLockInv
<1>8. ASSUME NEW k \in Keys,
             ReleaseItem(c, k) \/ UpdateStamp(c, k) \/ UpdateData(c, k) \/ UpdateUnlock(c, k)
      PROVE  Inv'
  BY <1>1, <1>8, ReleaseItemInv, UpdateStampInv, UpdateDataInv, UpdateUnlockInv
<1> QED
  BY <1>2, <1>3, <1>4, <1>5, <1>6, <1>7, <1>8 DEF Step

LEMMA InvStutter ==
  ASSUME Inv, UNCHANGED vars PROVE Inv'
<1>1. /\ verbs' = verbs /\ lock' = lock /\ rts' = rts /\ wts' = wts /\ data' = data
      /\ clock' = clock /\ ts' = ts /\ rset' = rset /\ wset' = wset /\ last' = last /\ pc' = pc
      /\ slot' = slot /\ before' = before /\ buf' = buf
      /\ pend' = pend /\ stamped' = stamped /\ base' = base /\ served' = served
  BY DEF vars, header, txn, item, batch
<1>2. TypeOK' /\ LockOK'
  BY <1>1 DEF Inv, TypeOK, LockOK, Holds
<1>3. ASSUME NEW c \in Cors PROVE Own(c)'
  BY <1>1 DEF Inv, Own, PhaseOf, StampOf
<1>4. ASSUME NEW c \in Cors, NEW k \in Keys PROVE Items(c, k)'
  <2>1. Items(c, k)
    BY DEF Inv
  <2> QED
    BY <1>1, <2>1, Zenon
       DEF Items, LatestOf, ScannedOf, InstalledOf, TopOf, MarkedOf, Passed, Newest
<1>5. ASSUME NEW k \in Keys, NEW i \in Slots PROVE VersionPast(k, i)' /\ VersionOf(k, i)'
  <2>1. VersionPast(k, i) /\ VersionOf(k, i)
    BY DEF Inv
  <2> QED
    BY <1>1, <2>1, Zenon
       DEF VersionPast, VersionOf, SlotContents, Later, Touched, Updating, Changed
<1>6. ASSUME NEW r \in served' PROVE ServedOf(r)'
  <2>1. ServedOf(r)
    BY <1>1 DEF Inv
  <2> QED
    BY <1>1, <2>1 DEF ServedOf, Passed
<1> QED
  BY <1>2, <1>3, <1>4, <1>5, <1>6 DEF Inv

\* The inductive invariant holds in every state of every behaviour.
THEOREM Invariance == Spec => []Inv
<1>1. Init => Inv
  BY InvInit
<1>2. Inv /\ [Next]_vars => Inv'
  BY InvNext, InvStutter
<1> QED
  BY <1>1, <1>2, PTL DEF Spec
-----------------------------------------------------------------------------
(* What follows                                                            *)
-----------------------------------------------------------------------------
\* Every variable keeps its type: the clocks stay within their bound though a
\* refusal moves a clock up to the one behind the stamp that refused
\* (LOCK_UPDATE_TS), and the scans of check_read and check_write find a slot.
THEOREM TypeCorrect == Spec => []TypeOK
<1>1. Inv => TypeOK
  BY DEF Inv
<1> QED
  BY <1>1, Invariance, PTL

LEMMA HeldIs ==
  ASSUME Inv, NEW c \in Cors, NEW k \in Keys
  PROVE  k \in Held(c) <=> Holds(c, k)
<1>1. /\ pc[c] \in {"idle", "exec", "rcheck", "rpick", "rmark", "rnote",
                    "rcopy", "rrecheck", "rdone", "wcheck", "wlock",
                    "wrecheck", "rel", "upd"}
      /\ pend[c] \subseteq wset[c]
  BY DEF Inv, TypeOK, Own, PhaseOf
<1>2. CASE pc[c] = "idle"
  <2>1. Held(c) = {}
    BY <1>2 DEF Held
  <2> QED
    BY <1>2, <2>1 DEF Holds, Reads
<1>3. CASE pc[c] \in {"wcheck", "wlock"}
  <2>1. Held(c) = wset[c] \ last[c]
    BY <1>3 DEF Held
  <2> QED
    BY <1>3, <2>1 DEF Holds, Reads
<1>4. CASE pc[c] \in {"rel", "upd"}
  <2>1. Held(c) = pend[c]
    BY <1>4 DEF Held
  <2> QED
    BY <1>1, <1>4, <2>1 DEF Holds, Reads
<1>5. CASE pc[c] \in Reads \cup {"exec", "wrecheck"}
  <2>1. Held(c) = wset[c]
    BY <1>5 DEF Held, Reads
  <2> QED
    BY <1>5, <2>1 DEF Holds
<1> QED
  BY <1>1, <1>2, <1>3, <1>4, <1>5 DEF Reads

\* A lock word is non-zero exactly while one transaction holds the record and
\* is then its stamp: the assertions of release_rpc_handler and
\* update_rpc_handler never fail, and no failed call leaves a record locked.
THEOREM LocksAreOwned == Spec => []LockOwnership
<1>1. Inv => LockOwnership
  <2> SUFFICES ASSUME Inv, NEW k \in Keys
               PROVE  /\ lock[k] # 0 => \E c \in Cors : k \in Held(c)
                      /\ \A c \in Cors : k \in Held(c) => lock[k] = ts[c]
                      /\ \A c, d \in Cors : k \in Held(c) \cap Held(d) => c = d
    BY DEF LockOwnership
  <2>1. \A c \in Cors : k \in Held(c) <=> Holds(c, k)
    BY HeldIs
  <2>2. lock[k] # 0 => \E c \in Cors : Holds(c, k)
    BY DEF Inv, LockOK
  <2>3. \A c, d \in Cors : Holds(c, k) => lock[k] = ts[c] /\ (Holds(d, k) => c = d)
    BY HoldFacts
  <2> QED
    BY <2>1, <2>2, <2>3
<1> QED
  BY <1>1, Invariance, PTL

\* In the RPC build nobody installs a version between the one a read was given
\* and the reader's stamp, however read_rpc_handler, which raises rts, and a
\* writer, which locks and checks rts, cross each other.
THEOREM ReadsAreStable == Spec => []ServedReadsStable
<1>1. Inv => ServedReadsStable
  BY DEF Inv, ServedOf, ServedReadsStable, ReadsStable
<1> QED
  BY <1>1, Invariance, PTL

\* A transaction that writes a record works on its newest version until it
\* installs its own above it: update_rpc_handler loses no update.
THEOREM WritersSeeLatest == Spec => []LockedLatest
<1>1. Inv => LockedLatest
  <2> SUFFICES ASSUME Inv, NEW c \in Cors, pc[c] \notin {"idle", "rel"},
                      NEW k \in (IF pc[c] = "upd" THEN pend[c] \ stamped[c] ELSE Granted(c))
               PROVE  buf[c][k] = wts[k][Newest(k)] /\ wts[k][Newest(k)] < ts[c]
    BY DEF LockedLatest
  <2>1. /\ pend[c] \subseteq wset[c] /\ wset[c] \subseteq Keys
        /\ pc[c] # "upd" => stamped[c] = {}
    BY DEF Inv, TypeOK, Own, PhaseOf
  <2>2. k \in Keys /\ Passed(c, k) /\ k \notin stamped[c]
    BY <2>1 DEF Passed, Granted
  <2>3. LatestOf(c, k)
    BY <2>2 DEF Inv, Items
  <2> QED
    BY <2>2, <2>3 DEF LatestOf
<1> QED
  BY <1>1, Invariance, PTL

\* Every slot holds the contents SlotContents says, except those that the holder
\* of the lock is writing, and no two slots hold one version: update_rpc_handler
\* changes nothing but the slot it overwrites, and try_update_rdma, which writes
\* the whole block, leaves the newest version right for the next writer.
THEOREM VersionsAreIntact == Spec => []VersionsIntact
<1>1. Inv => VersionsIntact
  <2> SUFFICES ASSUME Inv, NEW k \in Keys, NEW i \in Slots
               PROVE  /\ \/ SlotContents(k, i)
                         \/ \E c \in Cors : lock[k] = ts[c] /\ Updating(c, k) /\ i \in Changed(c, k)
                      /\ \A j \in Slots : wts[k][i] = wts[k][j] => i = j \/ wts[k][i] = 0
    BY DEF VersionsIntact
  <2>1. VersionOf(k, i)
    BY DEF Inv
  <2>2. \A c \in Cors : Touched(c, k, i) => lock[k] = ts[c] /\ Updating(c, k) /\ i \in Changed(c, k)
    BY HoldFacts DEF Touched
  <2> QED
    BY <2>1, <2>2 DEF VersionOf
<1> QED
  BY <1>1, Invariance, PTL
=============================================================================
