-------------------------- MODULE BPlusTreeProofs --------------------------
(***************************************************************************)
(* Theorems about BPlusTree for every set of keys, all node sizes and any  *)
(* number of inserts.                                                      *)
(***************************************************************************)
EXTENDS BPlusTree, FiniteSetTheorems, WellFoundedInduction, SequenceTheorems, TLAPS

-----------------------------------------------------------------------------
(* Numbers and sequences                                                   *)
-----------------------------------------------------------------------------
LEMMA ConstantFacts ==
  /\ \A x \in Keys : x \in Nat /\ x \in Int
  /\ M \in Nat /\ (M + 1) \div 2 \in Nat /\ 1 <= (M + 1) \div 2 /\ (M + 1) \div 2 + 2 <= M
  /\ NENT \in Nat /\ threshold \in Nat /\ 2 <= threshold /\ threshold < NENT
  /\ MaxInserts \in Nat /\ Asked \subseteq Keys /\ Loads \subseteq Seq(Keys)
<1>1. \A n \in Nat : n - (n + 1) \div 2 >= 2 =>
        (n + 1) \div 2 \in Nat /\ 1 <= (n + 1) \div 2 /\ (n + 1) \div 2 + 2 <= n
  OBVIOUS
<1>2. \A n \in Nat : n >= 3 =>
        (n + 1) \div 2 \in Nat /\ 2 <= (n + 1) \div 2 /\ (n + 1) \div 2 < n
  OBVIOUS
<1> QED
  BY <1>1, <1>2, TreeAssumption DEF threshold

LEMMA LeastNumber ==
  ASSUME NEW T, T \subseteq Nat, T # {}
  PROVE  \E x \in T : \A y \in T : x <= y
<1> DEFINE R == OpToRel(<, Nat)
<1>1. IsWellFoundedOn(R, Nat)
  BY NatLessThanWellFounded
<1>2. \A x, y \in Nat : << y, x >> \in R <=> y < x
  BY DEF OpToRel
<1> HIDE DEF R
<1>3. PICK x \in T : \A y \in T : ~(<< y, x >> \in R)
  BY <1>1, WFMin
<1>4. ASSUME NEW y \in T PROVE x <= y
  <2>1. ~(y < x)
    BY <1>2, <1>3
  <2> QED
    BY <2>1
<1> QED
  BY <1>4

\* v is the first h elements of s, or the ones behind them.
IsHead(s, h, v) == Len(v) = h /\ \A i \in 1 .. h : v[i] = s[i]
IsTail(s, h, v) == Len(v) = Len(s) - h /\ \A i \in 1 .. Len(s) - h : v[i] = s[h + i]

LEMMA TakeIs ==
  ASSUME NEW S, NEW s \in Seq(S), NEW h \in Nat, h <= Len(s)
  PROVE  SubSeq(s, 1, h) \in Seq(S) /\ IsHead(s, h, SubSeq(s, 1, h))
BY DEF IsHead

LEMMA DropIs ==
  ASSUME NEW S, NEW s \in Seq(S), NEW h \in Nat, h <= Len(s)
  PROVE  SubSeq(s, h + 1, Len(s)) \in Seq(S) /\ IsTail(s, h, SubSeq(s, h + 1, Len(s)))
BY DEF IsTail

\* v is s with e behind its first k elements.
Inserted(s, k, e, v) ==
  /\ Len(v) = Len(s) + 1
  /\ \A i \in 1 .. k : v[i] = s[i]
  /\ v[k + 1] = e
  /\ \A i \in k + 1 .. Len(s) : v[i + 1] = s[i]

LEMMA InsertAtIs ==
  ASSUME NEW S, NEW s \in Seq(S), NEW k \in Nat, k <= Len(s), NEW e \in S
  PROVE  InsertAt(s, k + 1, e) \in Seq(S) /\ Inserted(s, k, e, InsertAt(s, k + 1, e))
<1>1. PICK a : a = SubSeq(s, 1, k)
  OBVIOUS
<1>2. PICK b : b = SubSeq(s, k + 1, Len(s))
  OBVIOUS
<1>3. a \in Seq(S) /\ Len(a) = k /\ \A i \in 1 .. k : a[i] = s[i]
  BY <1>1
<1>4. b \in Seq(S) /\ Len(b) = Len(s) - k /\ \A i \in 1 .. Len(s) - k : b[i] = s[k + i]
  BY <1>2
<1>5. PICK u : u = (a \o << e >>) \o b
  OBVIOUS
<1>6. (k + 1) - 1 = k
  OBVIOUS
<1>7. u = InsertAt(s, k + 1, e)
  <2>1. InsertAt(s, k + 1, e) = SubSeq(s, 1, (k + 1) - 1) \o << e >> \o SubSeq(s, k + 1, Len(s))
    BY Zenon DEF InsertAt
  <2> QED
    BY <1>1, <1>2, <1>5, <1>6, <2>1
<1>8. a \in Seq(S) /\ b \in Seq(S)
  BY <1>3, <1>4
<1>9. /\ u \in Seq(S) /\ Len(u) = Len(a) + Len(b) + 1
      /\ \A i \in 1 .. Len(a) : u[i] = a[i]
      /\ u[Len(a) + 1] = e
      /\ \A i \in 1 .. Len(b) : u[Len(a) + 1 + i] = b[i]
  BY <1>5, <1>8, SMT
<1>10. /\ u \in Seq(S) /\ Len(u) = Len(s) + 1
       /\ \A i \in 1 .. k : u[i] = s[i]
       /\ u[k + 1] = e
       /\ \A i \in 1 .. Len(s) - k : u[k + 1 + i] = s[k + i]
  BY <1>3, <1>4, <1>9
<1>11. ASSUME NEW i \in k + 1 .. Len(s) PROVE u[i + 1] = s[i]
  <2>1. i - k \in 1 .. Len(s) - k /\ i = k + (i - k) /\ k + 1 + (i - k) = i + 1
    OBVIOUS
  <2> QED
    BY <1>10, <2>1
<1>12. u \in Seq(S) /\ Inserted(s, k, e, u)
  BY <1>10, <1>11 DEF Inserted
<1> QED
  BY <1>7, <1>12
-----------------------------------------------------------------------------
(* Where a key belongs among ascending keys                                *)
-----------------------------------------------------------------------------
\* The keys of a node ascend.
Ascending(s) == \A i, j \in 1 .. Len(s) : i < j => s[i] < s[j]

\* x belongs behind the first k of the keys.
Slot(s, x, k) == (k > 0 => s[k] <= x) /\ (k < Len(s) => x < s[k + 1])

LEMMA SlotUnique ==
  ASSUME NEW s \in Seq(Int), Ascending(s), NEW x \in Int,
         NEW j \in 0 .. Len(s), NEW k \in 0 .. Len(s), Slot(s, x, j), Slot(s, x, k)
  PROVE  j = k
<1>1. ASSUME NEW a \in 0 .. Len(s), NEW b \in 0 .. Len(s), Slot(s, x, a), Slot(s, x, b), a < b
      PROVE  FALSE
  <2>1. a + 1 \in 1 .. Len(s) /\ b \in 1 .. Len(s) /\ s[a + 1] \in Int /\ s[b] \in Int
    BY <1>1
  <2>2. x < s[a + 1] /\ s[b] <= x
    BY <1>1, <2>1 DEF Slot
  <2>3. a + 1 = b \/ s[a + 1] < s[b]
    BY <1>1, <2>1 DEF Ascending
  <2> QED
    BY <2>1, <2>2, <2>3
<1> QED
  BY <1>1

\* The scan of an inner node finds the slot of the key.
LEMMA UpToIs ==
  ASSUME NEW s \in Seq(Int), NEW x \in Int
  PROVE  UpTo(s, x) \in 0 .. Len(s) /\ Slot(s, x, UpTo(s, x))
<1> DEFINE T == { k \in 0 .. Len(s) : k = Len(s) \/ ~(s[k + 1] <= x) }
<1>1. T \subseteq Nat /\ Len(s) \in T
  OBVIOUS
<1>2. PICK k \in T : \A y \in T : k <= y
  <2> HIDE DEF T
  <2> QED
    BY <1>1, LeastNumber, Zenon
<1>3. k \in 0 .. Len(s) /\ (k < Len(s) => ~(s[k + 1] <= x))
  BY <1>2
<1>4. ASSUME NEW i \in 1 .. k PROVE s[i] <= x
  <2>1. i - 1 \in 0 .. Len(s) /\ ~(k <= i - 1) /\ (i - 1) + 1 = i /\ i - 1 # Len(s)
    BY <1>3
  <2>2. ~(i - 1 \in T)
    BY <1>2, <2>1, Zenon
  <2> QED
    BY <2>1, <2>2
<1>5. \E j \in 0 .. Len(s) :
        /\ \A i \in 1 .. j : s[i] <= x
        /\ j < Len(s) => ~(s[j + 1] <= x)
  BY <1>3, <1>4
<1>6. PICK u : u = UpTo(s, x)
  OBVIOUS
<1>7. /\ u \in 0 .. Len(s)
      /\ \A i \in 1 .. u : s[i] <= x
      /\ u < Len(s) => ~(s[u + 1] <= x)
  BY <1>5, <1>6, Zenon DEF UpTo
<1>8. (u > 0 => s[u] <= x) /\ (u < Len(s) => x < s[u + 1])
  <2>1. u > 0 => u \in 1 .. u
    BY <1>7
  <2>2. u < Len(s) => s[u + 1] \in Int
    BY <1>7
  <2> QED
    BY <1>7, <2>1, <2>2
<1> QED
  BY <1>6, <1>7, <1>8 DEF Slot

\* The scan of a leaf stops at the first key that is not below.
LEMMA BelowIs ==
  ASSUME NEW s \in Seq(Int), NEW x \in Int
  PROVE  /\ Below(s, x) \in 0 .. Len(s)
         /\ \A i \in 1 .. Below(s, x) : s[i] < x
         /\ Below(s, x) < Len(s) => x <= s[Below(s, x) + 1]
<1> DEFINE T == { k \in 0 .. Len(s) : k = Len(s) \/ ~(s[k + 1] < x) }
<1>1. T \subseteq Nat /\ Len(s) \in T
  OBVIOUS
<1>2. PICK k \in T : \A y \in T : k <= y
  <2> HIDE DEF T
  <2> QED
    BY <1>1, LeastNumber, Zenon
<1>3. k \in 0 .. Len(s) /\ (k < Len(s) => ~(s[k + 1] < x))
  BY <1>2
<1>4. ASSUME NEW i \in 1 .. k PROVE s[i] < x
  <2>1. i - 1 \in 0 .. Len(s) /\ ~(k <= i - 1) /\ (i - 1) + 1 = i /\ i - 1 # Len(s)
    BY <1>3
  <2>2. ~(i - 1 \in T)
    BY <1>2, <2>1, Zenon
  <2> QED
    BY <2>1, <2>2
<1>5. \E j \in 0 .. Len(s) :
        /\ \A i \in 1 .. j : s[i] < x
        /\ j < Len(s) => ~(s[j + 1] < x)
  BY <1>3, <1>4
<1>6. PICK u : u = Below(s, x)
  OBVIOUS
<1>7. /\ u \in 0 .. Len(s)
      /\ \A i \in 1 .. u : s[i] < x
      /\ u < Len(s) => ~(s[u + 1] < x)
  BY <1>5, <1>6, Zenon DEF Below
<1>8. u < Len(s) => x <= s[u + 1]
  <2>1. u < Len(s) => s[u + 1] \in Int
    BY <1>7
  <2> QED
    BY <1>7, <2>1
<1> QED
  BY <1>6, <1>7, <1>8

LEMMA SlotExists ==
  ASSUME NEW s \in Seq(Int), NEW x \in Int
  PROVE  \E k \in 0 .. Len(s) : Slot(s, x, k)
BY UpToIs

\* Where the keys belong once up is inserted behind the first k keys.
LEMMA SlotInsert ==
  ASSUME NEW s \in Seq(Int), NEW v \in Seq(Int), NEW up \in Int, NEW k \in 0 .. Len(s),
         Slot(s, up, k), k > 0 => s[k] < up, Inserted(s, k, up, v),
         NEW x \in Int, NEW i \in 0 .. Len(s) + 1
  PROVE  Slot(v, x, i) <=>
           \/ i < k /\ Slot(s, x, i)
           \/ i = k /\ Slot(s, x, k) /\ x < up
           \/ i = k + 1 /\ Slot(s, x, k) /\ up <= x
           \/ i > k + 1 /\ Slot(s, x, i - 1)
<1>0. Len(v) = Len(s) + 1
  BY DEF Inserted
<1>1. CASE i < k
  <2>1. i + 1 \in 1 .. k /\ i < Len(s) /\ (i > 0 => i \in 1 .. k)
    BY <1>1
  <2>2. v[i + 1] = s[i + 1] /\ (i > 0 => v[i] = s[i])
    BY <2>1 DEF Inserted
  <2>3. i < Len(v)
    BY <1>0, <2>1
  <2>4. Slot(v, x, i) <=> Slot(s, x, i)
    BY <2>1, <2>2, <2>3, Zenon DEF Slot
  <2> QED
    BY <1>1, <2>4
<1>2. CASE i = k
  <2>1. v[k + 1] = up /\ (k > 0 => v[k] = s[k])
    BY <1>2 DEF Inserted
  <2>2. k < Len(s) => s[k + 1] \in Int
    OBVIOUS
  <2>3. Slot(v, x, k) <=> Slot(s, x, k) /\ x < up
    BY <1>0, <2>1, <2>2, SMTT(20) DEF Slot
  <2> QED
    BY <1>2, <2>3
<1>3. CASE i = k + 1
  <2>0. k < Len(s) => i \in k + 1 .. Len(s)
    BY <1>3
  <2>1. v[i] = up /\ (k < Len(s) => v[i + 1] = s[i])
    BY <1>3, <2>0, Zenon DEF Inserted
  <2>2. (k > 0 => s[k] \in Int) /\ (i < Len(v) <=> k < Len(s)) /\ i > 0
    BY <1>0, <1>3
  <2>3. Slot(v, x, i) <=> up <= x /\ (k < Len(s) => x < s[k + 1])
    BY <1>3, <2>1, <2>2 DEF Slot
  <2>4. Slot(s, x, k) /\ up <= x <=> up <= x /\ (k < Len(s) => x < s[k + 1])
    BY <2>2 DEF Slot
  <2> QED
    BY <1>3, <2>3, <2>4
<1>4. CASE i > k + 1
  <2>1. PICK j \in k + 1 .. Len(s) : j = i - 1
    BY <1>4
  <2>2. i = j + 1 /\ i > 0 /\ j > 0 /\ (i < Len(v) <=> j < Len(s))
        /\ (j < Len(s) => i \in k + 1 .. Len(s))
    BY <1>0, <1>4, <2>1
  <2>3. v[i] = s[j] /\ (j < Len(s) => v[i + 1] = s[j + 1])
    BY <2>2 DEF Inserted
  <2>4. Slot(v, x, i) <=> Slot(s, x, j)
    BY <2>2, <2>3 DEF Slot
  <2> QED
    BY <1>4, <2>1, <2>4
<1> QED
  BY <1>1, <1>2, <1>3, <1>4

LEMMA AscendingInsert ==
  ASSUME NEW s \in Seq(Int), NEW v \in Seq(Int), NEW up \in Int, NEW k \in 0 .. Len(s), Ascending(s),
         Slot(s, up, k), k > 0 => s[k] < up, Inserted(s, k, up, v)
  PROVE  Ascending(v)
<1>0. Len(v) = Len(s) + 1
  BY DEF Inserted
<1>1. ASSUME NEW i \in 1 .. k PROVE s[i] < up
  <2>1. k \in 1 .. Len(s) /\ i \in 1 .. Len(s) /\ s[k] \in Int /\ s[i] \in Int
    OBVIOUS
  <2>2. i = k \/ s[i] < s[k]
    BY <2>1 DEF Ascending
  <2> QED
    BY <2>1, <2>2
<1>2. ASSUME NEW i \in k + 1 .. Len(s) PROVE up < s[i]
  <2>1. k + 1 \in 1 .. Len(s) /\ i \in 1 .. Len(s) /\ s[k + 1] \in Int /\ s[i] \in Int
    OBVIOUS
  <2>2. i = k + 1 \/ s[k + 1] < s[i]
    BY <2>1 DEF Ascending
  <2> QED
    BY <2>1, <2>2 DEF Slot
<1>3. ASSUME NEW i \in 1 .. Len(s) + 1, NEW j \in 1 .. Len(s) + 1, i < j PROVE v[i] < v[j]
  <2>1. CASE j <= k
    <3>1. i \in 1 .. k /\ j \in 1 .. k /\ i \in 1 .. Len(s) /\ j \in 1 .. Len(s)
      BY <1>3, <2>1
    <3>2. v[i] = s[i] /\ v[j] = s[j]
      BY <3>1 DEF Inserted
    <3> QED
      BY <1>3, <3>1, <3>2 DEF Ascending
  <2>2. CASE j = k + 1
    <3>1. i \in 1 .. k
      BY <1>3, <2>2
    <3>2. v[i] = s[i] /\ v[j] = up
      BY <2>2, <3>1 DEF Inserted
    <3> QED
      BY <1>1, <3>1, <3>2
  <2>3. CASE j > k + 1
    <3>1. j - 1 \in k + 1 .. Len(s) /\ j - 1 \in 1 .. Len(s) /\ (j - 1) + 1 = j
      BY <2>3
    <3>2. v[j] = s[j - 1]
      BY <3>1 DEF Inserted
    <3>3. CASE i <= k
      <4>1. i \in 1 .. k /\ i \in 1 .. Len(s) /\ i < j - 1
        BY <2>3, <3>3
      <4>2. v[i] = s[i]
        BY <4>1 DEF Inserted
      <4> QED
        BY <3>1, <3>2, <4>1, <4>2 DEF Ascending
    <3>4. CASE i = k + 1
      <4>1. v[i] = up
        BY <3>4 DEF Inserted
      <4> QED
        BY <1>2, <3>1, <3>2, <4>1
    <3>5. CASE i > k + 1
      <4>1. i - 1 \in k + 1 .. Len(s) /\ i - 1 \in 1 .. Len(s) /\ i - 1 < j - 1 /\ (i - 1) + 1 = i
        BY <1>3, <3>5
      <4>2. v[i] = s[i - 1]
        BY <4>1 DEF Inserted
      <4> QED
        BY <3>1, <3>2, <4>1, <4>2 DEF Ascending
    <3> QED
      BY <3>3, <3>4, <3>5
  <2> QED
    BY <2>1, <2>2, <2>3
<1> QED
  BY <1>0, <1>3 DEF Ascending

\* Where the keys belong once the keys from the h-th on are cut off.
LEMMA SlotLow ==
  ASSUME NEW s \in Seq(Int), Ascending(s), NEW h \in 1 .. Len(s), NEW v \in Seq(Int),
         IsHead(s, h - 1, v), NEW x \in Int, NEW i \in 0 .. h - 1
  PROVE  Slot(s, x, i) <=> Slot(v, x, i) /\ x < s[h]
<1>0. Len(v) = h - 1 /\ \A j \in 1 .. h - 1 : v[j] = s[j]
  BY DEF IsHead
<1>1. s[h] \in Int /\ i + 1 \in 1 .. Len(s) /\ s[i + 1] \in Int /\ i < Len(s)
  OBVIOUS
<1>2. i > 0 => v[i] = s[i]
  BY <1>0
<1>3. CASE i = h - 1
  <2>1. i + 1 = h /\ ~(i < Len(v))
    BY <1>0, <1>3
  <2> QED
    BY <1>1, <1>2, <2>1 DEF Slot
<1>4. CASE i < h - 1
  <2>1. i + 1 \in 1 .. h - 1 /\ i < Len(v) /\ i + 1 < h
    BY <1>0, <1>4
  <2>2. v[i + 1] = s[i + 1] /\ s[i + 1] < s[h]
    BY <1>0, <1>1, <2>1 DEF Ascending
  <2>3. Slot(s, x, i) <=> Slot(v, x, i)
    BY <1>1, <1>2, <2>1, <2>2 DEF Slot
  <2>4. Slot(s, x, i) => x < s[h]
    <3>1. Slot(s, x, i) => x < s[i + 1]
      BY <1>1 DEF Slot
    <3> QED
      BY <1>1, <2>2, <3>1
  <2> QED
    BY <2>3, <2>4
<1> QED
  BY <1>3, <1>4

\* The same for the keys behind the h-th.
LEMMA SlotHigh ==
  ASSUME NEW s \in Seq(Int), Ascending(s), NEW h \in 1 .. Len(s), NEW v \in Seq(Int),
         IsTail(s, h, v), NEW x \in Int, NEW i \in 0 .. Len(s) - h, NEW j, j = h + i
  PROVE  Slot(s, x, j) <=> Slot(v, x, i) /\ s[h] <= x
<1>0. Len(v) = Len(s) - h /\ \A k \in 1 .. Len(s) - h : v[k] = s[h + k]
  BY DEF IsTail
<1>1. s[h] \in Int /\ j \in 1 .. Len(s) /\ j > 0 /\ s[j] \in Int /\ (j < Len(s) <=> i < Len(v))
  BY <1>0
<1>2. i < Len(v) => v[i + 1] = s[j + 1]
  <2>1. i < Len(v) => i + 1 \in 1 .. Len(s) - h /\ h + (i + 1) = j + 1
    BY <1>0
  <2> QED
    BY <1>0, <2>1
<1>3. CASE i = 0
  <2>1. j = h
    BY <1>3
  <2> QED
    BY <1>1, <1>2, <1>3, <2>1 DEF Slot
<1>4. CASE i > 0
  <2>1. v[i] = s[j] /\ h < j
    <3>1. i \in 1 .. Len(s) - h /\ h < j
      BY <1>4
    <3>2. v[i] = s[h + i]
      BY <1>0, <3>1, Zenon
    <3> QED
      BY <3>1, <3>2, Zenon
  <2>2. s[h] < s[j]
    BY <1>1, <2>1 DEF Ascending
  <2>3. Slot(s, x, j) <=> Slot(v, x, i)
    BY <1>1, <1>2, <1>4, <2>1 DEF Slot
  <2>4. Slot(s, x, j) => s[h] <= x
    <3>1. Slot(s, x, j) => s[j] <= x
      BY <1>1 DEF Slot
    <3> QED
      BY <1>1, <2>2, <3>1
  <2> QED
    BY <2>3, <2>4
<1> QED
  BY <1>3, <1>4
-----------------------------------------------------------------------------
(* Trees                                                                   *)
-----------------------------------------------------------------------------
NodeType == [keys : Seq(Keys), kids : Seq(Nat), left : Nat, right : Nat, seq : Nat]
TreeType == [node : Seq(NodeType), root : Nat, depth : Nat]
Nodes(t) == 1 .. Len(t.node)

Convex(R) == \A x, y \in R : \A z \in Int : x <= z /\ z <= y => z \in R
UpClosed(R) == \A x \in R : \A z \in Int : x <= z => z \in R
DownClosed(R) == \A x \in R : \A z \in Int : z <= x => z \in R

\* R lies below S, and nothing between them.
Adjacent(R, S) ==
  \A x \in R, y \in S : x < y /\ \A z \in Int : x <= z /\ z <= y => z \in R \/ z \in S

\* lev is the height of a node over the leaves, rng the interval of keys that
\* belong below it.
Ranges(t, lev, rng) ==
  /\ lev \in [Nodes(t) -> Nat] /\ rng \in [Nodes(t) -> SUBSET Int]
  /\ \A n \in Nodes(t) : lev[n] <= t.depth /\ rng[n] # {} /\ Convex(rng[n])
  /\ \A m, n \in Nodes(t) : lev[m] = lev[n] /\ m # n => \A x \in rng[m] : ~(x \in rng[n])

\* The keys of a leaf belong to it; only the leaf of an empty table is empty.
LeafKeys(f, R) ==
  /\ f.kids = << >> /\ Ascending(f.keys) /\ Len(f.keys) <= M
  /\ \A i \in 1 .. Len(f.keys) : f.keys[i] \in R
  /\ Len(f.keys) = 0 => R = Int

\* The neighbours in the list of leaves are the neighbours among the ranges.
LeafLinks(t, lev, rng, l) ==
  /\ t.node[l].right = NULL => UpClosed(rng[l])
  /\ t.node[l].right # NULL =>
       /\ t.node[l].right \in Nodes(t) /\ lev[t.node[l].right] = 0
       /\ t.node[t.node[l].right].left = l
       /\ Adjacent(rng[l], rng[t.node[l].right])
  /\ t.node[l].left = NULL => DownClosed(rng[l])
  /\ t.node[l].left # NULL =>
       /\ t.node[l].left \in Nodes(t) /\ lev[t.node[l].left] = 0
       /\ t.node[t.node[l].left].right = l

\* cov is what the parent sends to a node: its range and, while a new sibling
\* waits to be inserted in the parent, the range of the sibling.
KidOK(t, lev, rng, cov, n, i) ==
  /\ t.node[n].kids[i] \in Nodes(t) /\ lev[t.node[n].kids[i]] + 1 = lev[n]
  /\ cov[t.node[n].kids[i]] # {}
  /\ \A x \in Int : x \in cov[t.node[n].kids[i]] <=> x \in rng[n] /\ Slot(t.node[n].keys, x, i - 1)

InnerKeys(f) ==
  Ascending(f.keys) /\ Len(f.keys) <= NENT /\ Len(f.kids) = Len(f.keys) + 1

LeafOK(t, lev, rng, l) == LeafKeys(t.node[l], rng[l]) /\ LeafLinks(t, lev, rng, l)
InnerOK(t, lev, rng, cov, n) ==
  InnerKeys(t.node[n]) /\ \A i \in 1 .. Len(t.node[n].kids) : KidOK(t, lev, rng, cov, n, i)

Shape(t, lev, rng, cov) ==
  /\ t \in TreeType /\ Ranges(t, lev, rng)
  /\ cov \in [Nodes(t) -> SUBSET Int]
  /\ t.root \in Nodes(t) /\ lev[t.root] = t.depth /\ cov[t.root] = Int
  /\ \A n \in Nodes(t) : lev[n] = 0 => LeafOK(t, lev, rng, n)
  /\ \A n \in Nodes(t) : lev[n] > 0 => InnerOK(t, lev, rng, cov, n)

LEMMA KeySeq ==
  ASSUME NEW s \in Seq(Keys)
  PROVE  s \in Seq(Int) /\ Len(s) \in Nat /\ \A i \in 1 .. Len(s) : s[i] \in Keys /\ s[i] \in Int
<1>1. Keys \subseteq Int
  BY ConstantFacts
<1>2. s \in Seq(Int)
  BY <1>1, SeqMonotonic, Zenon
<1> QED
  BY <1>1, <1>2

LEMMA NodeFields ==
  ASSUME NEW t \in TreeType
  PROVE  /\ t.node \in Seq(NodeType) /\ t.root \in Nat /\ t.depth \in Nat /\ Len(t.node) \in Nat
         /\ \A n \in Nodes(t) :
              /\ n \in Nat /\ n # NULL /\ t.node[n] \in NodeType
              /\ t.node[n].keys \in Seq(Keys) /\ t.node[n].kids \in Seq(Nat)
              /\ t.node[n].left \in Nat /\ t.node[n].right \in Nat /\ t.node[n].seq \in Nat
<1>1. t.node \in Seq(NodeType) /\ t.root \in Nat /\ t.depth \in Nat /\ Len(t.node) \in Nat
  BY DEF TreeType
<1>2. ASSUME NEW n \in Nodes(t) PROVE n \in Nat /\ n # NULL /\ t.node[n] \in NodeType
  BY <1>1 DEF Nodes, NULL
<1>3. \A f \in NodeType : f.keys \in Seq(Keys) /\ f.kids \in Seq(Nat)
        /\ f.left \in Nat /\ f.right \in Nat /\ f.seq \in Nat
  BY DEF NodeType
<1> QED
  BY <1>1, <1>2, <1>3

LEMMA SetNodeIs ==
  ASSUME NEW t \in TreeType, NEW n \in Nodes(t), NEW f \in NodeType
  PROVE  /\ SetNode(t, n, f) \in TreeType
         /\ Len(SetNode(t, n, f).node) = Len(t.node)
         /\ SetNode(t, n, f).root = t.root /\ SetNode(t, n, f).depth = t.depth
         /\ SetNode(t, n, f).node[n] = f
         /\ \A m \in Nodes(t) : m # n => SetNode(t, n, f).node[m] = t.node[m]
<1>1. t.node \in Seq(NodeType) /\ t.root \in Nat /\ t.depth \in Nat
  BY DEF TreeType
<1>2. PICK s : s = [t.node EXCEPT ![n] = f]
  OBVIOUS
<1>3. s \in Seq(NodeType) /\ Len(s) = Len(t.node) /\ s[n] = f
      /\ \A m \in Nodes(t) : m # n => s[m] = t.node[m]
  BY <1>1, <1>2 DEF Nodes
<1>4. PICK u : u = SetNode(t, n, f)
  OBVIOUS
<1>5. u = [t EXCEPT !.node = s]
  BY <1>2, <1>4 DEF SetNode
<1>6. u.node = s /\ u.root = t.root /\ u.depth = t.depth /\ u \in TreeType
  BY <1>3, <1>5 DEF TreeType
<1> QED
  BY <1>3, <1>4, <1>6

LEMMA NewNodeIs ==
  ASSUME NEW t \in TreeType, NEW f \in NodeType
  PROVE  /\ NewNode(t, f) \in TreeType
         /\ Len(NewNode(t, f).node) = Len(t.node) + 1
         /\ NewNode(t, f).root = t.root /\ NewNode(t, f).depth = t.depth
         /\ NewNode(t, f).node[Len(t.node) + 1] = f
         /\ \A m \in Nodes(t) : NewNode(t, f).node[m] = t.node[m]
<1>1. t.node \in Seq(NodeType) /\ t.root \in Nat /\ t.depth \in Nat
  BY DEF TreeType
<1>2. PICK s : s = Append(t.node, f)
  OBVIOUS
<1>3. s \in Seq(NodeType) /\ Len(s) = Len(t.node) + 1 /\ s[Len(t.node) + 1] = f
      /\ \A m \in Nodes(t) : s[m] = t.node[m]
  BY <1>1, <1>2 DEF Nodes
<1>4. PICK u : u = NewNode(t, f)
  OBVIOUS
<1>5. u = [t EXCEPT !.node = s]
  BY <1>2, <1>4 DEF NewNode
<1>6. u.node = s /\ u.root = t.root /\ u.depth = t.depth /\ u \in TreeType
  BY <1>3, <1>5 DEF TreeType
<1> QED
  BY <1>3, <1>4, <1>6

\* A node has one parent, and one place in it.
LEMMA KidUnique ==
  ASSUME NEW t, NEW lev, NEW rng, NEW cov, Shape(t, lev, rng, cov),
         NEW m \in Nodes(t), NEW n \in Nodes(t), lev[m] > 0, lev[n] > 0,
         NEW i \in 1 .. Len(t.node[m].kids), NEW j \in 1 .. Len(t.node[n].kids),
         t.node[m].kids[i] = t.node[n].kids[j]
  PROVE  m = n /\ i = j
<1>1. KidOK(t, lev, rng, cov, m, i) /\ KidOK(t, lev, rng, cov, n, j)
  BY DEF Shape, InnerOK
<1>2. PICK c : c = t.node[m].kids[i] /\ c = t.node[n].kids[j]
  OBVIOUS
<1>3. c \in Nodes(t) /\ lev[c] + 1 = lev[m] /\ lev[c] + 1 = lev[n] /\ cov[c] # {} /\ cov[c] \subseteq Int
  BY <1>1, <1>2 DEF KidOK, Shape
<1>4. PICK x \in cov[c] : TRUE
  BY <1>3
<1>5. x \in Int /\ x \in rng[m] /\ x \in rng[n] /\ Slot(t.node[m].keys, x, i - 1)
      /\ Slot(t.node[n].keys, x, j - 1)
  BY <1>1, <1>2, <1>3, <1>4 DEF KidOK
<1>6. m = n
  BY <1>3, <1>5 DEF Shape, Ranges
<1>7. t \in TreeType /\ InnerKeys(t.node[n])
  BY DEF Shape, InnerOK
<1>8. PICK s : s = t.node[n].keys
  OBVIOUS
<1>9. s \in Seq(Keys)
  BY <1>7, <1>8, NodeFields
<1>10. s \in Seq(Int) /\ Len(s) \in Nat
  BY <1>9, KeySeq, Zenon
<1>11. Ascending(s) /\ Len(t.node[n].kids) = Len(s) + 1
  BY <1>7, <1>8 DEF InnerKeys
<1>12. i - 1 \in 0 .. Len(s) /\ j - 1 \in 0 .. Len(s)
  BY <1>6, <1>10, <1>11
<1>13. i - 1 = j - 1
  BY <1>5, <1>6, <1>8, <1>10, <1>11, <1>12, SlotUnique, Zenon
<1> QED
  BY <1>6, <1>12, <1>13

\* t2 has the nodes of t, at their heights.
Extends(t, lev, t2, lev2) == Nodes(t) \subseteq Nodes(t2) /\ \A m \in Nodes(t) : lev2[m] = lev[m]

\* The leaves of t are as they were.
SameLeaves(t, lev, rng, t2, rng2) ==
  \A m \in Nodes(t) : lev[m] = 0 => t2.node[m] = t.node[m] /\ rng2[m] = rng[m]

\* The inner node n of t is as it was, and so is what it sends to its children.
SameInner(t, rng, cov, t2, rng2, cov2, n) ==
  /\ t2.node[n] = t.node[n] /\ rng2[n] = rng[n]
  /\ \A i \in 1 .. Len(t.node[n].kids) : cov2[t.node[n].kids[i]] = cov[t.node[n].kids[i]]

LEMMA LeavesKept ==
  ASSUME NEW t, NEW lev, NEW rng, NEW cov, Shape(t, lev, rng, cov),
         NEW t2, NEW lev2, NEW rng2, Extends(t, lev, t2, lev2),
         SameLeaves(t, lev, rng, t2, rng2), NEW l \in Nodes(t), lev[l] = 0
  PROVE  LeafOK(t2, lev2, rng2, l)
<1>0. Nodes(t) \subseteq Nodes(t2) /\ (\A m \in Nodes(t) : lev2[m] = lev[m])
      /\ \A m \in Nodes(t) : lev[m] = 0 => t2.node[m] = t.node[m] /\ rng2[m] = rng[m]
  BY DEF Extends, SameLeaves
<1>1. LeafKeys(t.node[l], rng[l]) /\ LeafLinks(t, lev, rng, l)
  BY DEF Shape, LeafOK
<1>2. t2.node[l] = t.node[l] /\ rng2[l] = rng[l]
  BY <1>0
<1>3. PICK r : r = t.node[l].right
  OBVIOUS
<1>4. PICK p : p = t.node[l].left
  OBVIOUS
<1>5. LeafLinks(t2, lev2, rng2, l)
  <2>1. r # NULL => r \in Nodes(t) /\ lev[r] = 0 /\ t.node[r].left = l /\ Adjacent(rng[l], rng[r])
    BY <1>1, <1>3 DEF LeafLinks
  <2>2. r # NULL => r \in Nodes(t2) /\ lev2[r] = 0 /\ t2.node[r].left = l /\ Adjacent(rng2[l], rng2[r])
    BY <1>0, <1>2, <2>1
  <2>3. p # NULL => p \in Nodes(t) /\ lev[p] = 0 /\ t.node[p].right = l
    BY <1>1, <1>4 DEF LeafLinks
  <2>4. p # NULL => p \in Nodes(t2) /\ lev2[p] = 0 /\ t2.node[p].right = l
    BY <1>0, <2>3
  <2>5. (r = NULL => UpClosed(rng2[l])) /\ (p = NULL => DownClosed(rng2[l]))
    BY <1>1, <1>2, <1>3, <1>4 DEF LeafLinks
  <2> QED
    BY <1>2, <1>3, <1>4, <2>2, <2>4, <2>5 DEF LeafLinks
<1> QED
  BY <1>1, <1>2, <1>5 DEF LeafOK

LEMMA InnerKept ==
  ASSUME NEW t, NEW lev, NEW rng, NEW cov, Shape(t, lev, rng, cov),
         NEW t2, NEW lev2, NEW rng2, NEW cov2, Extends(t, lev, t2, lev2),
         NEW n \in Nodes(t), lev[n] > 0, SameInner(t, rng, cov, t2, rng2, cov2, n)
  PROVE  InnerOK(t2, lev2, rng2, cov2, n)
<1>0. Nodes(t) \subseteq Nodes(t2) /\ (\A m \in Nodes(t) : lev2[m] = lev[m])
      /\ t2.node[n] = t.node[n] /\ rng2[n] = rng[n]
      /\ \A i \in 1 .. Len(t.node[n].kids) : cov2[t.node[n].kids[i]] = cov[t.node[n].kids[i]]
  BY DEF Extends, SameInner
<1>1. InnerKeys(t.node[n]) /\ \A i \in 1 .. Len(t.node[n].kids) : KidOK(t, lev, rng, cov, n, i)
  BY DEF Shape, InnerOK
<1>2. ASSUME NEW i \in 1 .. Len(t.node[n].kids) PROVE KidOK(t2, lev2, rng2, cov2, n, i)
  <2>1. PICK c : c = t.node[n].kids[i]
    OBVIOUS
  <2>2. c \in Nodes(t) /\ lev[c] + 1 = lev[n] /\ cov[c] # {}
        /\ \A x \in Int : x \in cov[c] <=> x \in rng[n] /\ Slot(t.node[n].keys, x, i - 1)
    BY <1>1, <2>1 DEF KidOK
  <2>3. cov2[c] = cov[c] /\ lev2[c] = lev[c] /\ lev2[n] = lev[n] /\ c \in Nodes(t2)
    BY <1>0, <2>1, <2>2
  <2> QED
    BY <1>0, <2>1, <2>2, <2>3 DEF KidOK
<1> QED
  BY <1>0, <1>1, <1>2 DEF InnerOK

\* c was split: its parent still sends it the keys of the new node, from up on.
Pending(lev, rng, cov, c, new, up) ==
  /\ lev[new] = lev[c] /\ new # c
  /\ \A x \in rng[c] : x < up
  /\ up \in rng[new] /\ \A x \in rng[new] : up <= x
  /\ cov[new] = {} /\ \A x \in Int : x \in cov[c] <=> x \in rng[c] \/ x \in rng[new]

LEMMA InnerNodeIs ==
  ASSUME NEW s \in Seq(Keys), NEW c \in Seq(Nat)
  PROVE  /\ InnerNode(s, c) \in NodeType
         /\ InnerNode(s, c).keys = s /\ InnerNode(s, c).kids = c
BY DEF InnerNode, NodeType, NULL

\* The key that comes up from a child belongs strictly inside the slot of the
\* child.
LEMMA UpFits ==
  ASSUME NEW t, NEW lev, NEW rng, NEW cov, Shape(t, lev, rng, cov),
         NEW c \in Nodes(t), NEW new \in Nodes(t), NEW up \in Keys,
         Pending(lev, rng, cov, c, new, up),
         NEW p \in Nodes(t), lev[p] > 0, NEW k \in 0 .. Len(t.node[p].keys),
         t.node[p].kids[k + 1] = c
  PROVE  up \in rng[p] /\ Slot(t.node[p].keys, up, k) /\ (k > 0 => t.node[p].keys[k] < up)
<1>1. InnerKeys(t.node[p]) /\ t \in TreeType
  BY DEF Shape, InnerOK
<1>2. Len(t.node[p].keys) \in Nat /\ t.node[p].keys \in Seq(Keys)
  BY <1>1, NodeFields, SMTT(20)
<1>3. k + 1 \in 1 .. Len(t.node[p].kids) /\ (k + 1) - 1 = k
  BY <1>1, <1>2 DEF InnerKeys
<1>4. KidOK(t, lev, rng, cov, p, k + 1)
  BY <1>3 DEF Shape, InnerOK
<1>5. \A x \in Int : x \in cov[c] <=> x \in rng[p] /\ Slot(t.node[p].keys, x, k)
  BY <1>3, <1>4 DEF KidOK
<1>6. up \in Int /\ rng[c] # {} /\ rng[c] \subseteq Int
  BY ConstantFacts DEF Shape, Ranges
<1>7. up \in cov[c]
  BY <1>6 DEF Pending
<1>8. PICK x \in rng[c] : TRUE
  BY <1>6
<1>9. x \in Int /\ x < up /\ x \in cov[c]
  BY <1>6, <1>8 DEF Pending
<1>10. Slot(t.node[p].keys, x, k)
  BY <1>5, <1>9
<1>11. k > 0 => t.node[p].keys[k] \in Int
  BY <1>2, KeySeq
<1>12. k > 0 => t.node[p].keys[k] <= x
  BY <1>10 DEF Slot
<1>13. k > 0 => t.node[p].keys[k] < up
  BY <1>6, <1>9, <1>11, <1>12
<1> QED
  BY <1>5, <1>6, <1>7, <1>13

\* The nodes but n are as they were.
Keeps(t, n, t2) ==
  /\ t2.root = t.root /\ t2.depth = t.depth
  /\ \A m \in Nodes(t) : m # n => t2.node[m] = t.node[m]

\* The sibling new of c, the child of p in place k, waits to be taken by p.
Waits(t, lev, rng, cov, c, new, up, p, k) ==
  /\ c \in Nodes(t) /\ new \in Nodes(t) /\ up \in Keys /\ Pending(lev, rng, cov, c, new, up)
  /\ p \in Nodes(t) /\ lev[p] > 0 /\ k \in 0 .. Len(t.node[p].keys) /\ t.node[p].kids[k + 1] = c
CovTaken(rng, cov, c, new) == [cov EXCEPT ![c] = rng[c], ![new] = rng[new]]

\* The split ends when the parent takes the new node.
LEMMA Attach ==
  ASSUME NEW t, NEW lev, NEW rng, NEW cov, Shape(t, lev, rng, cov),
         NEW c, NEW new, NEW up, NEW p, NEW k, Waits(t, lev, rng, cov, c, new, up, p, k),
         Len(t.node[p].keys) < NENT,
         NEW t2, t2 = WithChild(t, p, k, up, new), NEW cov2, cov2 = CovTaken(rng, cov, c, new)
  PROVE  Shape(t2, lev, rng, cov2) /\ Len(t2.node) = Len(t.node) /\ Keeps(t, p, t2)
<1>u. /\ c \in Nodes(t) /\ new \in Nodes(t) /\ up \in Keys /\ Pending(lev, rng, cov, c, new, up)
      /\ p \in Nodes(t) /\ lev[p] > 0 /\ k \in 0 .. Len(t.node[p].keys) /\ t.node[p].kids[k + 1] = c
      /\ cov2 = [cov EXCEPT ![c] = rng[c], ![new] = rng[new]]
  BY DEF Waits, CovTaken
<1> USE <1>u
<1>1. InnerKeys(t.node[p]) /\ t \in TreeType
  BY DEF Shape, InnerOK
<1>2. PICK s : s = t.node[p].keys
  OBVIOUS
<1>3. PICK d : d = t.node[p].kids
  OBVIOUS
<1>4. s \in Seq(Keys) /\ d \in Seq(Nat)
  BY <1>1, <1>2, <1>3, NodeFields
<1>5. s \in Seq(Int) /\ Len(s) \in Nat /\ up \in Int
  BY <1>4, KeySeq, ConstantFacts
<1>6. Ascending(s) /\ Len(d) = Len(s) + 1 /\ Len(s) < NENT /\ k \in 0 .. Len(s) /\ d[k + 1] = c
  BY <1>1, <1>2, <1>3 DEF InnerKeys
<1>7. up \in rng[p] /\ Slot(s, up, k) /\ (k > 0 => s[k] < up)
  BY <1>2, UpFits
<1>8. PICK v : v = InsertAt(s, k + 1, up)
  OBVIOUS
<1>9. PICK e : e = InsertAt(d, k + 2, new)
  OBVIOUS
<1>10. v \in Seq(Keys) /\ Inserted(s, k, up, v)
  <2>1. k \in Nat /\ k <= Len(s)
    BY <1>5, <1>6
  <2> QED
    BY <1>4, <1>8, <2>1, InsertAtIs
<1>11. e \in Seq(Nat) /\ Inserted(d, k + 1, new, e)
  <2>1. k + 1 \in Nat /\ k + 1 <= Len(d) /\ new \in Nat /\ (k + 1) + 1 = k + 2
    BY <1>1, <1>5, <1>6, NodeFields
  <2>2. e = InsertAt(d, (k + 1) + 1, new)
    BY <1>9, <2>1
  <2> QED
    BY <1>4, <2>1, <2>2, InsertAtIs
<1>12. /\ t2 \in TreeType /\ Len(t2.node) = Len(t.node) /\ t2.root = t.root /\ t2.depth = t.depth
       /\ t2.node[p].keys = v /\ t2.node[p].kids = e
       /\ \A m \in Nodes(t) : m # p => t2.node[m] = t.node[m]
  <2>1. PICK f : f = InnerNode(v, e)
    OBVIOUS
  <2>2. f \in NodeType /\ f.keys = v /\ f.kids = e
    BY <1>10, <1>11, <2>1, InnerNodeIs
  <2>3. t2 = SetNode(t, p, f)
    BY <1>2, <1>3, <1>8, <1>9, <2>1 DEF WithChild
  <2> QED
    BY <1>1, <2>2, <2>3, SetNodeIs
<1>13. Nodes(t2) = Nodes(t)
  BY <1>12 DEF Nodes
<1>14. Len(v) = Len(s) + 1 /\ Len(e) = Len(d) + 1
  BY <1>10, <1>11 DEF Inserted
<1>15. v \in Seq(Int) /\ Ascending(v)
  <2>1. v \in Seq(Int)
    BY <1>10, KeySeq, Zenon
  <2> QED
    BY <1>5, <1>6, <1>7, <1>10, <2>1, AscendingInsert
<1>16. /\ cov2 \in [Nodes(t) -> SUBSET Int] /\ cov2[c] = rng[c] /\ cov2[new] = rng[new]
       /\ \A m \in Nodes(t) : m # c /\ m # new => cov2[m] = cov[m]
  <2>1. rng \in [Nodes(t) -> SUBSET Int] /\ cov \in [Nodes(t) -> SUBSET Int] /\ new # c
    BY DEF Shape, Ranges, Pending
  <2> QED
    BY <2>1
<1>17. ASSUME NEW i \in 1 .. Len(d)
       PROVE  /\ d[i] \in Nodes(t) /\ lev[d[i]] + 1 = lev[p] /\ cov[d[i]] # {}
              /\ \A x \in Int : x \in cov[d[i]] <=> x \in rng[p] /\ Slot(s, x, i - 1)
              /\ d[i] # new /\ (i # k + 1 => d[i] # c)
  <2>1. KidOK(t, lev, rng, cov, p, i)
    BY <1>3 DEF Shape, InnerOK
  <2>2. /\ d[i] \in Nodes(t) /\ lev[d[i]] + 1 = lev[p] /\ cov[d[i]] # {}
        /\ \A x \in Int : x \in cov[d[i]] <=> x \in rng[p] /\ Slot(s, x, i - 1)
    BY <1>2, <1>3, <2>1 DEF KidOK
  <2>3. d[i] # new
    BY <2>2 DEF Pending
  <2>4. k + 1 \in 1 .. Len(d)
    BY <1>5, <1>6
  <2>5. d[i] = c => i = k + 1
    BY <1>3, <1>6, <2>4, KidUnique
  <2> QED
    BY <2>2, <2>3, <2>5
<1>18. ASSUME NEW i \in 1 .. Len(e) PROVE KidOK(t2, lev, rng, cov2, p, i)
  <2>1. PICK j \in 0 .. Len(s) + 1 : i = j + 1 /\ j = i - 1
    <3>1. i - 1 \in 0 .. Len(s) + 1 /\ i = (i - 1) + 1
      BY <1>5, <1>6, <1>14
    <3> QED
      BY <3>1
  <2>2. ASSUME NEW x \in Int
        PROVE  Slot(v, x, j) <=>
                 \/ j < k /\ Slot(s, x, j)
                 \/ j = k /\ Slot(s, x, k) /\ x < up
                 \/ j = k + 1 /\ Slot(s, x, k) /\ up <= x
                 \/ j > k + 1 /\ Slot(s, x, j - 1)
    BY <1>5, <1>6, <1>7, <1>10, <1>15, SlotInsert
  <2>3. SUFFICES ASSUME NEW g, g = e[i]
                 PROVE  /\ g \in Nodes(t) /\ lev[g] + 1 = lev[p] /\ cov2[g] # {}
                        /\ \A x \in Int : x \in cov2[g] <=> x \in rng[p] /\ Slot(v, x, j)
    BY <1>12, <1>13, <2>1 DEF KidOK
  <2>4. CASE j < k
    <3>1. i \in 1 .. k + 1 /\ i \in 1 .. Len(d) /\ i # k + 1
      BY <1>5, <1>6, <2>1, <2>4
    <3>2. g = d[i]
      BY <1>11, <2>3, <3>1 DEF Inserted
    <3>3. cov2[g] = cov[g]
      BY <1>16, <1>17, <3>1, <3>2
    <3>4. ~(j = k) /\ ~(j = k + 1) /\ ~(j > k + 1)
      BY <1>6, <2>4
    <3>5. \A x \in Int : Slot(v, x, j) <=> Slot(s, x, j)
      BY <2>2, <2>4, <3>4, Zenon
    <3>6. \A x \in Int : x \in cov[g] <=> x \in rng[p] /\ Slot(s, x, j)
      <4>1. \A x \in Int : x \in cov[d[i]] <=> x \in rng[p] /\ Slot(s, x, i - 1)
        BY <1>17, <3>1
      <4> QED
        BY <2>1, <3>2, <4>1
    <3>7. \A x \in Int : x \in cov2[g] <=> x \in rng[p] /\ Slot(v, x, j)
      BY <3>3, <3>5, <3>6, Zenon
    <3> QED
      BY <1>17, <3>1, <3>2, <3>3, <3>7, Zenon
  <2>5. CASE j = k
    <3>1. k + 1 \in 1 .. k + 1 /\ k + 1 \in 1 .. Len(d) /\ i = k + 1 /\ (k + 1) - 1 = k
      BY <1>5, <1>6, <2>1, <2>5
    <3>2. g = c
      BY <1>6, <1>11, <2>3, <3>1 DEF Inserted
    <3>3. cov2[g] = rng[c] /\ rng[c] # {} /\ rng[c] \subseteq Int
      BY <1>16, <3>2 DEF Shape, Ranges
    <3>4. \A x \in Int : Slot(v, x, j) <=> Slot(s, x, k) /\ x < up
      BY <1>5, <1>6, <2>2, <2>5
    <3>5. \A x \in Int : x \in cov[c] <=> x \in rng[p] /\ Slot(s, x, k)
      BY <1>6, <1>17, <3>1
    <3>6. \A x \in Int : x \in rng[c] <=> x \in cov[c] /\ x < up
      <4>1. \A x \in Int : x \in rng[new] => ~(x < up)
        BY <1>5 DEF Pending
      <4> QED
        BY <4>1 DEF Pending
    <3> QED
      BY <1>6, <1>17, <3>1, <3>2, <3>3, <3>4, <3>5, <3>6
  <2>6. CASE j = k + 1
    <3>1. i = (k + 1) + 1 /\ k + 1 \in 1 .. Len(d) /\ (k + 1) - 1 = k
      BY <1>5, <1>6, <2>1, <2>6
    <3>2. g = new
      BY <1>11, <2>3, <3>1 DEF Inserted
    <3>3. cov2[g] = rng[new] /\ rng[new] # {} /\ rng[new] \subseteq Int
      BY <1>16, <3>2 DEF Shape, Ranges
    <3>4. \A x \in Int : Slot(v, x, j) <=> Slot(s, x, k) /\ up <= x
      BY <1>5, <1>6, <2>2, <2>6
    <3>5. \A x \in Int : x \in cov[c] <=> x \in rng[p] /\ Slot(s, x, k)
      BY <1>6, <1>17, <3>1
    <3>6. \A x \in Int : x \in rng[new] <=> x \in cov[c] /\ up <= x
      <4>1. \A x \in Int : x \in rng[c] => ~(up <= x)
        BY <1>5 DEF Pending
      <4> QED
        BY <4>1 DEF Pending
    <3>7. lev[new] + 1 = lev[p]
      BY <1>6, <1>17, <3>1 DEF Pending
    <3> QED
      BY <3>2, <3>3, <3>4, <3>5, <3>6, <3>7
  <2>7. CASE j > k + 1
    <3>1. j \in (k + 1) + 1 .. Len(d) /\ j \in 1 .. Len(d) /\ j # k + 1
      BY <1>5, <1>6, <2>1, <2>7
    <3>2. g = d[j]
      BY <1>11, <2>1, <2>3, <3>1 DEF Inserted
    <3>3. cov2[g] = cov[g]
      BY <1>16, <1>17, <3>1, <3>2
    <3>4. \A x \in Int : Slot(v, x, j) <=> Slot(s, x, j - 1)
      BY <1>5, <1>6, <2>2, <2>7, SMTT(20)
    <3> QED
      BY <1>17, <3>1, <3>2, <3>3, <3>4
  <2>8. j < k \/ j = k \/ j = k + 1 \/ j > k + 1
    BY <1>6
  <2> QED
    BY <2>4, <2>5, <2>6, <2>7, <2>8, Zenon
<1>19. InnerOK(t2, lev, rng, cov2, p)
  <2>1. InnerKeys(t2.node[p])
    BY <1>5, <1>6, <1>12, <1>14, <1>15, ConstantFacts DEF InnerKeys
  <2> QED
    BY <1>12, <1>18, <2>1 DEF InnerOK
<1>20. ASSUME NEW n \in Nodes(t), lev[n] > 0, n # p PROVE InnerOK(t2, lev, rng, cov2, n)
  <2>1. ASSUME NEW i \in 1 .. Len(t.node[n].kids)
        PROVE  cov2[t.node[n].kids[i]] = cov[t.node[n].kids[i]]
    <3>1. PICK g : g = t.node[n].kids[i]
      OBVIOUS
    <3>2. g \in Nodes(t) /\ cov[g] # {}
      BY <1>20, <3>1 DEF Shape, InnerOK, KidOK
    <3>3. g # new
      BY <3>2 DEF Pending
    <3>4. k + 1 \in 1 .. Len(t.node[p].kids)
      BY <1>3, <1>5, <1>6
    <3>5. g # c
      BY <1>20, <3>1, <3>4, KidUnique
    <3> QED
      BY <1>16, <3>1, <3>2, <3>3, <3>5
  <2>2. SameInner(t, rng, cov, t2, rng, cov2, n)
    BY <1>12, <1>20, <2>1 DEF SameInner
  <2>3. Extends(t, lev, t2, lev)
    BY <1>13 DEF Extends
  <2> QED
    BY <1>20, <2>2, <2>3, InnerKept
<1>21. ASSUME NEW n \in Nodes(t), lev[n] = 0 PROVE LeafOK(t2, lev, rng, n)
  <2>1. SameLeaves(t, lev, rng, t2, rng)
    BY <1>12 DEF SameLeaves
  <2>2. Extends(t, lev, t2, lev)
    BY <1>13 DEF Extends
  <2> QED
    BY <1>21, <2>1, <2>2, LeavesKept
<1>22. Ranges(t2, lev, rng)
  BY <1>12, <1>13 DEF Shape, Ranges
<1>23. cov2[t.root] = Int
  <2>1. lev[c] + 1 = lev[p] /\ lev[new] = lev[c]
    <3>1. k + 1 \in 1 .. Len(d)
      BY <1>5, <1>6
    <3> QED
      BY <1>6, <1>17, <3>1 DEF Pending
  <2>2. lev[p] <= lev[t.root] /\ lev[p] \in Nat /\ lev[c] \in Nat /\ lev[t.root] \in Nat
    BY DEF Shape, Ranges
  <2>3. t.root # c /\ t.root # new
    BY <2>1, <2>2
  <2> QED
    BY <1>16, <2>3 DEF Shape
<1>24. Shape(t2, lev, rng, cov2)
  BY <1>12, <1>13, <1>16, <1>19, <1>20, <1>21, <1>22, <1>23 DEF Shape
<1> QED
  BY <1>12, <1>24 DEF Keeps

\* The heights and ranges when the keys of n from up on move to a new node.
LevNew(t, lev, n) ==
  [m \in 1 .. Len(t.node) + 1 |-> IF m = Len(t.node) + 1 THEN lev[n] ELSE lev[m]]
RngCut(t, rng, n, up) ==
  [m \in 1 .. Len(t.node) + 1 |->
     IF m = Len(t.node) + 1 THEN {x \in rng[n] : up <= x}
     ELSE IF m = n THEN {x \in rng[n] : x < up} ELSE rng[m]]
CovNew(t, cov) ==
  [m \in 1 .. Len(t.node) + 1 |-> IF m = Len(t.node) + 1 THEN {} ELSE cov[m]]

\* up separates n from the new node q.
IsCut(t, lev, rng, n, up, q, lev2, rng2) ==
  /\ lev2[q] = lev[n] /\ \A m \in Nodes(t) : lev2[m] = lev[m]
  /\ \A m \in Nodes(t) : m # n => rng2[m] = rng[m]
  /\ \A x \in Int : x \in rng2[n] <=> x \in rng[n] /\ x < up
  /\ \A x \in Int : x \in rng2[q] <=> x \in rng[n] /\ up <= x
  /\ up \in rng2[q]

LEMMA CutFacts ==
  ASSUME NEW t, NEW lev, NEW rng, t \in TreeType, Ranges(t, lev, rng), NEW n \in Nodes(t),
         NEW up \in Int, up \in rng[n], NEW y, y \in rng[n], y < up,
         NEW t2, Len(t2.node) = Len(t.node) + 1, t2.depth = t.depth,
         NEW q, q = Len(t.node) + 1,
         NEW lev2, lev2 = LevNew(t, lev, n), NEW rng2, rng2 = RngCut(t, rng, n, up)
  PROVE  /\ Nodes(t2) = Nodes(t) \union {q} /\ ~(q \in Nodes(t))
         /\ Ranges(t2, lev2, rng2) /\ IsCut(t, lev, rng, n, up, q, lev2, rng2)
<1>1. Nodes(t2) = Nodes(t) \union {q} /\ ~(q \in Nodes(t)) /\ Nodes(t2) = 1 .. Len(t.node) + 1 /\ q \in Nodes(t2)
  BY NodeFields DEF Nodes
<1>2. lev \in [Nodes(t) -> Nat] /\ rng \in [Nodes(t) -> SUBSET Int]
  BY DEF Ranges
<1>3. lev2 \in [Nodes(t2) -> Nat] /\ lev2[q] = lev[n] /\ \A m \in Nodes(t) : lev2[m] = lev[m]
  BY <1>1, <1>2 DEF LevNew
<1>4. rng2[q] = {x \in rng[n] : up <= x} /\ rng2[n] = {x \in rng[n] : x < up}
      /\ \A m \in Nodes(t) : m # n => rng2[m] = rng[m]
  BY <1>1, <1>2 DEF RngCut
<1>5. rng2 \in [Nodes(t2) -> SUBSET Int]
  <2>1. \A m \in Nodes(t2) : rng2[m] \in SUBSET Int
    BY <1>1, <1>2, <1>4
  <2>2. rng2 = [m \in Nodes(t2) |-> rng2[m]]
    BY <1>1 DEF RngCut
  <2> QED
    BY <2>1, <2>2
<1>6. IsCut(t, lev, rng, n, up, q, lev2, rng2)
  BY <1>2, <1>3, <1>4 DEF IsCut
<1>7. ASSUME NEW m \in Nodes(t2) PROVE lev2[m] <= t2.depth /\ rng2[m] # {} /\ Convex(rng2[m])
  <2>1. CASE m = q
    <3>1. lev2[m] <= t2.depth
      BY <1>3, <2>1 DEF Ranges
    <3>2. up \in rng2[m]
      BY <1>6, <2>1 DEF IsCut
    <3>3. ASSUME NEW a \in rng2[m], NEW b \in rng2[m], NEW z \in Int, a <= z, z <= b
          PROVE  z \in rng2[m]
      <4>1. a \in rng[n] /\ b \in rng[n] /\ up <= a /\ a \in Int
        BY <1>2, <1>4, <2>1
      <4>2. z \in rng[n]
        BY <3>3, <4>1 DEF Ranges, Convex
      <4> QED
        BY <1>4, <2>1, <3>3, <4>1, <4>2
    <3> QED
      BY <3>1, <3>2, <3>3 DEF Convex
  <2>2. CASE m = n
    <3>1. lev2[m] <= t2.depth
      BY <1>3, <2>2 DEF Ranges
    <3>2. y \in rng2[m]
      BY <1>4, <2>2
    <3>3. ASSUME NEW a \in rng2[m], NEW b \in rng2[m], NEW z \in Int, a <= z, z <= b
          PROVE  z \in rng2[m]
      <4>1. a \in rng[n] /\ b \in rng[n] /\ b < up /\ b \in Int
        BY <1>2, <1>4, <2>2
      <4>2. z \in rng[n]
        BY <3>3, <4>1 DEF Ranges, Convex
      <4> QED
        BY <1>4, <2>2, <3>3, <4>1, <4>2
    <3> QED
      BY <3>1, <3>2, <3>3 DEF Convex
  <2>3. CASE m # q /\ m # n
    BY <1>1, <1>3, <1>4, <2>3 DEF Ranges
  <2> QED
    BY <2>1, <2>2, <2>3
<1>8. \A a \in Nodes(t2), x \in Int :
        x \in rng2[a] => x \in rng[IF a = q THEN n ELSE a] /\ lev2[a] = lev[IF a = q THEN n ELSE a]
  BY <1>1, <1>3, <1>4
<1>9. ASSUME NEW a \in Nodes(t2), NEW b \in Nodes(t2), lev2[a] = lev2[b], a # b, NEW x \in rng2[a]
      PROVE  ~(x \in rng2[b])
  <2>1. SUFFICES ASSUME x \in rng2[b] PROVE FALSE
    OBVIOUS
  <2>2. x \in Int
    BY <1>5
  <2>3. PICK c \in Nodes(t) : c = IF a = q THEN n ELSE a
    BY <1>1
  <2>4. PICK d \in Nodes(t) : d = IF b = q THEN n ELSE b
    BY <1>1
  <2>5. x \in rng[c] /\ x \in rng[d] /\ lev[c] = lev[d]
    BY <1>8, <1>9, <2>1, <2>2, <2>3, <2>4
  <2>6. c = d
    BY <2>5 DEF Ranges
  <2>7. (a = q /\ b = n) \/ (a = n /\ b = q)
    BY <1>9, <2>3, <2>4, <2>6
  <2> QED
    BY <1>4, <2>1, <2>2, <2>7
<1> QED
  BY <1>1, <1>3, <1>5, <1>6, <1>7, <1>9 DEF Ranges

\* A full inner node keeps the lower half of its children; the middle key goes
\* up with the new node that has the others.
HasHalves(t, n, q, t2) ==
  /\ Len(t2.node[n].keys) = threshold - 1 /\ Len(t2.node[q].keys) = NENT - threshold
  /\ \A i \in 1 .. threshold : t2.node[n].kids[i] = t.node[n].kids[i]
  /\ \A i \in 1 .. (NENT - threshold) + 1 : t2.node[q].kids[i] = t.node[n].kids[threshold + i]

LEMMA Halve ==
  ASSUME NEW t, NEW lev, NEW rng, NEW cov, Shape(t, lev, rng, cov),
         NEW n \in Nodes(t), lev[n] > 0, Len(t.node[n].keys) = NENT, cov[n] = rng[n],
         NEW t2, t2 = Halved(t, n), NEW q, q = Len(t.node) + 1,
         NEW up, up = t.node[n].keys[threshold],
         NEW lev2, lev2 = LevNew(t, lev, n), NEW rng2, rng2 = RngCut(t, rng, n, up),
         NEW cov2, cov2 = CovNew(t, cov)
  PROVE  /\ Shape(t2, lev2, rng2, cov2) /\ Pending(lev2, rng2, cov2, n, q, up) /\ up \in Keys
         /\ Len(t2.node) = q /\ Keeps(t, n, t2) /\ HasHalves(t, n, q, t2)
         /\ IsCut(t, lev, rng, n, up, q, lev2, rng2)
<1>1. InnerKeys(t.node[n]) /\ t \in TreeType
  BY DEF Shape, InnerOK
<1>2. PICK s : s = t.node[n].keys
  OBVIOUS
<1>3. PICK d : d = t.node[n].kids
  OBVIOUS
<1>4. PICK h : h = threshold
  OBVIOUS
<1>5. h \in Nat /\ 2 <= h /\ h < NENT /\ NENT \in Nat
  BY <1>4, ConstantFacts
<1>6. s \in Seq(Keys) /\ d \in Seq(Nat)
  BY <1>1, <1>2, <1>3, NodeFields
<1>7. s \in Seq(Int) /\ Len(s) = NENT /\ Ascending(s) /\ Len(d) = NENT + 1 /\ up = s[h]
  BY <1>1, <1>2, <1>3, <1>4, <1>6, KeySeq DEF InnerKeys
<1>8. up \in Keys /\ up \in Int /\ h \in 1 .. Len(s)
  BY <1>5, <1>6, <1>7, KeySeq
<1>9. PICK sL : sL = SubSeq(s, 1, h - 1)
  OBVIOUS
<1>10. PICK sR : sR = SubSeq(s, h + 1, NENT)
  OBVIOUS
<1>11. PICK dL : dL = SubSeq(d, 1, h)
  OBVIOUS
<1>12. PICK dR : dR = SubSeq(d, h + 1, NENT + 1)
  OBVIOUS
<1>13. sL \in Seq(Keys) /\ IsHead(s, h - 1, sL)
  <2>1. h - 1 \in Nat /\ h - 1 <= Len(s)
    BY <1>5, <1>7
  <2> QED
    BY <1>6, <1>9, <2>1, TakeIs
<1>14. sR \in Seq(Keys) /\ IsTail(s, h, sR)
  <2>1. h <= Len(s) /\ sR = SubSeq(s, h + 1, Len(s))
    BY <1>5, <1>7, <1>10
  <2> QED
    BY <1>5, <1>6, <2>1, DropIs
<1>15. dL \in Seq(Nat) /\ IsHead(d, h, dL)
  <2>1. h <= Len(d)
    BY <1>5, <1>7
  <2> QED
    BY <1>5, <1>6, <1>11, <2>1, TakeIs
<1>16. dR \in Seq(Nat) /\ IsTail(d, h, dR)
  <2>1. h <= Len(d) /\ dR = SubSeq(d, h + 1, Len(d))
    BY <1>5, <1>7, <1>12
  <2> QED
    BY <1>5, <1>6, <2>1, DropIs
<1>0. /\ Len(sL) = h - 1 /\ (\A i \in 1 .. h - 1 : sL[i] = s[i])
      /\ Len(sR) = NENT - h /\ (\A i \in 1 .. NENT - h : sR[i] = s[h + i])
      /\ Len(dL) = h /\ (\A i \in 1 .. h : dL[i] = d[i])
      /\ Len(dR) = (NENT - h) + 1 /\ (\A i \in 1 .. (NENT - h) + 1 : dR[i] = d[h + i])
  <2>1. (NENT + 1) - h = (NENT - h) + 1
    BY <1>5
  <2> QED
    BY <1>7, <1>13, <1>14, <1>15, <1>16, <2>1, Zenon DEF IsHead, IsTail
<1>17. /\ t2 \in TreeType /\ Len(t2.node) = q /\ t2.root = t.root /\ t2.depth = t.depth
       /\ t2.node[n].keys = sL /\ t2.node[n].kids = dL
       /\ t2.node[q].keys = sR /\ t2.node[q].kids = dR
       /\ \A m \in Nodes(t) : m # n => t2.node[m] = t.node[m]
  <2>1. PICK f : f = InnerNode(sL, dL)
    OBVIOUS
  <2>2. PICK g : g = InnerNode(sR, dR)
    OBVIOUS
  <2>3. f \in NodeType /\ f.keys = sL /\ f.kids = dL
    BY <1>13, <1>15, <2>1, InnerNodeIs
  <2>4. g \in NodeType /\ g.keys = sR /\ g.kids = dR
    BY <1>14, <1>16, <2>2, InnerNodeIs
  <2>5. PICK u : u = SetNode(t, n, f)
    OBVIOUS
  <2>6. /\ u \in TreeType /\ Len(u.node) = Len(t.node) /\ u.root = t.root /\ u.depth = t.depth
        /\ u.node[n] = f /\ \A m \in Nodes(t) : m # n => u.node[m] = t.node[m]
    BY <1>1, <2>3, <2>5, SetNodeIs
  <2>7. t2 = NewNode(u, g)
    BY <1>2, <1>3, <1>4, <1>9, <1>10, <1>11, <1>12, <2>1, <2>2, <2>5, Zenon DEF Halved
  <2>8. /\ t2 \in TreeType /\ Len(t2.node) = Len(u.node) + 1 /\ t2.root = u.root /\ t2.depth = u.depth
        /\ t2.node[Len(u.node) + 1] = g /\ \A m \in Nodes(u) : t2.node[m] = u.node[m]
    BY <2>4, <2>6, <2>7, NewNodeIs
  <2>9. Nodes(u) = Nodes(t)
    BY <2>6 DEF Nodes
  <2> QED
    BY <2>3, <2>4, <2>6, <2>8, <2>9
<1>18. ASSUME NEW i \in 1 .. NENT + 1
       PROVE  /\ d[i] \in Nodes(t) /\ lev[d[i]] + 1 = lev[n] /\ cov[d[i]] # {} /\ cov[d[i]] \subseteq Int
              /\ \A x \in Int : x \in cov[d[i]] <=> x \in rng[n] /\ Slot(s, x, i - 1)
  BY <1>2, <1>3, <1>7 DEF Shape, InnerOK, KidOK
<1>19. PICK y \in rng[n] : y \in Int /\ y < up
  <2>1. 1 \in 1 .. NENT + 1
    BY <1>5
  <2>2. PICK y \in Int : y \in rng[n] /\ Slot(s, y, 1 - 1)
    BY <1>18, <2>1
  <2>3. y < s[1]
    <3>1. Slot(s, y, 0) /\ 0 < Len(s)
      BY <1>5, <1>7, <2>2
    <3> QED
      BY <3>1 DEF Slot
  <2>4. s[1] < s[h] /\ s[1] \in Int
    BY <1>5, <1>7, <1>8 DEF Ascending
  <2> QED
    BY <1>7, <1>8, <2>2, <2>3, <2>4
<1>20. up \in rng[n]
  <2>1. h + 1 \in 1 .. NENT + 1 /\ (h + 1) - 1 = h
    BY <1>5
  <2>2. PICK z \in Int : z \in rng[n] /\ Slot(s, z, h)
    <3>1. PICK z \in cov[d[h + 1]] : z \in Int
      BY <1>18, <2>1
    <3> QED
      BY <1>18, <2>1, <3>1
  <2>3. up <= z
    BY <1>5, <1>7, <2>2 DEF Slot
  <2>4. Convex(rng[n])
    BY DEF Shape, Ranges
  <2> QED
    BY <1>8, <1>19, <2>2, <2>3, <2>4 DEF Convex
<1>21. /\ Nodes(t2) = Nodes(t) \union {q} /\ ~(q \in Nodes(t))
       /\ Ranges(t2, lev2, rng2) /\ IsCut(t, lev, rng, n, up, q, lev2, rng2)
  <2>1. Ranges(t, lev, rng) /\ Len(t2.node) = Len(t.node) + 1
    BY <1>17 DEF Shape
  <2> QED
    BY <1>1, <1>8, <1>17, <1>19, <1>20, <2>1, CutFacts, SMTT(20)
<1>22. /\ lev2[q] = lev[n] /\ (\A m \in Nodes(t) : lev2[m] = lev[m])
       /\ (\A m \in Nodes(t) : m # n => rng2[m] = rng[m])
       /\ (\A x \in Int : x \in rng2[n] <=> x \in rng[n] /\ x < up)
       /\ (\A x \in Int : x \in rng2[q] <=> x \in rng[n] /\ up <= x)
       /\ up \in rng2[q]
  BY <1>21 DEF IsCut
<1>23. /\ cov2 \in [Nodes(t2) -> SUBSET Int] /\ cov2[q] = {}
       /\ \A m \in Nodes(t) : cov2[m] = cov[m]
  <2>1. Nodes(t2) = 1 .. Len(t.node) + 1 /\ q \in Nodes(t2)
    BY <1>17, <1>21 DEF Nodes
  <2>2. cov \in [Nodes(t) -> SUBSET Int]
    BY DEF Shape
  <2>3. cov2 = [m \in Nodes(t2) |-> IF m = q THEN {} ELSE cov[m]]
    BY <2>1 DEF CovNew
  <2>4. \A m \in Nodes(t2) : (IF m = q THEN {} ELSE cov[m]) \in SUBSET Int
    BY <1>21, <2>2
  <2> QED
    BY <1>21, <2>1, <2>3, <2>4
<1>24. InnerOK(t2, lev2, rng2, cov2, n)
  <2>1. InnerKeys(t2.node[n])
    <3>1. Ascending(sL)
      BY <1>0, <1>5, <1>7 DEF Ascending
    <3> QED
      BY <1>0, <1>5, <1>17, <3>1 DEF InnerKeys
  <2>2. ASSUME NEW i \in 1 .. h PROVE KidOK(t2, lev2, rng2, cov2, n, i)
    <3>1. i \in 1 .. NENT + 1 /\ i - 1 \in 0 .. h - 1
      BY <1>5
    <3>2. PICK c : c = d[i] /\ c = t2.node[n].kids[i]
      BY <1>0, <1>17
    <3>3. sL \in Seq(Int)
      BY <1>13, KeySeq, Zenon
    <3>4. c \in Nodes(t) /\ lev[c] + 1 = lev[n] /\ cov[c] # {}
      BY <1>18, <3>1, <3>2
    <3>5. \A x \in Int : x \in cov[c] <=> x \in rng[n] /\ Slot(s, x, i - 1)
      BY <1>18, <3>1, <3>2
    <3>6. ASSUME NEW x \in Int PROVE x \in cov[c] <=> x \in rng2[n] /\ Slot(sL, x, i - 1)
      <4>1. Slot(s, x, i - 1) <=> Slot(sL, x, i - 1) /\ x < up
        BY <1>7, <1>8, <1>13, <3>1, <3>3, SlotLow
      <4>2. x \in rng2[n] <=> x \in rng[n] /\ x < up
        BY <1>22
      <4> QED
        BY <3>5, <4>1, <4>2, Zenon
    <3>7. c \in Nodes(t2) /\ lev2[c] + 1 = lev2[n] /\ cov2[c] = cov[c]
      BY <1>21, <1>22, <1>23, <3>4
    <3> QED
      BY <1>17, <3>2, <3>4, <3>6, <3>7 DEF KidOK
  <2> QED
    BY <1>0, <1>17, <2>1, <2>2 DEF InnerOK
<1>25. InnerOK(t2, lev2, rng2, cov2, q)
  <2>1. InnerKeys(t2.node[q])
    <3>1. Ascending(sR)
      <4>1. ASSUME NEW i \in 1 .. NENT - h, NEW j \in 1 .. NENT - h, i < j PROVE sR[i] < sR[j]
        <5>1. h + i \in 1 .. NENT /\ h + j \in 1 .. NENT /\ h + i < h + j
          BY <1>5, <4>1
        <5>2. sR[i] = s[h + i] /\ sR[j] = s[h + j]
          BY <1>0
        <5> QED
          BY <1>7, <5>1, <5>2 DEF Ascending
      <4> QED
        BY <1>0, <4>1 DEF Ascending
    <3> QED
      BY <1>0, <1>5, <1>17, <3>1 DEF InnerKeys
  <2>2. ASSUME NEW i \in 1 .. (NENT - h) + 1 PROVE KidOK(t2, lev2, rng2, cov2, q, i)
    <3>1. PICK j : j = h + (i - 1)
      OBVIOUS
    <3>2. h + i \in 1 .. NENT + 1 /\ i - 1 \in 0 .. Len(s) - h /\ (h + i) - 1 = j
      BY <1>5, <1>7, <3>1
    <3>3. PICK c : c = d[h + i] /\ c = t2.node[q].kids[i]
      BY <1>0, <1>17
    <3>4. sR \in Seq(Int)
      BY <1>14, KeySeq, Zenon
    <3>5. c \in Nodes(t) /\ lev[c] + 1 = lev[n] /\ cov[c] # {}
      BY <1>18, <3>2, <3>3
    <3>6. \A x \in Int : x \in cov[c] <=> x \in rng[n] /\ Slot(s, x, j)
      BY <1>18, <3>2, <3>3
    <3>7. ASSUME NEW x \in Int PROVE x \in cov[c] <=> x \in rng2[q] /\ Slot(sR, x, i - 1)
      <4>1. Slot(s, x, j) <=> Slot(sR, x, i - 1) /\ up <= x
        <5>1. Slot(s, x, j) <=> Slot(sR, x, i - 1) /\ s[h] <= x
          BY <1>7, <1>8, <1>14, <3>1, <3>2, <3>4, SlotHigh, Zenon
        <5> QED
          BY <1>7, <5>1
      <4>2. x \in rng2[q] <=> x \in rng[n] /\ up <= x
        BY <1>22
      <4> QED
        BY <3>6, <4>1, <4>2, Zenon
    <3>8. c \in Nodes(t2) /\ lev2[c] + 1 = lev2[q] /\ cov2[c] = cov[c]
      BY <1>21, <1>22, <1>23, <3>5
    <3> QED
      BY <1>17, <3>3, <3>5, <3>7, <3>8 DEF KidOK
  <2> QED
    BY <1>0, <1>17, <2>1, <2>2 DEF InnerOK
<1>26. Extends(t, lev, t2, lev2)
  BY <1>21, <1>22 DEF Extends
<1>27. ASSUME NEW m \in Nodes(t), lev[m] > 0, m # n PROVE InnerOK(t2, lev2, rng2, cov2, m)
  <2>1. \A i \in 1 .. Len(t.node[m].kids) : t.node[m].kids[i] \in Nodes(t)
    BY <1>27 DEF Shape, InnerOK, KidOK
  <2>2. SameInner(t, rng, cov, t2, rng2, cov2, m)
    BY <1>17, <1>22, <1>23, <1>27, <2>1 DEF SameInner
  <2> QED
    BY <1>26, <1>27, <2>2, InnerKept
<1>28. ASSUME NEW m \in Nodes(t), lev[m] = 0 PROVE LeafOK(t2, lev2, rng2, m)
  <2>1. SameLeaves(t, lev, rng, t2, rng2)
    BY <1>17, <1>22 DEF SameLeaves
  <2> QED
    BY <1>26, <1>28, <2>1, LeavesKept
<1>29. Shape(t2, lev2, rng2, cov2)
  <2>1. t2.root \in Nodes(t2) /\ lev2[t2.root] = t2.depth /\ cov2[t2.root] = Int
    BY <1>17, <1>21, <1>22, <1>23 DEF Shape
  <2>2. \A m \in Nodes(t2) : lev2[m] = 0 => LeafOK(t2, lev2, rng2, m)
    BY <1>21, <1>22, <1>28
  <2>3. \A m \in Nodes(t2) : lev2[m] > 0 => InnerOK(t2, lev2, rng2, cov2, m)
    BY <1>21, <1>22, <1>24, <1>25, <1>27, SMTT(20)
  <2> QED
    BY <1>17, <1>21, <1>23, <2>1, <2>2, <2>3 DEF Shape
<1>30. Pending(lev2, rng2, cov2, n, q, up)
  <2>1. rng2[n] \subseteq Int /\ rng2[q] \subseteq Int
    BY <1>21 DEF Ranges
  <2>2. \A x \in Int : x < up \/ up <= x
    BY <1>8
  <2>3. \A x \in Int : x \in cov2[n] <=> x \in rng2[n] \/ x \in rng2[q]
    BY <1>22, <1>23, <2>2
  <2> QED
    BY <1>21, <1>22, <1>23, <2>1, <2>3 DEF Pending
<1> QED
  BY <1>0, <1>3, <1>4, <1>8, <1>17, <1>21, <1>29, <1>30 DEF Keeps, HasHalves

\* A child that was split off alone starts an inner node of its own.
LEMMA Lone ==
  ASSUME NEW t, NEW lev, NEW rng, NEW cov, Shape(t, lev, rng, cov),
         NEW c, NEW new, NEW up, NEW n, NEW k, Waits(t, lev, rng, cov, c, new, up, n, k),
         \A x \in Int : up <= x => x \in rng[new], cov[n] = rng[n],
         NEW t2, t2 = NewNode(t, InnerNode(<< >>, << new >>)), NEW q, q = Len(t.node) + 1,
         NEW lev2, lev2 = LevNew(t, lev, n), NEW rng2, rng2 = RngCut(t, rng, n, up),
         NEW cov2, cov2 = CovNew(t, CovTaken(rng, cov, c, new))
  PROVE  /\ Shape(t2, lev2, rng2, cov2) /\ Pending(lev2, rng2, cov2, n, q, up)
         /\ Len(t2.node) = q /\ Keeps(t, NULL, t2)
         /\ IsCut(t, lev, rng, n, up, q, lev2, rng2)
<1>u. /\ c \in Nodes(t) /\ new \in Nodes(t) /\ up \in Keys /\ Pending(lev, rng, cov, c, new, up)
      /\ n \in Nodes(t) /\ lev[n] > 0 /\ k \in 0 .. Len(t.node[n].keys) /\ t.node[n].kids[k + 1] = c
      /\ cov2 = CovNew(t, [cov EXCEPT ![c] = rng[c], ![new] = rng[new]])
  BY DEF Waits, CovTaken
<1> USE <1>u
<1>1. InnerKeys(t.node[n]) /\ t \in TreeType /\ Ranges(t, lev, rng)
  BY DEF Shape, InnerOK
<1>2. PICK s : s = t.node[n].keys
  OBVIOUS
<1>3. PICK d : d = t.node[n].kids
  OBVIOUS
<1>4. s \in Seq(Keys) /\ d \in Seq(Nat)
  BY <1>1, <1>2, <1>3, NodeFields
<1>5. s \in Seq(Int) /\ Len(s) \in Nat /\ up \in Int
  BY <1>4, KeySeq, ConstantFacts
<1>6. Ascending(s) /\ Len(d) = Len(s) + 1 /\ k \in 0 .. Len(s) /\ d[k + 1] = c
  BY <1>1, <1>2, <1>3 DEF InnerKeys
<1>7. k + 1 \in 1 .. Len(d) /\ (k + 1) - 1 = k
  BY <1>5, <1>6
<1>8. ASSUME NEW i \in 1 .. Len(d)
      PROVE  /\ d[i] \in Nodes(t) /\ lev[d[i]] + 1 = lev[n] /\ cov[d[i]] # {}
             /\ \A x \in Int : x \in cov[d[i]] <=> x \in rng[n] /\ Slot(s, x, i - 1)
  BY <1>2, <1>3 DEF Shape, InnerOK, KidOK
<1>9. /\ lev[c] + 1 = lev[n] /\ lev[new] = lev[c]
      /\ \A x \in Int : x \in cov[c] <=> x \in rng[n] /\ Slot(s, x, k)
  BY <1>6, <1>7, <1>8 DEF Pending
<1>10. lev[n] \in Nat /\ lev[c] \in Nat /\ lev[t.root] \in Nat /\ lev[n] <= lev[t.root] /\ t.root \in Nodes(t)
  BY DEF Shape, Ranges
<1>11. n # c /\ n # new /\ t.root # c /\ t.root # new
  BY <1>9, <1>10
<1>12. /\ (\A x \in Int : x \in rng[c] <=> x \in cov[c] /\ x < up)
       /\ (\A x \in Int : x \in rng[new] <=> up <= x)
       /\ \A x \in Int : up <= x => x \in cov[c]
  <2>1. \A x \in Int : x \in rng[new] <=> up <= x
    BY DEF Pending
  <2>2. \A x \in Int : ~(x < up) <=> up <= x
    BY <1>5
  <2> QED
    BY <2>1, <2>2 DEF Pending
<1>13. up \in rng[n]
  BY <1>5, <1>9, <1>12
<1>14. PICK y \in rng[n] : y < up
  <2>1. PICK y \in rng[c] : y \in Int
    BY <1>1 DEF Ranges
  <2> QED
    BY <1>9, <1>12, <2>1
<1>0. rng[c] # {} /\ rng[new] # {}
  BY <1>1 DEF Ranges
<1>15. PICK f : f = InnerNode(<< >>, << new >>)
  OBVIOUS
<1>16. f \in NodeType /\ f.keys = << >> /\ f.kids = << new >>
  <2>1. << >> \in Seq(Keys) /\ << new >> \in Seq(Nat)
    BY <1>1, NodeFields
  <2> QED
    BY <1>15, <2>1, InnerNodeIs
<1>17. /\ t2 \in TreeType /\ Len(t2.node) = q /\ t2.root = t.root /\ t2.depth = t.depth
       /\ t2.node[q].keys = << >> /\ t2.node[q].kids = << new >>
       /\ \A m \in Nodes(t) : t2.node[m] = t.node[m]
  BY <1>1, <1>15, <1>16, NewNodeIs
<1>18. /\ Nodes(t2) = Nodes(t) \union {q} /\ ~(q \in Nodes(t))
       /\ Ranges(t2, lev2, rng2) /\ IsCut(t, lev, rng, n, up, q, lev2, rng2)
  <2>1. Len(t2.node) = Len(t.node) + 1
    BY <1>17
  <2>2. t2.depth = t.depth /\ t \in TreeType /\ Ranges(t, lev, rng)
    BY <1>1, <1>17
  <2> QED
    BY <1>5, <1>13, <1>14, <2>1, <2>2, CutFacts, SMTT(20)
<1>19. /\ lev2[q] = lev[n] /\ (\A m \in Nodes(t) : lev2[m] = lev[m])
       /\ (\A m \in Nodes(t) : m # n => rng2[m] = rng[m])
       /\ (\A x \in Int : x \in rng2[n] <=> x \in rng[n] /\ x < up)
       /\ (\A x \in Int : x \in rng2[q] <=> x \in rng[n] /\ up <= x)
       /\ up \in rng2[q]
  BY <1>18 DEF IsCut
<1>20. /\ cov2 \in [Nodes(t2) -> SUBSET Int] /\ cov2[q] = {} /\ cov2[c] = rng[c] /\ cov2[new] = rng[new]
       /\ \A m \in Nodes(t) : m # c /\ m # new => cov2[m] = cov[m]
  <2>1. Nodes(t2) = 1 .. Len(t.node) + 1 /\ q \in Nodes(t2)
    BY <1>17, <1>18 DEF Nodes
  <2>2. PICK e : e = [cov EXCEPT ![c] = rng[c], ![new] = rng[new]]
    OBVIOUS
  <2>3. /\ e \in [Nodes(t) -> SUBSET Int] /\ e[c] = rng[c] /\ e[new] = rng[new]
        /\ \A m \in Nodes(t) : m # c /\ m # new => e[m] = cov[m]
    BY <2>2 DEF Shape, Ranges, Pending
  <2>4. cov2 = [m \in Nodes(t2) |-> IF m = q THEN {} ELSE e[m]]
    BY <2>1, <2>2 DEF CovNew
  <2>5. \A m \in Nodes(t2) : (IF m = q THEN {} ELSE e[m]) \in SUBSET Int
    BY <1>18, <2>3
  <2> QED
    BY <1>18, <2>1, <2>3, <2>4, <2>5
<1>21. ASSUME NEW m \in Nodes(t), lev[m] > 0, NEW i \in 1 .. Len(t.node[m].kids), m # n \/ i # k + 1
       PROVE  t.node[m].kids[i] \in Nodes(t) /\ cov2[t.node[m].kids[i]] = cov[t.node[m].kids[i]]
  <2>1. PICK g : g = t.node[m].kids[i]
    OBVIOUS
  <2>2. g \in Nodes(t) /\ cov[g] # {}
    BY <1>21, <2>1 DEF Shape, InnerOK, KidOK
  <2>3. g # new
    BY <2>2 DEF Pending
  <2>4. k + 1 \in 1 .. Len(t.node[n].kids)
    BY <1>3, <1>7
  <2>5. g # c
    BY <1>21, <2>1, <2>4, KidUnique, SMTT(20)
  <2> QED
    BY <1>20, <2>1, <2>2, <2>3, <2>5
<1>22. ASSUME NEW i \in 1 .. Len(d) PROVE KidOK(t2, lev2, rng2, cov2, n, i)
  <2>1. PICK g : g = d[i] /\ g = t2.node[n].kids[i]
    BY <1>3, <1>17
  <2>2. g \in Nodes(t) /\ lev[g] + 1 = lev[n] /\ cov[g] # {}
    BY <1>8, <2>1
  <2>3. g \in Nodes(t2) /\ lev2[g] + 1 = lev2[n]
    BY <1>18, <1>19, <2>2
  <2>4. cov2[g] # {}
    <3>1. CASE i = k + 1
      BY <1>0, <1>6, <1>20, <2>1, <3>1
    <3>2. CASE i # k + 1
      BY <1>3, <1>21, <2>1, <2>2, <3>2
    <3> QED
      BY <3>1, <3>2
  <2>5. ASSUME NEW x \in Int PROVE x \in cov2[g] <=> x \in rng2[n] /\ Slot(s, x, i - 1)
    <3>1. x \in rng2[n] <=> x \in rng[n] /\ x < up
      BY <1>19
    <3>2. CASE i = k + 1
      BY <1>6, <1>7, <1>9, <1>12, <1>20, <2>1, <3>1, <3>2
    <3>3. CASE i # k + 1
      <4>1. cov2[g] = cov[g]
        BY <1>3, <1>21, <2>1, <3>3
      <4>2. x \in cov[g] <=> x \in rng[n] /\ Slot(s, x, i - 1)
        BY <1>8, <2>1
      <4>3. i - 1 \in 0 .. Len(s) /\ i - 1 # k
        BY <1>5, <1>6, <3>3
      <4>4. Slot(s, x, i - 1) => ~Slot(s, x, k)
        BY <1>5, <1>6, <4>3, SlotUnique
      <4>5. up <= x => Slot(s, x, k)
        BY <1>9, <1>12
      <4>6. x < up \/ up <= x
        BY <1>5
      <4> QED
        BY <3>1, <4>1, <4>2, <4>4, <4>5, <4>6, Zenon
    <3> QED
      BY <3>2, <3>3
  <2> QED
    BY <1>2, <1>17, <2>1, <2>3, <2>4, <2>5 DEF KidOK
<1>23. InnerOK(t2, lev2, rng2, cov2, n)
  BY <1>1, <1>3, <1>17, <1>22 DEF InnerOK
<1>24. InnerOK(t2, lev2, rng2, cov2, q)
  <2>0. Len(<< >>) = 0 /\ Len(<< new >>) = 1
    OBVIOUS
  <2>2. Len(t2.node[q].kids) = 1 /\ t2.node[q].kids[1] = new /\ Len(t2.node[q].keys) = 0
    BY <1>17, <2>0
  <2>1. InnerKeys(t2.node[q])
    <3>1. Ascending(t2.node[q].keys)
      BY <2>2 DEF Ascending
    <3>2. 0 <= NENT /\ 0 + 1 = 1
      BY ConstantFacts
    <3> QED
      BY <2>2, <3>1, <3>2, Zenon DEF InnerKeys
  <2>3. \A x \in Int : Slot(t2.node[q].keys, x, 1 - 1)
    BY <1>17 DEF Slot
  <2>4. ASSUME NEW x \in Int PROVE x \in rng[new] <=> x \in rng2[q]
    BY <1>9, <1>12, <1>19
  <2>5. new \in Nodes(t2) /\ lev2[new] + 1 = lev2[q] /\ cov2[new] = rng[new] /\ rng[new] # {}
    BY <1>0, <1>9, <1>18, <1>19, <1>20
  <2>6. KidOK(t2, lev2, rng2, cov2, q, 1)
    BY <2>2, <2>3, <2>4, <2>5 DEF KidOK
  <2>7. \A i \in 1 .. 1 : i = 1
    OBVIOUS
  <2> QED
    BY <2>1, <2>2, <2>6, <2>7, Zenon DEF InnerOK
<1>25. Extends(t, lev, t2, lev2)
  BY <1>18, <1>19 DEF Extends
<1>26. ASSUME NEW m \in Nodes(t), lev[m] > 0, m # n PROVE InnerOK(t2, lev2, rng2, cov2, m)
  <2>1. SameInner(t, rng, cov, t2, rng2, cov2, m)
    BY <1>17, <1>19, <1>21, <1>26 DEF SameInner
  <2> QED
    BY <1>25, <1>26, <2>1, InnerKept
<1>27. ASSUME NEW m \in Nodes(t), lev[m] = 0 PROVE LeafOK(t2, lev2, rng2, m)
  <2>1. SameLeaves(t, lev, rng, t2, rng2)
    BY <1>17, <1>19 DEF SameLeaves
  <2> QED
    BY <1>25, <1>27, <2>1, LeavesKept
<1>28. Shape(t2, lev2, rng2, cov2)
  <2>1. t2.root \in Nodes(t2) /\ lev2[t2.root] = t2.depth /\ cov2[t2.root] = Int
    <3>1. lev[t.root] = t.depth /\ cov[t.root] = Int
      BY DEF Shape
    <3>2. cov2[t.root] = cov[t.root] /\ lev2[t.root] = lev[t.root] /\ t.root \in Nodes(t2)
      BY <1>10, <1>11, <1>18, <1>19, <1>20
    <3> QED
      BY <1>17, <3>1, <3>2, Zenon
  <2>2. \A m \in Nodes(t2) : lev2[m] = 0 => LeafOK(t2, lev2, rng2, m)
    BY <1>18, <1>19, <1>27
  <2>3. \A m \in Nodes(t2) : lev2[m] > 0 => InnerOK(t2, lev2, rng2, cov2, m)
    BY <1>18, <1>19, <1>23, <1>24, <1>26
  <2> QED
    BY <1>17, <1>18, <1>20, <2>1, <2>2, <2>3 DEF Shape
<1>29. Pending(lev2, rng2, cov2, n, q, up)
  <2>1. rng2[n] \subseteq Int /\ rng2[q] \subseteq Int
    BY <1>18 DEF Ranges
  <2>2. \A x \in Int : x < up \/ up <= x
    BY <1>5
  <2>3. \A x \in Int : x \in cov2[n] <=> x \in rng2[n] \/ x \in rng2[q]
    BY <1>11, <1>19, <1>20, <2>2
  <2> QED
    BY <1>18, <1>19, <1>20, <2>1, <2>3 DEF Pending
<1> QED
  BY <1>17, <1>18, <1>28, <1>29 DEF Keeps

\* The root was split: a new root has the old one and its sibling below it.
LevTop(t, lev) ==
  [m \in 1 .. Len(t.node) + 1 |-> IF m = Len(t.node) + 1 THEN t.depth + 1 ELSE lev[m]]
RngTop(t, rng) ==
  [m \in 1 .. Len(t.node) + 1 |-> IF m = Len(t.node) + 1 THEN Int ELSE rng[m]]

AllStay(t, lev, rng, t2, lev2, rng2) ==
  \A m \in Nodes(t) : t2.node[m] = t.node[m] /\ lev2[m] = lev[m] /\ rng2[m] = rng[m]

\* The nodes m of t other than c and new have settled ranges.
Settled(t, rng, cov, c, new) == \A m \in Nodes(t) : m # c /\ m # new => cov[m] = rng[m]

\* t2 is t under a new root.
IsTop(t, new, up, t2) ==
  t2 = [node |-> Append(t.node, InnerNode(<< up >>, << t.root, new >>)),
        root |-> Len(t.node) + 1, depth |-> t.depth + 1]

LEMMA RootGrows ==
  ASSUME NEW t, NEW lev, NEW rng, NEW cov, Shape(t, lev, rng, cov),
         NEW new \in Nodes(t), NEW up \in Keys, Pending(lev, rng, cov, t.root, new, up),
         Settled(t, rng, cov, t.root, new),
         NEW t2, IsTop(t, new, up, t2), NEW q, q = Len(t.node) + 1,
         NEW lev2, lev2 = LevTop(t, lev), NEW rng2, rng2 = RngTop(t, rng)
  PROVE  /\ Shape(t2, lev2, rng2, rng2)
         /\ Nodes(t2) = Nodes(t) \union {q} /\ ~(q \in Nodes(t)) /\ lev2[q] > 0
         /\ AllStay(t, lev, rng, t2, lev2, rng2)
<1>0. \A m \in Nodes(t) : m # t.root /\ m # new => cov[m] = rng[m]
  BY DEF Settled
<1> USE <1>0
<1>1. /\ t \in TreeType /\ Ranges(t, lev, rng)
      /\ t.root \in Nodes(t) /\ lev[t.root] = t.depth /\ cov[t.root] = Int
  BY DEF Shape
<1>2. t.node \in Seq(NodeType) /\ t.depth \in Nat /\ Len(t.node) \in Nat
  BY <1>1, NodeFields
<1>3. lev \in [Nodes(t) -> Nat] /\ rng \in [Nodes(t) -> SUBSET Int]
  BY <1>1 DEF Ranges
<1>4. up \in Int
  BY ConstantFacts
<1>5. PICK f : f = InnerNode(<< up >>, << t.root, new >>)
  OBVIOUS
<1>6. f \in NodeType /\ f.keys = << up >> /\ f.kids = << t.root, new >>
  <2>1. << up >> \in Seq(Keys) /\ << t.root, new >> \in Seq(Nat)
    BY <1>1, NodeFields
  <2> QED
    BY <1>5, <2>1, InnerNodeIs
<1>7. PICK s : s = Append(t.node, f)
  OBVIOUS
<1>8. s \in Seq(NodeType) /\ Len(s) = q /\ s[q] = f /\ \A m \in Nodes(t) : s[m] = t.node[m]
  BY <1>2, <1>6, <1>7 DEF Nodes
<1>9. t2 \in TreeType /\ t2.node = s /\ t2.root = q /\ t2.depth = t.depth + 1
  <2>1. t2 = [node |-> s, root |-> q, depth |-> t.depth + 1]
    BY <1>5, <1>7 DEF IsTop
  <2> QED
    BY <1>2, <1>8, <2>1 DEF TreeType
<1>10. Nodes(t2) = Nodes(t) \union {q} /\ ~(q \in Nodes(t)) /\ Nodes(t2) = 1 .. Len(t.node) + 1 /\ q \in Nodes(t2)
  BY <1>2, <1>8, <1>9 DEF Nodes
<1>11. lev2 \in [Nodes(t2) -> Nat] /\ lev2[q] = t.depth + 1 /\ \A m \in Nodes(t) : lev2[m] = lev[m]
  <2>1. lev2 = [m \in Nodes(t2) |-> IF m = q THEN t.depth + 1 ELSE lev[m]]
    BY <1>10 DEF LevTop
  <2>2. \A m \in Nodes(t2) : (IF m = q THEN t.depth + 1 ELSE lev[m]) \in Nat
    <3>1. t.depth + 1 \in Nat /\ \A m \in Nodes(t) : lev[m] \in Nat
      BY <1>2, <1>3
    <3> QED
      BY <1>10, <3>1, Zenon
  <2> QED
    BY <1>10, <2>1, <2>2
<1>12. rng2 \in [Nodes(t2) -> SUBSET Int] /\ rng2[q] = Int /\ \A m \in Nodes(t) : rng2[m] = rng[m]
  <2>1. rng2 = [m \in Nodes(t2) |-> IF m = q THEN Int ELSE rng[m]]
    BY <1>10 DEF RngTop
  <2>2. \A m \in Nodes(t2) : (IF m = q THEN Int ELSE rng[m]) \in SUBSET Int
    BY <1>3, <1>10
  <2> QED
    BY <1>10, <2>1, <2>2
<1>13. Ranges(t2, lev2, rng2)
  <2>1. ASSUME NEW m \in Nodes(t2) PROVE lev2[m] <= t2.depth /\ rng2[m] # {} /\ Convex(rng2[m])
    <3>1. CASE m = q
      BY <1>2, <1>9, <1>11, <1>12, <3>1 DEF Convex
    <3>2. CASE m # q
      <4>1. m \in Nodes(t) /\ lev[m] <= t.depth /\ rng[m] # {} /\ Convex(rng[m]) /\ lev[m] \in Nat
        BY <1>1, <1>3, <1>10, <3>2 DEF Ranges
      <4>2. lev2[m] = lev[m] /\ rng2[m] = rng[m]
        BY <1>11, <1>12, <4>1
      <4> QED
        BY <1>2, <1>9, <4>1, <4>2
    <3> QED
      BY <3>1, <3>2
  <2>2. ASSUME NEW a \in Nodes(t2), NEW b \in Nodes(t2), lev2[a] = lev2[b], a # b, NEW x \in rng2[a]
        PROVE  ~(x \in rng2[b])
    <3>1. \A m \in Nodes(t) : lev2[m] # lev2[q]
      <4>1. \A m \in Nodes(t) : lev[m] <= t.depth /\ lev[m] \in Nat
        BY <1>1, <1>3 DEF Ranges
      <4>2. \A m \in Nodes(t) : lev[m] # t.depth + 1
        BY <1>2, <4>1
      <4> QED
        BY <1>11, <4>2, Zenon
    <3>2. a \in Nodes(t) /\ b \in Nodes(t)
      BY <1>10, <2>2, <3>1
    <3> QED
      BY <1>1, <1>11, <1>12, <2>2, <3>2 DEF Ranges
  <2> QED
    BY <1>11, <1>12, <2>1, <2>2 DEF Ranges
<1>14. ASSUME NEW x \in Int PROVE (x \in rng[t.root] <=> x < up) /\ (x \in rng[new] <=> up <= x)
  <2>1. x \in rng[t.root] \/ x \in rng[new]
    BY <1>1 DEF Pending
  <2>2. (x \in rng[t.root] => x < up) /\ (x \in rng[new] => up <= x)
    BY DEF Pending
  <2>3. ~(x < up /\ up <= x)
    BY <1>4
  <2> QED
    BY <2>1, <2>2, <2>3
<1>15. InnerOK(t2, lev2, rng2, rng2, q)
  <2>1. PICK v : v = << up >>
    OBVIOUS
  <2>2. PICK e : e = << t.root, new >>
    OBVIOUS
  <2>3. Len(v) = 1 /\ v[1] = up /\ Len(e) = 2 /\ e[1] = t.root /\ e[2] = new
    BY <2>1, <2>2
  <2>4. t2.node[q].keys = v /\ t2.node[q].kids = e
    BY <1>6, <1>8, <1>9, <2>1, <2>2
  <2>5. InnerKeys(t2.node[q])
    <3>1. Ascending(v)
      BY <2>3 DEF Ascending
    <3>2. 1 <= NENT /\ 1 + 1 = 2
      BY ConstantFacts
    <3> QED
      BY <2>3, <2>4, <3>1, <3>2, Zenon DEF InnerKeys
  <2>6. \A x \in Int : Slot(v, x, 1 - 1) <=> x < up
    BY <2>3 DEF Slot
  <2>7. \A x \in Int : Slot(v, x, 2 - 1) <=> up <= x
    BY <2>3 DEF Slot
  <2>8. lev2[t.root] + 1 = lev2[q] /\ lev2[new] + 1 = lev2[q] /\ t.root \in Nodes(t2) /\ new \in Nodes(t2)
    BY <1>1, <1>10, <1>11 DEF Pending
  <2>9. rng2[t.root] = rng[t.root] /\ rng2[new] = rng[new] /\ rng[t.root] # {} /\ rng[new] # {}
    BY <1>1, <1>12 DEF Ranges
  <2>10. KidOK(t2, lev2, rng2, rng2, q, 1)
    <3>1. \A x \in Int : x \in rng2[t.root] <=> x \in rng2[q] /\ Slot(v, x, 1 - 1)
      BY <1>12, <1>14, <2>6, <2>9
    <3> QED
      BY <2>3, <2>4, <2>8, <2>9, <3>1, Zenon DEF KidOK
  <2>11. KidOK(t2, lev2, rng2, rng2, q, 2)
    <3>1. \A x \in Int : x \in rng2[new] <=> x \in rng2[q] /\ Slot(v, x, 2 - 1)
      BY <1>12, <1>14, <2>7, <2>9
    <3> QED
      BY <2>3, <2>4, <2>8, <2>9, <3>1, Zenon DEF KidOK
  <2>12. \A i \in 1 .. 2 : i = 1 \/ i = 2
    OBVIOUS
  <2> QED
    BY <2>3, <2>4, <2>5, <2>10, <2>11, <2>12, Zenon DEF InnerOK
<1>16. Extends(t, lev, t2, lev2)
  BY <1>10, <1>11 DEF Extends
<1>17. ASSUME NEW m \in Nodes(t), lev[m] > 0 PROVE InnerOK(t2, lev2, rng2, rng2, m)
  <2>1. ASSUME NEW i \in 1 .. Len(t.node[m].kids)
        PROVE  rng2[t.node[m].kids[i]] = cov[t.node[m].kids[i]]
    <3>1. PICK g : g = t.node[m].kids[i]
      OBVIOUS
    <3>2. g \in Nodes(t) /\ cov[g] # {} /\ lev[g] + 1 = lev[m]
      BY <1>17, <3>1 DEF Shape, InnerOK, KidOK
    <3>3. g # new
      BY <3>2 DEF Pending
    <3>4. lev[m] <= t.depth /\ lev[m] \in Nat /\ lev[g] \in Nat
      BY <1>1, <1>3, <3>2 DEF Ranges
    <3>5. g # t.root
      BY <1>1, <1>2, <3>2, <3>4
    <3> QED
      BY <1>12, <3>1, <3>2, <3>3, <3>5
  <2>2. SameInner(t, rng, cov, t2, rng2, rng2, m)
    BY <1>8, <1>9, <1>12, <2>1 DEF SameInner
  <2> QED
    BY <1>16, <1>17, <2>2, InnerKept
<1>18. ASSUME NEW m \in Nodes(t), lev[m] = 0 PROVE LeafOK(t2, lev2, rng2, m)
  <2>1. SameLeaves(t, lev, rng, t2, rng2)
    BY <1>8, <1>9, <1>12 DEF SameLeaves
  <2> QED
    BY <1>16, <1>18, <2>1, LeavesKept
<1>19. lev2[q] > 0
  BY <1>2, <1>11
<1>20. Shape(t2, lev2, rng2, rng2)
  <2>1. \A m \in Nodes(t2) : lev2[m] = 0 => LeafOK(t2, lev2, rng2, m)
    <3>1. ~(lev2[q] = 0)
      BY <1>2, <1>11
    <3> QED
      BY <1>10, <1>11, <1>18, <3>1, Zenon
  <2>2. \A m \in Nodes(t2) : lev2[m] > 0 => InnerOK(t2, lev2, rng2, rng2, m)
    <3>1. ASSUME NEW m \in Nodes(t2), lev2[m] > 0 PROVE InnerOK(t2, lev2, rng2, rng2, m)
      BY <1>10, <1>11, <1>15, <1>17, <3>1
    <3> QED
      BY <3>1, Zenon
  <2>3. t2.root \in Nodes(t2) /\ lev2[t2.root] = t2.depth /\ rng2[t2.root] = Int
    BY <1>9, <1>10, <1>11, <1>12, Zenon
  <2> QED
    BY <1>9, <1>12, <1>13, <2>1, <2>2, <2>3 DEF Shape
<1> QED
  BY <1>8, <1>9, <1>10, <1>11, <1>12, <1>19, <1>20 DEF AllStay
-----------------------------------------------------------------------------
(* Leaves                                                                  *)
-----------------------------------------------------------------------------
\* The key finds room in its leaf.
LEMMA LeafGrows ==
  ASSUME NEW t, NEW lev, NEW rng, NEW cov, Shape(t, lev, rng, cov),
         NEW l \in Nodes(t), lev[l] = 0, NEW f \in NodeType, LeafKeys(f, rng[l]),
         f.left = t.node[l].left, f.right = t.node[l].right, NEW t2, t2 = SetNode(t, l, f)
  PROVE  /\ Shape(t2, lev, rng, cov) /\ t2.node[l] = f /\ Nodes(t2) = Nodes(t)
         /\ t2.root = t.root /\ t2.depth = t.depth
         /\ \A m \in Nodes(t) : m # l => t2.node[m] = t.node[m]
<1>1. t \in TreeType /\ Ranges(t, lev, rng)
  BY DEF Shape
<1>2. /\ t2 \in TreeType /\ Len(t2.node) = Len(t.node) /\ t2.root = t.root /\ t2.depth = t.depth
      /\ t2.node[l] = f /\ \A m \in Nodes(t) : m # l => t2.node[m] = t.node[m]
  BY <1>1, SetNodeIs
<1>3. Nodes(t2) = Nodes(t)
  BY <1>2 DEF Nodes
<1>4. Extends(t, lev, t2, lev)
  BY <1>3 DEF Extends
<1>5. ASSUME NEW m \in Nodes(t), lev[m] > 0 PROVE InnerOK(t2, lev, rng, cov, m)
  <2>1. m # l
    BY <1>5
  <2>2. SameInner(t, rng, cov, t2, rng, cov, m)
    BY <1>2, <2>1 DEF SameInner
  <2> QED
    BY <1>4, <1>5, <2>2, InnerKept
<1>6. \A m \in Nodes(t) : t2.node[m].left = t.node[m].left /\ t2.node[m].right = t.node[m].right
  BY <1>2
<1>7. ASSUME NEW m \in Nodes(t), lev[m] = 0 PROVE LeafOK(t2, lev, rng, m)
  <2>1. LeafKeys(t.node[m], rng[m]) /\ LeafLinks(t, lev, rng, m)
    BY <1>7 DEF Shape, LeafOK
  <2>2. LeafKeys(t2.node[m], rng[m])
    BY <1>2, <2>1
  <2>3. LeafLinks(t2, lev, rng, m)
    BY <1>3, <1>6, <2>1 DEF LeafLinks
  <2> QED
    BY <2>2, <2>3 DEF LeafOK
<1>8. Ranges(t2, lev, rng)
  BY <1>1, <1>2, <1>3 DEF Ranges
<1>9. Shape(t2, lev, rng, cov)
  BY <1>2, <1>3, <1>5, <1>7, <1>8 DEF Shape
<1> QED
  BY <1>2, <1>3, <1>9

\* Nothing lies between a leaf and its neighbour.
LEMMA Neighbours ==
  ASSUME NEW t, NEW lev, NEW rng, NEW cov, Shape(t, lev, rng, cov),
         NEW l \in Nodes(t), lev[l] = 0, NEW r, r = t.node[l].right, r # NULL
  PROVE  /\ r \in Nodes(t) /\ lev[r] = 0 /\ t.node[r].left = l /\ r # l
         /\ Adjacent(rng[l], rng[r])
<1>1. r \in Nodes(t) /\ lev[r] = 0 /\ t.node[r].left = l /\ Adjacent(rng[l], rng[r])
  BY DEF Shape, LeafOK, LeafLinks
<1>2. rng[l] # {} /\ rng[l] \subseteq Int
  BY DEF Shape, Ranges
<1>3. r # l
  BY <1>1, <1>2 DEF Adjacent
<1> QED
  BY <1>1, <1>3

\* l was split at up: a stays, b is in the new leaf q before the right neighbour.
LeafIsSplit(t, l, up, q, t2) ==
  /\ t2 \in TreeType /\ Len(t2.node) = q /\ t2.root = t.root /\ t2.depth = t.depth
  /\ t2.node[l].kids = << >> /\ t2.node[l].left = t.node[l].left /\ t2.node[l].right = q
  /\ t2.node[q].kids = << >> /\ t2.node[q].left = l /\ t2.node[q].right = t.node[l].right
  /\ \A m \in Nodes(t) : m # l =>
       /\ t2.node[m].keys = t.node[m].keys /\ t2.node[m].kids = t.node[m].kids
       /\ t2.node[m].right = t.node[m].right /\ t2.node[m].seq = t.node[m].seq
  /\ \A m \in Nodes(t) : m # l /\ m # t.node[l].right => t2.node[m] = t.node[m]
  /\ t.node[l].right # NULL => t2.node[t.node[l].right].left = q

LowKeys(s, R, up) ==
  /\ Ascending(s) /\ 0 < Len(s) /\ Len(s) <= M
  /\ \A i \in 1 .. Len(s) : s[i] \in R /\ s[i] < up
HighKeys(s, R, up) ==
  /\ up = s[1] /\ Ascending(s) /\ 0 < Len(s) /\ Len(s) <= M
  /\ \A i \in 1 .. Len(s) : s[i] \in R /\ up <= s[i]

\* A is the part of R below up, B the rest.
CutAt(R, up, A, B) ==
  /\ R \subseteq Int /\ A \subseteq Int /\ B \subseteq Int /\ Convex(R)
  /\ \A x \in Int : x \in A <=> x \in R /\ x < up
  /\ \A x \in Int : x \in B <=> x \in R /\ up <= x

LEMMA CutSets ==
  ASSUME NEW R, NEW up \in Int, NEW A, NEW B, CutAt(R, up, A, B)
  PROVE  /\ Adjacent(A, B)
         /\ DownClosed(R) => DownClosed(A)
         /\ UpClosed(R) => UpClosed(B)
         /\ \A S \in SUBSET Int : Adjacent(R, S) => Adjacent(B, S)
         /\ \A S \in SUBSET Int : Adjacent(S, R) => Adjacent(S, A)
<1>1. ASSUME NEW x \in A PROVE x \in R /\ x < up /\ x \in Int
  BY DEF CutAt
<1>2. ASSUME NEW x \in B PROVE x \in R /\ up <= x /\ x \in Int
  BY DEF CutAt
<1>3. ASSUME NEW x \in R PROVE x \in Int /\ (x < up => x \in A) /\ (up <= x => x \in B)
  BY DEF CutAt
<1>4. Adjacent(A, B)
  <2>1. ASSUME NEW x \in A, NEW y \in B PROVE x < y
    BY <1>1, <1>2
  <2>2. ASSUME NEW x \in A, NEW y \in B, NEW z \in Int, x <= z, z <= y PROVE z \in A \/ z \in B
    <3>1. x \in R /\ y \in R
      BY <1>1, <1>2
    <3>2. z \in R
      BY <2>2, <3>1 DEF CutAt, Convex
    <3>3. z < up \/ up <= z
      OBVIOUS
    <3> QED
      BY <1>3, <3>2, <3>3
  <2> QED
    BY <2>1, <2>2 DEF Adjacent
<1>5. ASSUME DownClosed(R) PROVE DownClosed(A)
  <2>1. ASSUME NEW x \in A, NEW z \in Int, z <= x PROVE z \in A
    <3>1. x \in R /\ x < up /\ x \in Int
      BY <1>1
    <3>2. z \in R /\ z < up
      BY <1>5, <2>1, <3>1 DEF DownClosed
    <3> QED
      BY <1>3, <3>2
  <2> QED
    BY <2>1 DEF DownClosed
<1>6. ASSUME UpClosed(R) PROVE UpClosed(B)
  <2>1. ASSUME NEW x \in B, NEW z \in Int, x <= z PROVE z \in B
    <3>1. x \in R /\ up <= x /\ x \in Int
      BY <1>2
    <3>2. z \in R /\ up <= z
      BY <1>6, <2>1, <3>1 DEF UpClosed
    <3> QED
      BY <1>3, <3>2
  <2> QED
    BY <2>1 DEF UpClosed
<1>7. ASSUME NEW S \in SUBSET Int, Adjacent(R, S) PROVE Adjacent(B, S)
  <2>1. ASSUME NEW x \in B, NEW y \in S PROVE x < y
    BY <1>2, <1>7 DEF Adjacent
  <2>2. ASSUME NEW x \in B, NEW y \in S, NEW z \in Int, x <= z, z <= y PROVE z \in B \/ z \in S
    <3>1. x \in R /\ up <= x /\ x \in Int
      BY <1>2
    <3>2. z \in R \/ z \in S
      BY <1>7, <2>2, <3>1 DEF Adjacent
    <3>3. up <= z
      BY <2>2, <3>1
    <3> QED
      BY <1>3, <3>2, <3>3
  <2> QED
    BY <2>1, <2>2 DEF Adjacent
<1>8. ASSUME NEW S \in SUBSET Int, Adjacent(S, R) PROVE Adjacent(S, A)
  <2>1. ASSUME NEW x \in S, NEW y \in A PROVE x < y
    BY <1>1, <1>8 DEF Adjacent
  <2>2. ASSUME NEW x \in S, NEW y \in A, NEW z \in Int, x <= z, z <= y PROVE z \in S \/ z \in A
    <3>1. y \in R /\ y < up /\ y \in Int
      BY <1>1
    <3>2. z \in S \/ z \in R
      BY <1>8, <2>2, <3>1 DEF Adjacent
    <3>3. z < up
      BY <2>2, <3>1
    <3> QED
      BY <1>3, <3>2, <3>3
  <2> QED
    BY <2>1, <2>2 DEF Adjacent
<1> QED
  BY <1>4, <1>5, <1>6, <1>7, <1>8, Zenon

LEMMA LeafSplits ==
  ASSUME NEW t, NEW lev, NEW rng, NEW cov, Shape(t, lev, rng, cov),
         NEW l \in Nodes(t), lev[l] = 0, cov[l] = rng[l], NEW up \in Keys,
         NEW q, q = Len(t.node) + 1, NEW t2, LeafIsSplit(t, l, up, q, t2),
         NEW lev2, lev2 = LevNew(t, lev, l), NEW rng2, rng2 = RngCut(t, rng, l, up),
         NEW cov2, cov2 = CovNew(t, cov),
         LowKeys(t2.node[l].keys, rng[l], up), HighKeys(t2.node[q].keys, rng[l], up)
  PROVE  /\ Shape(t2, lev2, rng2, cov2) /\ Pending(lev2, rng2, cov2, l, q, up)
         /\ IsCut(t, lev, rng, l, up, q, lev2, rng2)
         /\ Nodes(t2) = Nodes(t) \union {q} /\ ~(q \in Nodes(t))
<1>1. t \in TreeType /\ Ranges(t, lev, rng) /\ up \in Int /\ rng[l] \subseteq Int
  BY ConstantFacts DEF Shape, Ranges
<1>2. PICK r : r = t.node[l].right
  OBVIOUS
<1>3. /\ t2 \in TreeType /\ Len(t2.node) = q /\ t2.root = t.root /\ t2.depth = t.depth
      /\ t2.node[l].kids = << >> /\ t2.node[l].left = t.node[l].left /\ t2.node[l].right = q
      /\ t2.node[q].kids = << >> /\ t2.node[q].left = l /\ t2.node[q].right = r
      /\ (\A m \in Nodes(t) : m # l =>
           /\ t2.node[m].keys = t.node[m].keys /\ t2.node[m].kids = t.node[m].kids
           /\ t2.node[m].right = t.node[m].right /\ t2.node[m].seq = t.node[m].seq)
      /\ (\A m \in Nodes(t) : m # l /\ m # r => t2.node[m] = t.node[m])
      /\ (r # NULL => t2.node[r].left = q)
  BY <1>2 DEF LeafIsSplit
<1>0. l \in Nodes(t2) /\ q \in Nodes(t2)
  BY <1>1, <1>3, NodeFields DEF Nodes
<1>4. up \in rng[l]
  <2>1. Len(t2.node[q].keys) \in Nat
    BY <1>0, <1>3, NodeFields
  <2>2. 1 \in 1 .. Len(t2.node[q].keys)
    BY <2>1 DEF HighKeys
  <2> QED
    BY <2>2 DEF HighKeys
<1>5. PICK y \in rng[l] : y < up
  <2>1. Len(t2.node[l].keys) \in Nat
    BY <1>0, <1>3, NodeFields
  <2>2. 1 \in 1 .. Len(t2.node[l].keys)
    BY <2>1 DEF LowKeys
  <2> QED
    BY <2>2 DEF LowKeys
<1>6. /\ Nodes(t2) = Nodes(t) \union {q} /\ ~(q \in Nodes(t))
      /\ Ranges(t2, lev2, rng2) /\ IsCut(t, lev, rng, l, up, q, lev2, rng2)
  <2>1. Len(t2.node) = Len(t.node) + 1 /\ t2.depth = t.depth
    BY <1>3
  <2> QED
    BY <1>1, <1>4, <1>5, <2>1, CutFacts
<1>7. /\ lev2[q] = 0 /\ (\A m \in Nodes(t) : lev2[m] = lev[m])
      /\ (\A m \in Nodes(t) : m # l => rng2[m] = rng[m])
      /\ (\A x \in Int : x \in rng2[l] <=> x \in rng[l] /\ x < up)
      /\ (\A x \in Int : x \in rng2[q] <=> x \in rng[l] /\ up <= x)
      /\ up \in rng2[q]
  BY <1>6 DEF IsCut
<1>8. rng2[l] \subseteq Int /\ rng2[q] \subseteq Int /\ rng2[l] # {} /\ rng2[q] # {}
  BY <1>6 DEF Ranges
<1>20. /\ Adjacent(rng2[l], rng2[q])
       /\ DownClosed(rng[l]) => DownClosed(rng2[l])
       /\ UpClosed(rng[l]) => UpClosed(rng2[q])
       /\ \A S \in SUBSET Int : Adjacent(rng[l], S) => Adjacent(rng2[q], S)
       /\ \A S \in SUBSET Int : Adjacent(S, rng[l]) => Adjacent(S, rng2[l])
  <2>1. Convex(rng[l])
    BY <1>1 DEF Ranges
  <2>2. CutAt(rng[l], up, rng2[l], rng2[q])
    BY <1>1, <1>7, <1>8, <2>1, Zenon DEF CutAt
  <2> QED
    BY <1>1, <2>2, CutSets, Zenon
<1>9. /\ cov2 \in [Nodes(t2) -> SUBSET Int] /\ cov2[q] = {}
      /\ \A m \in Nodes(t) : cov2[m] = cov[m]
  <2>1. Nodes(t2) = 1 .. Len(t.node) + 1 /\ q \in Nodes(t2)
    BY <1>3, <1>6 DEF Nodes
  <2>2. cov \in [Nodes(t) -> SUBSET Int]
    BY DEF Shape
  <2>3. cov2 = [m \in Nodes(t2) |-> IF m = q THEN {} ELSE cov[m]]
    BY <2>1 DEF CovNew
  <2>4. \A m \in Nodes(t2) : (IF m = q THEN {} ELSE cov[m]) \in SUBSET Int
    BY <1>6, <2>2
  <2> QED
    BY <1>6, <2>1, <2>3, <2>4
<1>10. q # NULL /\ l # NULL /\ q \in Nodes(t2) /\ l \in Nodes(t2)
  BY <1>1, <1>3, <1>6, NodeFields
<1>11. ASSUME r # NULL
       PROVE  r \in Nodes(t) /\ lev[r] = 0 /\ t.node[r].left = l /\ r # l /\ Adjacent(rng[l], rng[r])
  BY <1>2, <1>11, Neighbours
<1>12. LeafLinks(t, lev, rng, l)
  BY DEF Shape, LeafOK
<1>13. LeafOK(t2, lev2, rng2, l)
  <2>1. LeafKeys(t2.node[l], rng2[l])
    <3>1. \A i \in 1 .. Len(t2.node[l].keys) : t2.node[l].keys[i] \in rng2[l]
      BY <1>1, <1>7 DEF LowKeys
    <3>2. Ascending(t2.node[l].keys) /\ ~(Len(t2.node[l].keys) = 0) /\ Len(t2.node[l].keys) <= M
      BY DEF LowKeys
    <3> QED
      BY <1>3, <3>1, <3>2, Zenon DEF LeafKeys
  <2>3. PICK p : p = t.node[l].left
    OBVIOUS
  <2>4. p = NULL => DownClosed(rng2[l])
    <3>1. p = NULL => DownClosed(rng[l])
      BY <1>12, <2>3 DEF LeafLinks
    <3> QED
      BY <1>20, <3>1, Zenon
  <2>5. p # NULL => p \in Nodes(t) /\ lev[p] = 0 /\ t.node[p].right = l
    BY <1>12, <2>3 DEF LeafLinks
  <2>6. ASSUME p # NULL PROVE p # l
    BY <1>10, <2>5, <2>6, Neighbours
  <2>7. p # NULL => p \in Nodes(t2) /\ lev2[p] = 0 /\ t2.node[p].right = l
    BY <1>3, <1>6, <1>7, <2>5, <2>6
  <2>8. LeafLinks(t2, lev2, rng2, l)
    <3>1. t2.node[l].left = p /\ t2.node[l].right = q /\ t2.node[q].left = l
      BY <1>3, <2>3, Zenon
    <3>2. q # NULL /\ q \in Nodes(t2) /\ lev2[q] = 0 /\ Adjacent(rng2[l], rng2[q])
      BY <1>7, <1>10, <1>20, Zenon
    <3> QED
      BY <2>4, <2>7, <3>1, <3>2, Zenon DEF LeafLinks
  <2> QED
    BY <2>1, <2>8 DEF LeafOK
<1>14. LeafOK(t2, lev2, rng2, q)
  <2>1. LeafKeys(t2.node[q], rng2[q])
    <3>0. \A i \in 1 .. Len(t2.node[q].keys) : t2.node[q].keys[i] \in rng[l] /\ up <= t2.node[q].keys[i]
      BY Zenon DEF HighKeys
    <3>1. \A i \in 1 .. Len(t2.node[q].keys) : t2.node[q].keys[i] \in rng2[q]
      BY <1>1, <1>7, <3>0, Zenon
    <3>2. Ascending(t2.node[q].keys) /\ ~(Len(t2.node[q].keys) = 0) /\ Len(t2.node[q].keys) <= M
      BY DEF HighKeys
    <3> QED
      BY <1>3, <3>1, <3>2, Zenon DEF LeafKeys
  <2>2. r = NULL => UpClosed(rng2[q])
    <3>1. r = NULL => UpClosed(rng[l])
      BY <1>2, <1>12 DEF LeafLinks
    <3> QED
      BY <1>20, <3>1, Zenon
  <2>3. ASSUME r # NULL
        PROVE  r \in Nodes(t2) /\ lev2[r] = 0 /\ t2.node[r].left = q /\ Adjacent(rng2[q], rng2[r])
    <3>1. r \in Nodes(t2) /\ lev2[r] = 0 /\ t2.node[r].left = q /\ rng2[r] = rng[r]
      BY <1>3, <1>6, <1>7, <1>11, <2>3
    <3>2. Adjacent(rng[l], rng[r]) /\ rng[r] \subseteq Int
      BY <1>1, <1>11, <2>3 DEF Ranges
    <3> QED
      BY <1>20, <3>1, <3>2
  <2>4. LeafLinks(t2, lev2, rng2, q)
    BY <1>3, <1>7, <1>10, <2>2, <2>3, Zenon DEF LeafLinks
  <2> QED
    BY <2>1, <2>4 DEF LeafOK
<1>15. ASSUME NEW m \in Nodes(t), lev[m] = 0, m # l PROVE LeafOK(t2, lev2, rng2, m)
  <2>1. LeafKeys(t.node[m], rng[m]) /\ LeafLinks(t, lev, rng, m)
    BY <1>15 DEF Shape, LeafOK
  <2>2. rng2[m] = rng[m] /\ lev2[m] = 0 /\ m # NULL
    BY <1>1, <1>7, <1>15, NodeFields
  <2>3. LeafKeys(t2.node[m], rng2[m])
    BY <1>3, <1>15, <2>1, <2>2 DEF LeafKeys
  <2>4. PICK u : u = t.node[m].right
    OBVIOUS
  <2>5. t2.node[m].right = u
    BY <1>3, <1>15, <2>4
  <2>6. u = NULL => UpClosed(rng2[m])
    BY <2>1, <2>2, <2>4 DEF LeafLinks
  <2>7. ASSUME u # NULL
        PROVE  u \in Nodes(t2) /\ lev2[u] = 0 /\ t2.node[u].left = m /\ Adjacent(rng2[m], rng2[u])
    <3>1. u \in Nodes(t) /\ lev[u] = 0 /\ t.node[u].left = m /\ Adjacent(rng[m], rng[u])
      BY <1>15, <2>4, <2>7, Neighbours
    <3>2. u # r
      BY <1>11, <1>15, <2>7, <3>1
    <3>3. t2.node[u].left = m
      BY <1>3, <3>1, <3>2
    <3>4. u \in Nodes(t2) /\ lev2[u] = 0
      BY <1>6, <1>7, <3>1
    <3>5. CASE u = l
      <4>1. rng[m] \in SUBSET Int
        BY <1>1 DEF Ranges
      <4>2. Adjacent(rng[m], rng2[l])
        BY <1>20, <3>1, <3>5, <4>1
      <4> QED
        BY <2>2, <3>3, <3>4, <3>5, <4>2
    <3>6. CASE u # l
      <4>1. rng2[u] = rng[u]
        BY <1>7, <3>1, <3>6
      <4> QED
        BY <2>2, <3>1, <3>3, <3>4, <4>1
    <3> QED
      BY <3>5, <3>6
  <2>8. PICK p : p = t2.node[m].left
    OBVIOUS
  <2>9. CASE m = r
    <3>1. p = q
      BY <1>3, <2>2, <2>8, <2>9
    <3>2. p # NULL /\ p \in Nodes(t2) /\ lev2[p] = 0 /\ t2.node[p].right = m
      BY <1>3, <1>7, <1>10, <2>9, <3>1
    <3>3. LeafLinks(t2, lev2, rng2, m)
      BY <2>5, <2>6, <2>7, <2>8, <3>2, Zenon DEF LeafLinks
    <3> QED
      BY <2>3, <3>3 DEF LeafOK
  <2>10. CASE m # r
    <3>1. p = t.node[m].left
      BY <1>3, <1>15, <2>8, <2>10
    <3>2. p = NULL => DownClosed(rng2[m])
      BY <2>1, <2>2, <3>1 DEF LeafLinks
    <3>3. p # NULL => p \in Nodes(t) /\ lev[p] = 0 /\ t.node[p].right = m
      BY <2>1, <3>1 DEF LeafLinks
    <3>4. p # NULL => p # l
      BY <1>2, <2>10, <3>3
    <3>5. p # NULL => p \in Nodes(t2) /\ lev2[p] = 0 /\ t2.node[p].right = m
      BY <1>3, <1>6, <1>7, <3>3, <3>4
    <3>6. LeafLinks(t2, lev2, rng2, m)
      BY <2>5, <2>6, <2>7, <2>8, <3>2, <3>5, Zenon DEF LeafLinks
    <3> QED
      BY <2>3, <3>6 DEF LeafOK
  <2> QED
    BY <2>9, <2>10
<1>16. Extends(t, lev, t2, lev2)
  BY <1>6, <1>7 DEF Extends
<1>17. ASSUME NEW m \in Nodes(t), lev[m] > 0 PROVE InnerOK(t2, lev2, rng2, cov2, m)
  <2>1. m # l /\ m # r
    <3>1. r # NULL => lev[r] = 0
      BY <1>11
    <3>2. m # NULL
      BY <1>1, NodeFields
    <3> QED
      BY <1>17, <3>1, <3>2
  <2>2. \A i \in 1 .. Len(t.node[m].kids) : t.node[m].kids[i] \in Nodes(t)
    BY <1>17 DEF Shape, InnerOK, KidOK
  <2>3. SameInner(t, rng, cov, t2, rng2, cov2, m)
    BY <1>3, <1>7, <1>9, <2>1, <2>2 DEF SameInner
  <2> QED
    BY <1>16, <1>17, <2>3, InnerKept
<1>18. Shape(t2, lev2, rng2, cov2)
  <2>1. t2.root \in Nodes(t2) /\ lev2[t2.root] = t2.depth /\ cov2[t2.root] = Int
    <3>1. t.root \in Nodes(t) /\ lev[t.root] = t.depth /\ cov[t.root] = Int
      BY DEF Shape
    <3>2. cov2[t.root] = cov[t.root] /\ lev2[t.root] = lev[t.root] /\ t.root \in Nodes(t2)
      BY <1>6, <1>7, <1>9, <3>1
    <3> QED
      BY <1>3, <3>1, <3>2, Zenon
  <2>2. \A m \in Nodes(t2) : lev2[m] = 0 => LeafOK(t2, lev2, rng2, m)
    BY <1>6, <1>7, <1>13, <1>14, <1>15, Zenon
  <2>3. \A m \in Nodes(t2) : lev2[m] > 0 => InnerOK(t2, lev2, rng2, cov2, m)
    <3>1. ~(lev2[q] > 0)
      <4>1. lev2[q] = 0
        BY <1>7, Zenon
      <4> QED
        BY <4>1
    <3> QED
      BY <1>6, <1>7, <1>17, <3>1, Zenon
  <2> QED
    BY <1>3, <1>6, <1>9, <2>1, <2>2, <2>3 DEF Shape
<1>19. Pending(lev2, rng2, cov2, l, q, up)
  <2>1. \A x \in Int : x < up \/ up <= x
    BY <1>1
  <2>2. \A x \in Int : x \in cov2[l] <=> x \in rng2[l] \/ x \in rng2[q]
    BY <1>7, <1>9, <2>1
  <2> QED
    BY <1>6, <1>7, <1>8, <1>9, <2>2 DEF Pending
<1> QED
  BY <1>6, <1>18, <1>19

\* x is one of the elements.
Among(s, x) == \E i \in 1 .. Len(s) : x = s[i]

LEMMA InsertedElements ==
  ASSUME NEW s \in Seq(Keys), NEW v \in Seq(Keys), NEW e \in Keys, NEW k \in 0 .. Len(s),
         Inserted(s, k, e, v), NEW x
  PROVE  Among(v, x) <=> Among(s, x) \/ x = e
<1>1. Len(s) \in Nat /\ Len(v) = Len(s) + 1
  BY KeySeq DEF Inserted
<1>2. (\A i \in 1 .. k : v[i] = s[i]) /\ v[k + 1] = e /\ (\A i \in k + 1 .. Len(s) : v[i + 1] = s[i])
  BY DEF Inserted
<1>3. ASSUME NEW i \in 1 .. Len(v), x = v[i] PROVE (\E j \in 1 .. Len(s) : x = s[j]) \/ x = e
  <2>1. CASE i <= k
    <3>1. i \in 1 .. k /\ i \in 1 .. Len(s)
      BY <1>1, <2>1
    <3> QED
      BY <1>2, <1>3, <3>1
  <2>2. CASE i = k + 1
    BY <1>2, <1>3, <2>2
  <2>3. CASE i > k + 1
    <3>1. i - 1 \in k + 1 .. Len(s) /\ i - 1 \in 1 .. Len(s) /\ (i - 1) + 1 = i
      BY <1>1, <2>3
    <3>2. x = s[i - 1]
      BY <1>2, <1>3, <3>1
    <3> QED
      BY <3>1, <3>2
  <2> QED
    BY <1>1, <2>1, <2>2, <2>3
<1>4. ASSUME NEW i \in 1 .. Len(s), x = s[i] PROVE \E j \in 1 .. Len(v) : x = v[j]
  <2>1. CASE i <= k
    <3>1. i \in 1 .. k /\ i \in 1 .. Len(v)
      BY <1>1, <2>1
    <3> QED
      BY <1>2, <1>4, <3>1
  <2>2. CASE i > k
    <3>1. i \in k + 1 .. Len(s) /\ i + 1 \in 1 .. Len(v)
      BY <1>1, <2>2
    <3>2. x = v[i + 1]
      BY <1>2, <1>4, <3>1
    <3> QED
      BY <3>1, <3>2
  <2> QED
    BY <1>1, <2>1, <2>2
<1>5. ASSUME x = e PROVE \E j \in 1 .. Len(v) : x = v[j]
  <2>1. k + 1 \in 1 .. Len(v)
    BY <1>1
  <2> QED
    BY <1>2, <1>5, <2>1
<1> QED
  BY <1>3, <1>4, <1>5 DEF Among

\* Inserting in one of two parts is cutting after the insert.
LEMMA InsertLow ==
  ASSUME NEW s \in Seq(Keys), NEW v \in Seq(Keys), NEW e \in Keys, NEW k \in 0 .. Len(s),
         Inserted(s, k, e, v), NEW h \in 0 .. Len(s), k < h,
         NEW a \in Seq(Keys), IsHead(s, h, a), NEW b \in Seq(Keys), IsTail(s, h, b),
         NEW u \in Seq(Keys), Inserted(a, k, e, u)
  PROVE  IsHead(v, h + 1, u) /\ IsTail(v, h + 1, b)
<1>1. /\ Len(s) \in Nat /\ Len(v) = Len(s) + 1 /\ Len(a) = h /\ Len(b) = Len(s) - h /\ Len(u) = h + 1
      /\ (\A i \in 1 .. h : a[i] = s[i]) /\ (\A i \in 1 .. Len(s) - h : b[i] = s[h + i])
      /\ (\A i \in 1 .. k : v[i] = s[i]) /\ v[k + 1] = e /\ (\A i \in k + 1 .. Len(s) : v[i + 1] = s[i])
      /\ (\A i \in 1 .. k : u[i] = a[i]) /\ u[k + 1] = e /\ (\A i \in k + 1 .. h : u[i + 1] = a[i])
  BY KeySeq DEF Inserted, IsHead, IsTail
<1>2. ASSUME NEW i \in 1 .. h + 1 PROVE u[i] = v[i]
  <2>1. CASE i <= k
    <3>1. i \in 1 .. k /\ i \in 1 .. h
      BY <2>1
    <3> QED
      BY <1>1, <3>1
  <2>2. CASE i = k + 1
    BY <1>1, <2>2
  <2>3. CASE i > k + 1
    <3>1. PICK j \in k + 1 .. h : i = j + 1
      <4>1. i - 1 \in k + 1 .. h /\ i = (i - 1) + 1
        BY <2>3
      <4> QED
        BY <4>1
    <3>2. j \in 1 .. h /\ j \in k + 1 .. Len(s)
      BY <1>1
    <3> QED
      BY <1>1, <3>1, <3>2
  <2> QED
    BY <2>1, <2>2, <2>3
<1>3. ASSUME NEW i \in 1 .. Len(v) - (h + 1) PROVE b[i] = v[(h + 1) + i]
  <2>1. i \in 1 .. Len(s) - h /\ h + i \in k + 1 .. Len(s) /\ (h + i) + 1 = (h + 1) + i
    BY <1>1
  <2> QED
    BY <1>1, <2>1
<1>4. Len(b) = Len(v) - (h + 1)
  BY <1>1
<1> QED
  BY <1>1, <1>2, <1>3, <1>4 DEF IsHead, IsTail

LEMMA InsertHigh ==
  ASSUME NEW s \in Seq(Keys), NEW v \in Seq(Keys), NEW e \in Keys, NEW k \in 0 .. Len(s),
         Inserted(s, k, e, v), NEW h \in 0 .. Len(s), h <= k,
         NEW a \in Seq(Keys), IsHead(s, h, a), NEW b \in Seq(Keys), IsTail(s, h, b),
         NEW u \in Seq(Keys), NEW g, g = k - h, Inserted(b, g, e, u)
  PROVE  IsHead(v, h, a) /\ IsTail(v, h, u)
<1>0. g \in Nat /\ k = h + g
  OBVIOUS
<1>1. /\ Len(s) \in Nat /\ Len(v) = Len(s) + 1 /\ Len(a) = h /\ Len(b) = Len(s) - h
      /\ Len(u) = (Len(s) - h) + 1
      /\ (\A i \in 1 .. h : a[i] = s[i]) /\ (\A i \in 1 .. Len(s) - h : b[i] = s[h + i])
      /\ (\A i \in 1 .. k : v[i] = s[i]) /\ v[k + 1] = e /\ (\A i \in k + 1 .. Len(s) : v[i + 1] = s[i])
      /\ (\A i \in 1 .. g : u[i] = b[i]) /\ u[g + 1] = e
      /\ (\A i \in g + 1 .. Len(s) - h : u[i + 1] = b[i])
  BY KeySeq, Zenon DEF Inserted, IsHead, IsTail
<1>2. ASSUME NEW i \in 1 .. h PROVE a[i] = v[i]
  <2>1. i \in 1 .. k
    OBVIOUS
  <2> QED
    BY <1>1, <2>1
<1>3. ASSUME NEW i \in 1 .. Len(v) - h PROVE u[i] = v[h + i]
  <2>1. CASE i <= g
    <3>0. Len(s) \in Nat /\ Len(v) = Len(s) + 1
      BY <1>1, Zenon
    <3>1. i \in 1 .. g /\ i \in 1 .. Len(s) - h /\ h + i \in 1 .. k
      BY <1>0, <2>1, <3>0
    <3>2. u[i] = b[i]
      BY <1>1, <3>1, Zenon
    <3>3. b[i] = s[h + i]
      BY <1>1, <3>1, Zenon
    <3>4. v[h + i] = s[h + i]
      BY <1>1, <3>1, Zenon
    <3> QED
      BY <3>2, <3>3, <3>4
  <2>2. CASE i = g + 1
    <3>1. h + i = k + 1
      BY <1>0, <2>2
    <3>2. u[i] = e
      BY <1>1, <2>2, Zenon
    <3>3. v[h + i] = e
      BY <1>1, <3>1, Zenon
    <3> QED
      BY <3>2, <3>3
  <2>3. CASE i > g + 1
    <3>1. PICK j \in g + 1 .. Len(s) - h : i = j + 1
      <4>1. i - 1 \in g + 1 .. Len(s) - h /\ i = (i - 1) + 1
        BY <1>0, <1>1, <2>3
      <4> QED
        BY <4>1
    <3>2. j \in 1 .. Len(s) - h /\ h + j \in k + 1 .. Len(s) /\ (h + j) + 1 = h + i
      BY <1>0, <1>1, <3>1
    <3>3. u[i] = s[h + j]
      BY <1>1, <3>1, <3>2
    <3>4. v[h + i] = s[h + j]
      BY <1>1, <3>2
    <3> QED
      BY <3>3, <3>4
  <2> QED
    BY <1>0, <1>1, <2>1, <2>2, <2>3
<1>4. Len(u) = Len(v) - h
  BY <1>1
<1> QED
  BY <1>1, <1>2, <1>3, <1>4 DEF IsHead, IsTail
\* Cutting ascending keys in two.
LEMMA CutAscending ==
  ASSUME NEW v \in Seq(Keys), Ascending(v), NEW g \in 0 .. Len(v), g < Len(v),
         NEW a \in Seq(Keys), IsHead(v, g, a), NEW b \in Seq(Keys), IsTail(v, g, b)
  PROVE  /\ Ascending(a) /\ Ascending(b) /\ Len(a) = g /\ Len(b) = Len(v) - g
         /\ b[1] \in Keys /\ Among(b, b[1])
         /\ \A i \in 1 .. Len(a) : a[i] < b[1]
         /\ \A i \in 1 .. Len(b) : b[1] <= b[i]
         /\ \A x : Among(v, x) <=> Among(a, x) \/ Among(b, x)
<1>1. /\ Len(v) \in Nat /\ Len(a) = g /\ Len(b) = Len(v) - g
      /\ (\A i \in 1 .. g : a[i] = v[i]) /\ (\A i \in 1 .. Len(v) - g : b[i] = v[g + i])
      /\ \A i \in 1 .. Len(v) : v[i] \in Int
  BY KeySeq DEF IsHead, IsTail
<1>2. 1 \in 1 .. Len(b) /\ g + 1 \in 1 .. Len(v) /\ b[1] = v[g + 1]
  BY <1>1
<1>3. b[1] \in Keys /\ b[1] \in Int
  BY <1>2, KeySeq
<1>4. ASSUME NEW i \in 1 .. Len(a), NEW j \in 1 .. Len(a), i < j PROVE a[i] < a[j]
  <2>1. i \in 1 .. Len(v) /\ j \in 1 .. Len(v) /\ a[i] = v[i] /\ a[j] = v[j]
    BY <1>1
  <2> QED
    BY <1>4, <2>1 DEF Ascending
<1>5. ASSUME NEW i \in 1 .. Len(b), NEW j \in 1 .. Len(b), i < j PROVE b[i] < b[j]
  <2>1. /\ g + i \in 1 .. Len(v) /\ g + j \in 1 .. Len(v) /\ b[i] = v[g + i] /\ b[j] = v[g + j]
        /\ g + i < g + j
    BY <1>1, <1>5
  <2> QED
    BY <2>1 DEF Ascending
<1>6. ASSUME NEW i \in 1 .. Len(a) PROVE a[i] < b[1]
  <2>1. i \in 1 .. Len(v) /\ a[i] = v[i] /\ i < g + 1
    BY <1>1
  <2> QED
    BY <1>2, <2>1 DEF Ascending
<1>7. ASSUME NEW i \in 1 .. Len(b) PROVE b[1] <= b[i]
  <2>1. b[i] \in Int
    BY KeySeq
  <2>2. CASE i = 1
    BY <1>3, <2>2
  <2>3. CASE i # 1
    <3>1. b[1] < b[i]
      BY <1>2, <1>5, <2>3
    <3> QED
      BY <1>3, <2>1, <3>1
  <2> QED
    BY <2>2, <2>3
<1>8. ASSUME NEW x PROVE Among(v, x) <=> Among(a, x) \/ Among(b, x)
  <2>1. ASSUME NEW i \in 1 .. Len(v), x = v[i] PROVE Among(a, x) \/ Among(b, x)
    <3>1. CASE i <= g
      <4>1. i \in 1 .. Len(a) /\ x = a[i]
        BY <1>1, <2>1, <3>1
      <4> QED
        BY <4>1 DEF Among
    <3>2. CASE i > g
      <4>1. PICK j \in 1 .. Len(b) : g + j = i
        <5>1. i - g \in 1 .. Len(b) /\ g + (i - g) = i
          BY <1>1, <3>2
        <5> QED
          BY <5>1
      <4>2. x = b[j]
        BY <1>1, <2>1, <4>1
      <4> QED
        BY <4>2 DEF Among
    <3> QED
      BY <3>1, <3>2
  <2>2. ASSUME NEW i \in 1 .. Len(a), x = a[i] PROVE Among(v, x)
    <3>1. i \in 1 .. Len(v) /\ x = v[i]
      BY <1>1, <2>2
    <3> QED
      BY <3>1 DEF Among
  <2>3. ASSUME NEW i \in 1 .. Len(b), x = b[i] PROVE Among(v, x)
    <3>1. g + i \in 1 .. Len(v) /\ x = v[g + i]
      BY <1>1, <2>3
    <3> QED
      BY <3>1 DEF Among
  <2> QED
    BY <2>1, <2>2, <2>3 DEF Among
<1>9. Ascending(a) /\ Ascending(b)
  BY <1>4, <1>5 DEF Ascending
<1>10. Among(b, b[1])
  BY <1>2 DEF Among
<1> QED
  BY <1>1, <1>3, <1>6, <1>7, <1>8, <1>9, <1>10

\* A key that is not in the leaf, and where it belongs.
NewKey(s, e, k) == (\A i \in 1 .. k : s[i] < e) /\ (k < Len(s) => e < s[k + 1])

\* v has the elements of s and e.
Adds(s, e, v) == \A x : Among(v, x) <=> Among(s, x) \/ x = e

LEMMA NewKeyInserted ==
  ASSUME NEW s \in Seq(Keys), Ascending(s), NEW e \in Keys, NEW k \in 0 .. Len(s), NewKey(s, e, k),
         NEW v, v = InsertAt(s, k + 1, e)
  PROVE  /\ v \in Seq(Keys) /\ Inserted(s, k, e, v) /\ Ascending(v) /\ Len(v) = Len(s) + 1
         /\ Adds(s, e, v)
<1>1. Len(s) \in Nat /\ s \in Seq(Int) /\ e \in Int /\ (\A i \in 1 .. Len(s) : s[i] \in Int)
  BY KeySeq, ConstantFacts
<1>2. k \in Nat /\ k <= Len(s)
  BY <1>1
<1>3. v \in Seq(Keys) /\ Inserted(s, k, e, v)
  BY <1>2, InsertAtIs
<1>4. v \in Seq(Int) /\ Len(v) = Len(s) + 1
  BY <1>3, KeySeq DEF Inserted
<1>5. Slot(s, e, k) /\ (k > 0 => s[k] < e)
  <2>1. k > 0 => k \in 1 .. k /\ s[k] \in Int
    BY <1>1
  <2>2. k > 0 => s[k] < e
    BY <2>1 DEF NewKey
  <2>3. k > 0 => s[k] <= e
    BY <1>1, <2>1, <2>2
  <2> QED
    BY <2>2, <2>3 DEF Slot, NewKey
<1>6. Ascending(v)
  BY <1>1, <1>3, <1>4, <1>5, AscendingInsert
<1>7. ASSUME NEW x PROVE Among(v, x) <=> Among(s, x) \/ x = e
  BY <1>3, InsertedElements
<1>8. Adds(s, e, v)
  BY <1>7 DEF Adds
<1> QED
  BY <1>3, <1>4, <1>6, <1>8

\* a and b are the halves that SplitLeaf makes of the keys s with e in place k.
SplitKeys(s, k, e, h, a, b) ==
  /\ h = (M + 1) \div 2 \/ (h = M /\ k = M)
  /\ a = IF k < h THEN InsertAt(SubSeq(s, 1, h), k + 1, e) ELSE SubSeq(s, 1, h)
  /\ b = IF k < h THEN SubSeq(s, h + 1, Len(s))
         ELSE InsertAt(SubSeq(s, h + 1, Len(s)), k - h + 1, e)

KeysIn(s, e, R) == e \in R /\ \A x : Among(s, x) => x \in R

LEMMA HalvesAreCuts ==
  ASSUME NEW s \in Seq(Keys), Ascending(s), Len(s) = M, NEW e \in Keys, NEW k \in 0 .. Len(s),
         NewKey(s, e, k), NEW h, NEW a, NEW b, SplitKeys(s, k, e, h, a, b),
         NEW v, v = InsertAt(s, k + 1, e)
  PROVE  /\ h \in Nat /\ a \in Seq(Keys) /\ b \in Seq(Keys)
         /\ \E g \in 0 .. Len(v) :
              /\ IsHead(v, g, a) /\ IsTail(v, g, b) /\ 0 < g /\ g < Len(v) /\ g <= M
              /\ (Len(v) - g = 1 => h = M /\ k = M /\ g = M)
<1>0. PICK w : w = (M + 1) \div 2
  OBVIOUS
<1>1. (h = M \/ h = w) /\ M \in Nat /\ w \in Nat /\ 1 <= w /\ w + 2 <= M
  BY <1>0, ConstantFacts, Zenon DEF SplitKeys
<1>2. /\ Len(s) \in Nat /\ M \in Nat /\ h \in Nat /\ 1 <= h /\ h <= Len(s)
      /\ (h = M \/ h + 2 <= M)
  BY <1>1
<1>3. v \in Seq(Keys) /\ Inserted(s, k, e, v) /\ Ascending(v) /\ Len(v) = Len(s) + 1
  BY NewKeyInserted
<1>4. PICK c : c = SubSeq(s, 1, h)
  OBVIOUS
<1>5. PICK d : d = SubSeq(s, h + 1, Len(s))
  OBVIOUS
<1>6. c \in Seq(Keys) /\ IsHead(s, h, c) /\ d \in Seq(Keys) /\ IsTail(s, h, d)
  BY <1>2, <1>4, <1>5, TakeIs, DropIs
<1>7. Len(c) = h /\ Len(d) = Len(s) - h
  BY <1>6 DEF IsHead, IsTail
<1>8. h = M => k = M \/ h = (M + 1) \div 2
  BY DEF SplitKeys
<1>9. h \in 0 .. Len(s)
  BY <1>2
<1>10. CASE k < h
  <2>1. a = InsertAt(c, k + 1, e) /\ b = d
    BY <1>4, <1>5, <1>10 DEF SplitKeys
  <2>2. k \in Nat /\ k <= Len(c)
    BY <1>2, <1>7, <1>10
  <2>3. a \in Seq(Keys) /\ Inserted(c, k, e, a)
    BY <1>6, <2>1, <2>2, InsertAtIs
  <2>4. IsHead(v, h + 1, a) /\ IsTail(v, h + 1, d)
    BY <1>3, <1>6, <1>9, <1>10, <2>3, InsertLow
  <2>5. h # M
    BY <1>2, <1>8, <1>10, ConstantFacts
  <2>6. /\ h + 1 \in 0 .. Len(v) /\ 0 < h + 1 /\ h + 1 < Len(v) /\ h + 1 <= M
        /\ Len(v) - (h + 1) # 1
    BY <1>2, <1>3, <2>5
  <2> QED
    BY <1>2, <1>6, <2>1, <2>3, <2>4, <2>6
<1>11. CASE ~(k < h)
  <2>1. PICK j : j = k - h
    OBVIOUS
  <2>2. a = c /\ b = InsertAt(d, j + 1, e)
    BY <1>4, <1>5, <1>11, <2>1 DEF SplitKeys
  <2>3. j \in Nat /\ j <= Len(d) /\ h <= k
    BY <1>2, <1>7, <1>11, <2>1
  <2>4. b \in Seq(Keys) /\ Inserted(d, j, e, b)
    BY <1>6, <2>2, <2>3, InsertAtIs
  <2>5. IsHead(v, h, c) /\ IsTail(v, h, b)
    BY <1>3, <1>6, <1>9, <2>1, <2>3, <2>4, InsertHigh
  <2>6. /\ h \in 0 .. Len(v) /\ 0 < h /\ h < Len(v) /\ h <= M
        /\ (Len(v) - h = 1 => h = M /\ k = M)
    BY <1>2, <1>3, <2>3
  <2> QED
    BY <1>2, <1>6, <2>2, <2>4, <2>5, <2>6
<1> QED
  BY <1>10, <1>11

LEMMA Halves ==
  ASSUME NEW s \in Seq(Keys), Ascending(s), Len(s) = M, NEW e \in Keys, NEW k \in 0 .. Len(s),
         NewKey(s, e, k), NEW h, NEW a, NEW b, SplitKeys(s, k, e, h, a, b),
         NEW R, KeysIn(s, e, R)
  PROVE  /\ a \in Seq(Keys) /\ b \in Seq(Keys) /\ b[1] \in Keys
         /\ LowKeys(a, R, b[1]) /\ HighKeys(b, R, b[1])
         /\ \A x : Among(a, x) \/ Among(b, x) <=> Among(s, x) \/ x = e
         /\ (Len(b) = 1 => h = M /\ k = M /\ b[1] = e)
<1>1. PICK v : v = InsertAt(s, k + 1, e)
  OBVIOUS
<1>2. v \in Seq(Keys) /\ Inserted(s, k, e, v) /\ Ascending(v) /\ Len(v) = M + 1
  BY <1>1, NewKeyInserted
<1>3. \A x : Among(v, x) <=> Among(s, x) \/ x = e
  <2>1. Adds(s, e, v)
    BY <1>1, NewKeyInserted
  <2> QED
    BY <2>1 DEF Adds
<1>4. h \in Nat /\ a \in Seq(Keys) /\ b \in Seq(Keys)
  BY <1>1, HalvesAreCuts
<1>5. PICK g \in 0 .. Len(v) :
         /\ IsHead(v, g, a) /\ IsTail(v, g, b) /\ 0 < g /\ g < Len(v) /\ g <= M
         /\ (Len(v) - g = 1 => h = M /\ k = M /\ g = M)
  BY <1>1, HalvesAreCuts
<1>6. /\ Ascending(a) /\ Ascending(b) /\ Len(a) = g /\ Len(b) = Len(v) - g
      /\ b[1] \in Keys
      /\ \A i \in 1 .. Len(a) : a[i] < b[1]
      /\ \A i \in 1 .. Len(b) : b[1] <= b[i]
  BY <1>2, <1>4, <1>5, CutAscending
<1>7. \A x : Among(v, x) <=> Among(a, x) \/ Among(b, x)
  BY <1>2, <1>4, <1>5, CutAscending
<1>8. \A x : Among(a, x) \/ Among(b, x) <=> Among(s, x) \/ x = e
  BY <1>3, <1>7, Zenon
<1>9. ASSUME NEW i \in 1 .. Len(a) PROVE a[i] \in R
  <2>1. Among(a, a[i])
    BY DEF Among
  <2> QED
    BY <1>8, <2>1, Zenon DEF KeysIn
<1>10. ASSUME NEW i \in 1 .. Len(b) PROVE b[i] \in R
  <2>1. Among(b, b[i])
    BY DEF Among
  <2> QED
    BY <1>8, <2>1, Zenon DEF KeysIn
<1>11. 0 < Len(a) /\ Len(a) <= M /\ 0 < Len(b) /\ Len(b) <= M
  BY <1>2, <1>5, <1>6, ConstantFacts
<1>12. LowKeys(a, R, b[1]) /\ HighKeys(b, R, b[1])
  BY <1>6, <1>9, <1>10, <1>11, Zenon DEF LowKeys, HighKeys
<1>13. ASSUME Len(b) = 1 PROVE h = M /\ k = M /\ b[1] = e
  <2>1. h = M /\ k = M /\ g = M
    BY <1>5, <1>6, <1>13
  <2>2. 1 \in 1 .. Len(v) - g
    BY <1>2, <2>1, ConstantFacts
  <2>3. b[1] = v[g + 1]
    BY <1>5, <2>2, Zenon DEF IsTail
  <2>4. v[k + 1] = e
    BY <1>2, Zenon DEF Inserted
  <2> QED
    BY <2>1, <2>3, <2>4, Zenon
<1> QED
  BY <1>4, <1>6, <1>8, <1>12, <1>13

LEMMA LeafNodeIs ==
  ASSUME NEW s \in Seq(Keys), NEW l \in Nat, NEW r \in Nat, NEW f, f = LeafNode(s, l, r)
  PROVE  f \in NodeType /\ f.keys = s /\ f.kids = << >> /\ f.left = l /\ f.right = r
BY DEF LeafNode, NodeType

\* g is the leaf f after an insert.
Rewrites(f, s, r, g) ==
  /\ g.keys = s /\ g.kids = f.kids /\ g.left = f.left /\ g.right = r /\ g.seq = f.seq + 1

LEMMA WithKeysIs ==
  ASSUME NEW f \in NodeType, NEW s \in Seq(Keys), NEW r \in Nat, NEW g, g = WithKeys(f, s, r)
  PROVE  g \in NodeType /\ Rewrites(f, s, r, g)
<1>1. PICK n : n = f.seq + 1
  OBVIOUS
<1>2. f.seq \in Nat /\ n \in Nat
  BY <1>1 DEF NodeType
<1>3. PICK f1 : f1 = [f EXCEPT !.keys = s]
  OBVIOUS
<1>4. /\ f1 \in NodeType /\ f1.keys = s /\ f1.kids = f.kids /\ f1.left = f.left /\ f1.seq = f.seq
  BY <1>3 DEF NodeType
<1>5. PICK f2 : f2 = [f1 EXCEPT !.right = r]
  OBVIOUS
<1>6. /\ f2 \in NodeType /\ f2.keys = s /\ f2.kids = f.kids /\ f2.left = f.left /\ f2.seq = f.seq
      /\ f2.right = r
  BY <1>4, <1>5 DEF NodeType
<1>7. PICK f3 : f3 = [f2 EXCEPT !.seq = n]
  OBVIOUS
<1>8. /\ f3 \in NodeType /\ f3.keys = s /\ f3.kids = f.kids /\ f3.left = f.left /\ f3.seq = n
      /\ f3.right = r
  BY <1>2, <1>6, <1>7 DEF NodeType
<1>9. g = f3
  BY <1>1, <1>3, <1>5, <1>6, <1>7, Zenon DEF WithKeys
<1> QED
  BY <1>1, <1>8, <1>9 DEF Rewrites

LEMMA ReturnedIs ==
  ASSUME NEW t, NEW new, NEW up, NEW alone, NEW r, r = Returned(t, new, up, alone)
  PROVE  r.t = t /\ r.new = new /\ r.up = up /\ r.alone = alone
BY DEF Returned

\* u is t with q as the left neighbour of r.
Relinks(t, r, q, u) ==
  /\ u \in TreeType /\ Len(u.node) = Len(t.node) /\ u.root = t.root /\ u.depth = t.depth
  /\ \A m \in Nodes(t) : m # r => u.node[m] = t.node[m]
  /\ r # NULL => /\ u.node[r].keys = t.node[r].keys /\ u.node[r].kids = t.node[r].kids
                 /\ u.node[r].right = t.node[r].right /\ u.node[r].seq = t.node[r].seq
                 /\ u.node[r].left = q

LEMMA RelinkedIs ==
  ASSUME NEW t, NEW lev, NEW rng, NEW cov, Shape(t, lev, rng, cov),
         NEW l \in Nodes(t), lev[l] = 0, NEW q \in Nat, NEW r, r = t.node[l].right,
         NEW u, u = Relinked(t, r, q)
  PROVE  Relinks(t, r, q, u) /\ u.node[l] = t.node[l]
<1>1. t \in TreeType
  BY DEF Shape
<1>2. CASE r = NULL
  <2>1. u = t
    BY <1>2 DEF Relinked
  <2> QED
    BY <1>1, <1>2, <2>1 DEF Relinks
<1>3. CASE r # NULL
  <2>1. r \in Nodes(t) /\ r # l
    BY <1>3, Neighbours
  <2>2. PICK f : f = [t.node[r] EXCEPT !.left = q]
    OBVIOUS
  <2>3. t.node[r] \in NodeType
    BY <1>1, <2>1, NodeFields
  <2>4. /\ f \in NodeType /\ f.keys = t.node[r].keys /\ f.kids = t.node[r].kids
        /\ f.right = t.node[r].right /\ f.seq = t.node[r].seq /\ f.left = q
    BY <2>2, <2>3 DEF NodeType
  <2>5. u = SetNode(t, r, f)
    BY <1>3, <2>2 DEF Relinked
  <2>6. /\ u \in TreeType /\ Len(u.node) = Len(t.node) /\ u.root = t.root /\ u.depth = t.depth
        /\ u.node[r] = f /\ \A m \in Nodes(t) : m # r => u.node[m] = t.node[m]
    BY <1>1, <2>1, <2>4, <2>5, SetNodeIs
  <2> QED
    BY <1>3, <2>1, <2>4, <2>6 DEF Relinks
<1> QED
  BY <1>2, <1>3

\* What SplitLeaf returns: b are the keys of the new leaf q.
SplitsOff(t, rng, l, s, key, q, r, b) ==
  /\ r.new = q /\ r.up = b[1] /\ (r.alone <=> Len(b) = 1) /\ b[1] \in Keys
  /\ LeafIsSplit(t, l, b[1], q, r.t)
  /\ r.t.node[q].keys = b /\ r.t.node[l].seq = t.node[l].seq + 1
  /\ LowKeys(r.t.node[l].keys, rng[l], b[1]) /\ HighKeys(b, rng[l], b[1])
  /\ \A x : Among(r.t.node[l].keys, x) \/ Among(b, x) <=> Among(s, x) \/ x = key
  /\ Len(b) = 1 => t.node[l].right = NULL

LEMMA SplitLeafIs ==
  ASSUME NEW t, NEW lev, NEW rng, NEW cov, Shape(t, lev, rng, cov),
         NEW l \in Nodes(t), lev[l] = 0, NEW key \in Keys, key \in rng[l],
         NEW s, s = t.node[l].keys, NEW k \in 0 .. Len(s), Len(s) = M, NewKey(s, key, k),
         NEW q, q = Len(t.node) + 1, NEW r, r = SplitLeaf(t, l, k, key)
  PROVE  \E b \in Seq(Keys) : SplitsOff(t, rng, l, s, key, q, r, b)
<1>1. t \in TreeType
  BY DEF Shape
<1>2. PICK f : f = t.node[l]
  OBVIOUS
<1>3. f \in NodeType /\ s \in Seq(Keys) /\ f.right \in Nat /\ q \in Nat /\ l \in Nat /\ Len(t.node) \in Nat
  BY <1>1, <1>2, NodeFields
<1>4. LeafKeys(f, rng[l])
  BY <1>2 DEF Shape, LeafOK
<1>5. Ascending(s) /\ f.kids = << >> /\ \A i \in 1 .. Len(s) : s[i] \in rng[l]
  BY <1>2, <1>4 DEF LeafKeys
<1>6. KeysIn(s, key, rng[l])
  BY <1>5 DEF KeysIn, Among
<1>7. PICK h : h = LeafCut(f, k)
  OBVIOUS
<1>8. PICK a : a = IF k < h THEN InsertAt(SubSeq(s, 1, h), k + 1, key) ELSE SubSeq(s, 1, h)
  OBVIOUS
<1>9. PICK b : b = IF k < h THEN SubSeq(s, h + 1, Len(s))
                   ELSE InsertAt(SubSeq(s, h + 1, Len(s)), k - h + 1, key)
  OBVIOUS
<1>10. SplitKeys(s, k, key, h, a, b)
  <2>1. h = (M + 1) \div 2 \/ (h = M /\ k = M)
    BY <1>2, <1>7 DEF LeafCut
  <2> QED
    BY <1>8, <1>9, <2>1, Zenon DEF SplitKeys
<1>11. h = M => f.right = NULL
  <2>1. (M + 1) \div 2 # M
    BY ConstantFacts
  <2> QED
    BY <1>7, <2>1 DEF LeafCut
<1>12. /\ a \in Seq(Keys) /\ b \in Seq(Keys) /\ b[1] \in Keys
       /\ LowKeys(a, rng[l], b[1]) /\ HighKeys(b, rng[l], b[1])
       /\ (Len(b) = 1 => h = M /\ k = M /\ b[1] = key)
  BY <1>3, <1>5, <1>6, <1>10, Halves
<1>13. \A x : Among(a, x) \/ Among(b, x) <=> Among(s, x) \/ x = key
  BY <1>3, <1>5, <1>6, <1>10, Halves
<1>14. PICK p : p = f.right
  OBVIOUS
<1>15. PICK u : u = Relinked(t, p, q)
  OBVIOUS
<1>16. /\ u \in TreeType /\ Len(u.node) = Len(t.node) /\ u.root = t.root /\ u.depth = t.depth
       /\ (\A m \in Nodes(t) : m # p => u.node[m] = t.node[m])
       /\ u.node[l] = f
       /\ (p # NULL => /\ u.node[p].keys = t.node[p].keys /\ u.node[p].kids = t.node[p].kids
                       /\ u.node[p].right = t.node[p].right /\ u.node[p].seq = t.node[p].seq
                       /\ u.node[p].left = q)
  <2>1. Relinks(t, p, q, u) /\ u.node[l] = f
    BY <1>2, <1>3, <1>14, <1>15, RelinkedIs
  <2> QED
    BY <2>1 DEF Relinks
<1>17. PICK fL : fL = WithKeys(f, a, q)
  OBVIOUS
<1>18. fL \in NodeType /\ fL.keys = a /\ fL.kids = << >> /\ fL.left = f.left /\ fL.right = q /\ fL.seq = f.seq + 1
  <2>1. f \in NodeType /\ a \in Seq(Keys) /\ q \in Nat
    BY <1>3, <1>12, Zenon
  <2>2. fL \in NodeType /\ Rewrites(f, a, q, fL)
    BY <1>17, <2>1, WithKeysIs
  <2> QED
    BY <1>5, <2>2 DEF Rewrites
<1>19. PICK fR : fR = LeafNode(b, l, p)
  OBVIOUS
<1>20. fR \in NodeType /\ fR.keys = b /\ fR.kids = << >> /\ fR.left = l /\ fR.right = p
  <2>1. b \in Seq(Keys) /\ l \in Nat /\ p \in Nat
    BY <1>3, <1>12, <1>14
  <2> QED
    BY <1>19, <2>1, LeafNodeIs
<1>21. PICK w : w = SetNode(u, l, fL)
  OBVIOUS
<1>22. Nodes(u) = Nodes(t)
  BY <1>16 DEF Nodes
<1>23. /\ w \in TreeType /\ Len(w.node) = Len(t.node) /\ w.root = t.root /\ w.depth = t.depth
       /\ w.node[l] = fL /\ \A m \in Nodes(t) : m # l => w.node[m] = u.node[m]
  BY <1>16, <1>18, <1>21, <1>22, SetNodeIs
<1>24. PICK z : z = NewNode(w, fR)
  OBVIOUS
<1>25. Nodes(w) = Nodes(t)
  BY <1>23 DEF Nodes
<1>26. /\ z \in TreeType /\ Len(z.node) = q /\ z.root = t.root /\ z.depth = t.depth
       /\ z.node[q] = fR /\ \A m \in Nodes(t) : z.node[m] = w.node[m]
  BY <1>20, <1>23, <1>24, <1>25, NewNodeIs
<1>27. r = Returned(z, q, b[1], Len(b) = 1)
  BY <1>2, <1>7, <1>8, <1>9, <1>14, <1>15, <1>17, <1>19, <1>21, <1>24, Zenon DEF SplitLeaf
<1>28. r.t = z /\ r.new = q /\ r.up = b[1] /\ (r.alone <=> Len(b) = 1)
  <2>1. PICK y : y = b[1]
    OBVIOUS
  <2>2. PICK o : o = (Len(b) = 1)
    OBVIOUS
  <2>3. r = Returned(z, q, y, o)
    BY <1>27, <2>1, <2>2, Zenon
  <2>4. r.t = z /\ r.new = q /\ r.up = y /\ r.alone = o
    BY <2>3, ReturnedIs
  <2> QED
    BY <2>1, <2>2, <2>4
<1>29. z.node[l] = fL
  BY <1>23, <1>26
<1>30. \A m \in Nodes(t) : m # l => z.node[m] = u.node[m]
  BY <1>23, <1>26
<1>31. p # NULL => p \in Nodes(t) /\ p # l
  BY <1>2, <1>14, Neighbours
<1>32. ASSUME NEW m \in Nodes(t), m # l
       PROVE  /\ z.node[m].keys = t.node[m].keys /\ z.node[m].kids = t.node[m].kids
              /\ z.node[m].right = t.node[m].right /\ z.node[m].seq = t.node[m].seq
              /\ m # p => z.node[m] = t.node[m]
  <2>1. m # NULL
    BY <1>1, NodeFields
  <2>2. z.node[m] = u.node[m]
    BY <1>30, <1>32
  <2> QED
    BY <1>16, <2>1, <2>2
<1>33. p # NULL => z.node[p].left = q
  BY <1>16, <1>30, <1>31
<1>34. LeafIsSplit(t, l, b[1], q, z)
  BY <1>2, <1>14, <1>18, <1>20, <1>26, <1>29, <1>32, <1>33 DEF LeafIsSplit
<1>35. z.node[l].keys = a /\ z.node[l].seq = t.node[l].seq + 1 /\ z.node[q].keys = b
  BY <1>2, <1>18, <1>20, <1>26, <1>29
<1>36. Len(b) = 1 => t.node[l].right = NULL
  BY <1>2, <1>11, <1>12
<1>37. SplitsOff(t, rng, l, s, key, q, r, b)
  BY <1>12, <1>13, <1>28, <1>34, <1>35, <1>36, Zenon DEF SplitsOff
<1> QED
  BY <1>12, <1>37
-----------------------------------------------------------------------------
(* What an insert does to the table                                        *)
-----------------------------------------------------------------------------
Holds(t, lev, x) == \E l \in Nodes(t) : lev[l] = 0 /\ Among(t.node[l].keys, x)

\* What the iterator relies on: a leaf with the same seq has the same keys, and
\* a leaf only gives up keys to its right.
LeafMoves(t, rng, t2, rng2, l) ==
  /\ t.node[l].seq <= t2.node[l].seq
  /\ t2.node[l].seq = t.node[l].seq => t2.node[l].keys = t.node[l].keys
  /\ \A x \in rng[l] : \E y \in rng2[l] : y <= x

\* The table gained key.
Gains(t, lev, rng, key, t2, lev2, rng2) ==
  /\ Extends(t, lev, t2, lev2)
  /\ \A l \in Nodes(t) : lev[l] = 0 => LeafMoves(t, rng, t2, rng2, l)
  /\ \A x : Holds(t2, lev2, x) <=> Holds(t, lev, x) \/ x = key

\* Only inner nodes changed.
LeavesStay(t, lev, rng, t2, lev2, rng2) ==
  /\ Extends(t, lev, t2, lev2) /\ SameLeaves(t, lev, rng, t2, rng2)
  /\ \A m \in Nodes(t2) : lev2[m] = 0 => m \in Nodes(t)

LEMMA GainsStay ==
  ASSUME NEW t, NEW lev, NEW rng, NEW key, NEW t2, NEW lev2, NEW rng2, NEW t3, NEW lev3, NEW rng3,
         Gains(t, lev, rng, key, t2, lev2, rng2), LeavesStay(t2, lev2, rng2, t3, lev3, rng3)
  PROVE  Gains(t, lev, rng, key, t3, lev3, rng3)
<1>1. /\ Nodes(t2) \subseteq Nodes(t3) /\ (\A m \in Nodes(t2) : lev3[m] = lev2[m])
      /\ (\A m \in Nodes(t2) : lev2[m] = 0 => t3.node[m] = t2.node[m] /\ rng3[m] = rng2[m])
      /\ (\A m \in Nodes(t3) : lev3[m] = 0 => m \in Nodes(t2))
  BY DEF LeavesStay, Extends, SameLeaves
<1>2. /\ Nodes(t) \subseteq Nodes(t2) /\ (\A m \in Nodes(t) : lev2[m] = lev[m])
      /\ (\A l \in Nodes(t) : lev[l] = 0 => LeafMoves(t, rng, t2, rng2, l))
      /\ (\A x : Holds(t2, lev2, x) <=> Holds(t, lev, x) \/ x = key)
  BY DEF Gains, Extends
<1>3. Extends(t, lev, t3, lev3)
  BY <1>1, <1>2 DEF Extends
<1>4. ASSUME NEW l \in Nodes(t), lev[l] = 0 PROVE LeafMoves(t, rng, t3, rng3, l)
  <2>1. l \in Nodes(t2) /\ lev2[l] = 0
    BY <1>2, <1>4
  <2>2. t3.node[l] = t2.node[l] /\ rng3[l] = rng2[l]
    BY <1>1, <2>1
  <2>3. LeafMoves(t, rng, t2, rng2, l)
    BY <1>2, <1>4
  <2> QED
    BY <2>2, <2>3 DEF LeafMoves
<1>5. ASSUME NEW x PROVE Holds(t3, lev3, x) <=> Holds(t2, lev2, x)
  <2>1. ASSUME NEW l \in Nodes(t3), lev3[l] = 0, Among(t3.node[l].keys, x) PROVE Holds(t2, lev2, x)
    <3>1. l \in Nodes(t2)
      BY <1>1, <2>1
    <3>2. lev2[l] = 0
      BY <1>1, <2>1, <3>1
    <3>3. t3.node[l] = t2.node[l]
      BY <1>1, <3>1, <3>2
    <3> QED
      BY <2>1, <3>1, <3>2, <3>3 DEF Holds
  <2>2. ASSUME NEW l \in Nodes(t2), lev2[l] = 0, Among(t2.node[l].keys, x) PROVE Holds(t3, lev3, x)
    <3>1. l \in Nodes(t3) /\ lev3[l] = 0 /\ t3.node[l] = t2.node[l]
      BY <1>1, <2>2
    <3> QED
      BY <2>2, <3>1 DEF Holds
  <2> QED
    BY <2>1, <2>2 DEF Holds
<1>6. \A x : Holds(t3, lev3, x) <=> Holds(t, lev, x) \/ x = key
  BY <1>2, <1>5
<1> QED
  BY <1>3, <1>4, <1>6 DEF Gains

\* The new node that a call hands to its caller, if there is one.
HandsUp(r, n, lev, rng, cov) ==
  /\ r.new \in Nodes(r.t) /\ r.up \in Keys /\ Pending(lev, rng, cov, n, r.new, r.up)
  /\ r.alone => \A x \in Int : r.up <= x => x \in rng[r.new]

\* What the call for the node n at height d returns: above d nothing changed
\* yet, and only n has a sibling that its parent does not know.
IsReturn(t, lev, rng, key, r, n, d, lev2, rng2, cov2) ==
  /\ Shape(r.t, lev2, rng2, cov2) /\ r.t.root = t.root /\ r.t.depth = t.depth
  /\ Gains(t, lev, rng, key, r.t, lev2, rng2)
  /\ \A m \in Nodes(r.t) : lev2[m] > d =>
       m \in Nodes(t) /\ r.t.node[m] = t.node[m] /\ rng2[m] = rng[m]
  /\ \A m \in Nodes(r.t) : m # n /\ m # r.new => cov2[m] = rng2[m]
  /\ cov2[n] = rng[n]
  /\ r.new = NULL => rng2[n] = rng[n]
  /\ r.new # NULL => HandsUp(r, n, lev2, rng2, cov2)

\* The scan of LeafInsert finds the key or the place where it belongs.
LEMMA LeafScan ==
  ASSUME NEW s \in Seq(Keys), NEW key \in Keys, NEW k, k = Below(s, key)
  PROVE  /\ k \in 0 .. Len(s)
         /\ k < Len(s) /\ s[k + 1] = key => Among(s, key)
         /\ ~(k < Len(s) /\ s[k + 1] = key) => NewKey(s, key, k)
<1>1. Len(s) \in Nat /\ s \in Seq(Int) /\ key \in Int /\ (\A i \in 1 .. Len(s) : s[i] \in Int)
  BY KeySeq, ConstantFacts
<1>2. k \in 0 .. Len(s) /\ (\A i \in 1 .. k : s[i] < key) /\ (k < Len(s) => key <= s[k + 1])
  BY <1>1, BelowIs
<1>3. k < Len(s) => k + 1 \in 1 .. Len(s) /\ s[k + 1] \in Int
  BY <1>1, <1>2
<1>4. k < Len(s) /\ s[k + 1] = key => Among(s, key)
  BY <1>3 DEF Among
<1>5. ASSUME ~(k < Len(s) /\ s[k + 1] = key) PROVE NewKey(s, key, k)
  <2>1. k < Len(s) => key < s[k + 1]
    BY <1>1, <1>2, <1>3, <1>5
  <2> QED
    BY <1>2, <2>1 DEF NewKey
<1> QED
  BY <1>2, <1>4, <1>5

\* The key is already there.
LEMMA LeafHasKey ==
  ASSUME NEW t, NEW lev, NEW rng, Shape(t, lev, rng, rng),
         NEW l \in Nodes(t), lev[l] = 0, NEW key, Among(t.node[l].keys, key),
         NEW r, r.t = t, r.new = NULL
  PROVE  IsReturn(t, lev, rng, key, r, l, 0, lev, rng, rng)
<1>1. t \in TreeType
  BY DEF Shape
<1>2. ASSUME NEW m \in Nodes(t) PROVE LeafMoves(t, rng, t, rng, m)
  <2>1. t.node[m].seq \in Nat
    BY <1>1, NodeFields
  <2>2. \A x \in rng[m] : x \in Int
    BY DEF Shape, Ranges
  <2>3. \A x \in rng[m] : \E y \in rng[m] : y <= x
    BY <2>2
  <2> QED
    BY <2>1, <2>3 DEF LeafMoves
<1>3. Holds(t, lev, key)
  BY DEF Holds
<1>4. Gains(t, lev, rng, key, t, lev, rng)
  BY <1>2, <1>3 DEF Gains, Extends
<1> QED
  BY <1>4 DEF IsReturn

\* One more key fits in a leaf that is not full.
LEMMA OneMoreFits ==
  ASSUME NEW m \in Nat, NEW a \in Nat, a <= m, a # m, NEW b, b = a + 1
  PROVE  b <= m /\ b # 0
  OBVIOUS

\* The key finds room in the leaf.
LEMMA LeafTakesKey ==
  ASSUME NEW t, NEW lev, NEW rng, Shape(t, lev, rng, rng),
         NEW l \in Nodes(t), lev[l] = 0, NEW key \in Keys, key \in rng[l],
         NEW s, s = t.node[l].keys, NEW k \in 0 .. Len(s), Len(s) # M, NewKey(s, key, k),
         NEW r, r.t = SetNode(t, l, WithKeys(t.node[l], InsertAt(s, k + 1, key), t.node[l].right)),
         r.new = NULL
  PROVE  IsReturn(t, lev, rng, key, r, l, 0, lev, rng, rng)
<1>1. t \in TreeType
  BY DEF Shape
<1>2. PICK f : f = t.node[l]
  OBVIOUS
<1>3. f \in NodeType /\ s \in Seq(Keys) /\ f.right \in Nat /\ f.seq \in Nat /\ Len(s) \in Nat
  BY <1>1, <1>2, NodeFields
<1>4. LeafKeys(f, rng[l])
  BY <1>2 DEF Shape, LeafOK
<1>5. Ascending(s) /\ f.kids = << >> /\ Len(s) <= M /\ (\A i \in 1 .. Len(s) : s[i] \in rng[l])
  BY <1>2, <1>4 DEF LeafKeys
<1>6. PICK v : v = InsertAt(s, k + 1, key)
  OBVIOUS
<1>7. v \in Seq(Keys) /\ Ascending(v) /\ Len(v) = Len(s) + 1 /\ Adds(s, key, v)
  BY <1>3, <1>5, <1>6, NewKeyInserted
<1>8. PICK g : g = WithKeys(f, v, f.right)
  OBVIOUS
<1>9. g \in NodeType /\ Rewrites(f, v, f.right, g)
  BY <1>3, <1>7, <1>8, WithKeysIs
<1>10. g.keys = v /\ g.kids = f.kids /\ g.left = f.left /\ g.right = f.right /\ g.seq = f.seq + 1
  BY <1>9 DEF Rewrites
<1>11. ASSUME NEW i \in 1 .. Len(v) PROVE v[i] \in rng[l]
  <2>1. Among(v, v[i])
    BY DEF Among
  <2>2. Among(s, v[i]) \/ v[i] = key
    BY <1>7, <2>1 DEF Adds
  <2> QED
    BY <1>5, <2>2 DEF Among
<1>12. LeafKeys(g, rng[l])
  <2>1. M \in Nat
    BY ConstantFacts, Zenon
  <2>2. Len(s) \in Nat /\ Len(s) <= M /\ Len(v) = Len(s) + 1
    BY <1>3, <1>5, <1>7, Zenon
  <2>3. Len(s) # M
    OBVIOUS
  <2>4. Len(v) <= M /\ Len(v) # 0
    BY <2>1, <2>2, <2>3, OneMoreFits, Zenon
  <2> QED
    BY <1>5, <1>7, <1>10, <1>11, <2>4 DEF LeafKeys
<1>13. PICK t2 : t2 = SetNode(t, l, g)
  OBVIOUS
<1>14. r.t = t2
  BY <1>2, <1>6, <1>8, <1>13
<1>15. g.left = t.node[l].left /\ g.right = t.node[l].right
  BY <1>2, <1>10
<1>16. /\ Shape(t2, lev, rng, rng) /\ t2.node[l] = g /\ Nodes(t2) = Nodes(t)
       /\ t2.root = t.root /\ t2.depth = t.depth
       /\ \A m \in Nodes(t) : m # l => t2.node[m] = t.node[m]
  BY <1>9, <1>12, <1>13, <1>15, LeafGrows
<1>17. ASSUME NEW m \in Nodes(t) PROVE LeafMoves(t, rng, t2, rng, m)
  <2>1. \A x \in rng[m] : x \in Int
    BY DEF Shape, Ranges
  <2>2. \A x \in rng[m] : \E y \in rng[m] : y <= x
    BY <2>1
  <2>3. t.node[m].seq \in Nat
    BY <1>1, NodeFields
  <2>4. m = l => t2.node[m].seq = t.node[m].seq + 1
    BY <1>2, <1>10, <1>16
  <2>5. m # l => t2.node[m] = t.node[m]
    BY <1>16
  <2> QED
    BY <2>2, <2>3, <2>4, <2>5 DEF LeafMoves
<1>18. ASSUME NEW x PROVE Holds(t2, lev, x) <=> Holds(t, lev, x) \/ x = key
  <2>1. Among(t2.node[l].keys, x) <=> Among(t.node[l].keys, x) \/ x = key
    BY <1>7, <1>10, <1>16 DEF Adds
  <2>2. \A m \in Nodes(t) : m # l => (Among(t2.node[m].keys, x) <=> Among(t.node[m].keys, x))
    BY <1>16
  <2> QED
    BY <1>16, <2>1, <2>2 DEF Holds
<1>19. Gains(t, lev, rng, key, t2, lev, rng)
  BY <1>16, <1>17, <1>18 DEF Gains, Extends
<1>20. ASSUME NEW m \in Nodes(t2), lev[m] > 0
       PROVE  m \in Nodes(t) /\ t2.node[m] = t.node[m]
  <2>1. m # l
    BY <1>20
  <2> QED
    BY <1>16, <2>1
<1> QED
  BY <1>14, <1>16, <1>19, <1>20 DEF IsReturn

\* The leaf is full: its upper half moves to a new leaf.
LEMMA LeafSplitsForKey ==
  ASSUME NEW t, NEW lev, NEW rng, Shape(t, lev, rng, rng),
         NEW l \in Nodes(t), lev[l] = 0, NEW key \in Keys, key \in rng[l],
         NEW s, s = t.node[l].keys, NEW k \in 0 .. Len(s), Len(s) = M, NewKey(s, key, k),
         NEW r, r = SplitLeaf(t, l, k, key)
  PROVE  \E lev2, rng2, cov2 : IsReturn(t, lev, rng, key, r, l, 0, lev2, rng2, cov2)
<1>1. t \in TreeType
  BY DEF Shape
<1>2. PICK q : q = Len(t.node) + 1
  OBVIOUS
<1>3. PICK b \in Seq(Keys) :
           /\ r.new = q /\ r.up = b[1] /\ (r.alone <=> Len(b) = 1) /\ b[1] \in Keys
           /\ LeafIsSplit(t, l, b[1], q, r.t)
           /\ r.t.node[q].keys = b /\ r.t.node[l].seq = t.node[l].seq + 1
           /\ LowKeys(r.t.node[l].keys, rng[l], b[1]) /\ HighKeys(b, rng[l], b[1])
           /\ \A x : Among(r.t.node[l].keys, x) \/ Among(b, x) <=> Among(s, x) \/ x = key
           /\ (Len(b) = 1 => t.node[l].right = NULL)
  <2>1. PICK b \in Seq(Keys) : SplitsOff(t, rng, l, s, key, q, r, b)
    BY <1>2, SplitLeafIs
  <2> QED
    BY <2>1 DEF SplitsOff
<1>4. PICK up : up = b[1]
  OBVIOUS
<1>5. PICK t2 : t2 = r.t
  OBVIOUS
<1>6. PICK lev2 : lev2 = LevNew(t, lev, l)
  OBVIOUS
<1>7. PICK rng2 : rng2 = RngCut(t, rng, l, up)
  OBVIOUS
<1>8. PICK cov2 : cov2 = CovNew(t, rng)
  OBVIOUS
<1>9. /\ LeafIsSplit(t, l, up, q, t2) /\ LowKeys(t2.node[l].keys, rng[l], up)
      /\ HighKeys(t2.node[q].keys, rng[l], up) /\ up = t2.node[q].keys[1] /\ up \in Keys
  BY <1>3, <1>4, <1>5
<1>10. /\ Shape(t2, lev2, rng2, cov2) /\ Pending(lev2, rng2, cov2, l, q, up)
       /\ IsCut(t, lev, rng, l, up, q, lev2, rng2)
       /\ Nodes(t2) = Nodes(t) \union {q} /\ ~(q \in Nodes(t))
  BY <1>2, <1>6, <1>7, <1>8, <1>9, LeafSplits
<1>11. /\ lev2[q] = lev[l] /\ (\A m \in Nodes(t) : lev2[m] = lev[m])
       /\ (\A m \in Nodes(t) : m # l => rng2[m] = rng[m])
       /\ (\A x \in Int : x \in rng2[l] <=> x \in rng[l] /\ x < up)
       /\ (\A x \in Int : x \in rng2[q] <=> x \in rng[l] /\ up <= x)
       /\ up \in rng2[q]
  BY <1>10 DEF IsCut
<1>12. /\ t2.root = t.root /\ t2.depth = t.depth
       /\ (\A m \in Nodes(t) : m # l =>
            t2.node[m].keys = t.node[m].keys /\ t2.node[m].seq = t.node[m].seq)
       /\ (\A m \in Nodes(t) : m # l /\ m # t.node[l].right => t2.node[m] = t.node[m])
  BY <1>9 DEF LeafIsSplit
<1>13. ASSUME NEW m \in Nodes(t), lev[m] = 0 PROVE LeafMoves(t, rng, t2, rng2, m)
  <2>1. rng[m] \subseteq Int /\ rng2[m] \subseteq Int /\ rng2[m] # {} /\ m \in Nodes(t2)
    BY <1>10 DEF Shape, Ranges
  <2>2. t.node[m].seq \in Nat
    BY <1>1, NodeFields
  <2>3. CASE m # l
    <3>1. rng2[m] = rng[m] /\ t2.node[m].keys = t.node[m].keys /\ t2.node[m].seq = t.node[m].seq
      BY <1>11, <1>12, <2>3
    <3>2. \A x \in rng[m] : \E y \in rng2[m] : y <= x
      BY <2>1, <3>1
    <3> QED
      BY <2>2, <3>1, <3>2 DEF LeafMoves
  <2>4. CASE m = l
    <3>1. t2.node[m].seq = t.node[m].seq + 1
      BY <1>3, <1>5, <2>4
    <3>2. ASSUME NEW x \in rng[m] PROVE \E y \in rng2[m] : y <= x
      <4>1. PICK y \in rng2[m] : TRUE
        BY <2>1
      <4>2. x \in Int /\ y \in Int /\ up \in Int /\ y < up
        BY <1>9, <1>11, <2>1, <2>4, <4>1, ConstantFacts
      <4>3. CASE x < up
        <5>1. x \in rng2[m] /\ x <= x
          BY <1>11, <2>4, <4>2, <4>3
        <5> QED
          BY <5>1
      <4>4. CASE ~(x < up)
        <5>1. y <= x
          BY <4>2, <4>4
        <5> QED
          BY <5>1
      <4> QED
        BY <4>3, <4>4
    <3> QED
      BY <2>2, <3>1, <3>2 DEF LeafMoves
  <2> QED
    BY <2>3, <2>4
<1>14. ASSUME NEW x PROVE Holds(t2, lev2, x) <=> Holds(t, lev, x) \/ x = key
  <2>1. Among(t2.node[l].keys, x) \/ Among(t2.node[q].keys, x) <=> Among(t.node[l].keys, x) \/ x = key
    BY <1>3, <1>5
  <2>2. \A m \in Nodes(t) : m # l => (Among(t2.node[m].keys, x) <=> Among(t.node[m].keys, x))
    BY <1>12
  <2>3. lev2[q] = 0 /\ lev2[l] = 0
    BY <1>11
  <2>4. q \in Nodes(t2) /\ l \in Nodes(t2) /\ (\A m \in Nodes(t) : m \in Nodes(t2))
    BY <1>10
  <2>5. ASSUME Holds(t2, lev2, x) PROVE Holds(t, lev, x) \/ x = key
    <3>1. PICK m \in Nodes(t2) : lev2[m] = 0 /\ Among(t2.node[m].keys, x)
      BY <2>5 DEF Holds
    <3>2. CASE m = q \/ m = l
      BY <2>1, <3>1, <3>2 DEF Holds
    <3>3. CASE m # q /\ m # l
      <4>1. m \in Nodes(t)
        BY <1>10, <3>3
      <4>2. lev[m] = 0 /\ Among(t.node[m].keys, x)
        BY <1>11, <2>2, <3>1, <3>3, <4>1
      <4> QED
        BY <4>1, <4>2 DEF Holds
    <3> QED
      BY <3>2, <3>3
  <2>6. ASSUME Holds(t, lev, x) \/ x = key PROVE Holds(t2, lev2, x)
    <3>1. CASE x = key \/ Among(t.node[l].keys, x)
      BY <2>1, <2>3, <2>4, <3>1 DEF Holds
    <3>2. CASE ~(x = key \/ Among(t.node[l].keys, x))
      <4>1. PICK m \in Nodes(t) : lev[m] = 0 /\ Among(t.node[m].keys, x)
        BY <2>6, <3>2 DEF Holds
      <4>2. m # l /\ m \in Nodes(t2) /\ lev2[m] = 0
        BY <1>11, <2>4, <3>2, <4>1
      <4>3. Among(t2.node[m].keys, x)
        BY <2>2, <4>1, <4>2
      <4> QED
        BY <4>2, <4>3 DEF Holds
    <3> QED
      BY <3>1, <3>2
  <2> QED
    BY <2>5, <2>6
<1>15. Gains(t, lev, rng, key, t2, lev2, rng2)
  BY <1>10, <1>11, <1>13, <1>14 DEF Gains, Extends
<1>16. ASSUME NEW m \in Nodes(t2), lev2[m] > 0
       PROVE  m \in Nodes(t) /\ t2.node[m] = t.node[m] /\ rng2[m] = rng[m]
  <2>1. lev2[q] = 0 /\ lev2[l] = 0
    BY <1>11
  <2>2. m # q /\ m # l
    BY <1>16, <2>1
  <2>3. m \in Nodes(t)
    BY <1>10, <2>2
  <2>4. lev[m] # 0
    BY <1>11, <1>16, <2>3
  <2>5. m # t.node[l].right
    <3>1. m # NULL
      BY <1>1, <2>3, NodeFields
    <3>2. PICK p : p = t.node[l].right
      OBVIOUS
    <3>3. p # NULL => lev[p] = 0
      BY <3>2, Neighbours
    <3> QED
      BY <2>4, <3>1, <3>2, <3>3
  <2> QED
    BY <1>11, <1>12, <2>2, <2>3, <2>5
<1>17. (\A m \in Nodes(t) : cov2[m] = rng[m])
  <2>1. ASSUME NEW m \in Nodes(t) PROVE cov2[m] = rng[m]
    <3>1. m \in 1 .. Len(t.node) + 1 /\ m # Len(t.node) + 1
      BY <1>1, NodeFields DEF Nodes
    <3> QED
      BY <1>8, <3>1 DEF CovNew
  <2> QED
    BY <2>1
<1>18. ASSUME NEW m \in Nodes(t2), m # l, m # q PROVE cov2[m] = rng2[m]
  BY <1>10, <1>11, <1>17, <1>18
<1>19. cov2[l] = rng[l]
  BY <1>17
<1>20. HandsUp(r, l, lev2, rng2, cov2)
  <2>1. ASSUME r.alone, NEW x \in Int, up <= x PROVE x \in rng2[q]
    <3>1. t.node[l].right = NULL
      BY <1>3, <2>1
    <3>2. UpClosed(rng[l])
      BY <3>1 DEF Shape, LeafOK, LeafLinks
    <3>3. up \in rng[l] /\ up \in Int
      BY <1>9, <1>11, ConstantFacts
    <3>4. x \in rng[l]
      BY <2>1, <3>2, <3>3 DEF UpClosed
    <3> QED
      BY <1>11, <2>1, <3>4
  <2>2. q \in Nodes(t2) /\ r.new = q /\ r.up = up /\ r.t = t2
    BY <1>3, <1>4, <1>5, <1>10
  <2> QED
    BY <1>9, <1>10, <2>1, <2>2 DEF HandsUp
<1>21. r.new # NULL
  <2>1. Len(t.node) \in Nat
    BY <1>1, NodeFields
  <2> QED
    BY <1>2, <1>3, <2>1 DEF NULL
<1>22. IsReturn(t, lev, rng, key, r, l, 0, lev2, rng2, cov2)
  <2>1. r.t = t2 /\ r.new = q
    BY <1>3, <1>5
  <2> QED
    BY <1>10, <1>12, <1>15, <1>16, <1>18, <1>19, <1>20, <1>21, <2>1 DEF IsReturn
<1> QED
  BY <1>22

\* The calls return from the leaf of the key.
LEMMA LeafInsertIs ==
  ASSUME NEW t, NEW lev, NEW rng, Shape(t, lev, rng, rng),
         NEW l \in Nodes(t), lev[l] = 0, NEW key \in Keys, key \in rng[l],
         NEW r, r = LeafInsert(t, l, key)
  PROVE  \E lev2, rng2, cov2 : IsReturn(t, lev, rng, key, r, l, 0, lev2, rng2, cov2)
<1>1. t \in TreeType
  BY DEF Shape
<1>2. PICK s : s = t.node[l].keys
  OBVIOUS
<1>3. s \in Seq(Keys)
  BY <1>1, <1>2, NodeFields
<1>4. PICK k : k = Below(s, key)
  OBVIOUS
<1>5. /\ k \in 0 .. Len(s)
      /\ (k < Len(s) /\ s[k + 1] = key => Among(s, key))
      /\ (~(k < Len(s) /\ s[k + 1] = key) => NewKey(s, key, k))
  BY <1>3, <1>4, LeafScan
<1>6. CASE k < Len(s) /\ s[k + 1] = key
  <2>0. PICK o : o = FALSE
    OBVIOUS
  <2>1. r = Returned(t, NULL, key, o)
    BY <1>2, <1>4, <1>6, <2>0, Zenon DEF LeafInsert
  <2>2. r.t = t /\ r.new = NULL
    BY <2>1, ReturnedIs
  <2>3. Among(t.node[l].keys, key)
    BY <1>2, <1>5, <1>6
  <2> QED
    BY <2>2, <2>3, LeafHasKey
<1>7. CASE ~(k < Len(s) /\ s[k + 1] = key) /\ Len(s) = M
  <2>1. r = SplitLeaf(t, l, k, key)
    BY <1>2, <1>4, <1>7, Zenon DEF LeafInsert, Full
  <2>2. NewKey(s, key, k)
    BY <1>5, <1>7
  <2> QED
    BY <1>2, <1>5, <1>7, <2>1, <2>2, LeafSplitsForKey
<1>8. CASE ~(k < Len(s) /\ s[k + 1] = key) /\ Len(s) # M
  <2>1. PICK u : u = SetNode(t, l, WithKeys(t.node[l], InsertAt(s, k + 1, key), t.node[l].right))
    OBVIOUS
  <2>0. PICK o : o = FALSE
    OBVIOUS
  <2>2. r = Returned(u, NULL, key, o)
    BY <1>2, <1>4, <1>8, <2>0, <2>1, Zenon DEF LeafInsert, Full
  <2>3. r.t = u /\ r.new = NULL
    BY <2>2, ReturnedIs
  <2>4. NewKey(s, key, k)
    BY <1>5, <1>8
  <2> QED
    BY <1>2, <1>5, <1>8, <2>1, <2>3, <2>4, LeafTakesKey
<1> QED
  BY <1>6, <1>7, <1>8

\* The path of key leads from p, at height d + 1, to its child n in place k.
Descends(t, lev, rng, key, p, n, k, d) ==
  /\ p \in Nodes(t) /\ n \in Nodes(t) /\ lev[p] = d + 1 /\ lev[n] = d /\ d \in Nat
  /\ k = UpTo(t.node[p].keys, key) /\ k \in 0 .. Len(t.node[p].keys) /\ t.node[p].kids[k + 1] = n
  /\ key \in rng[p] /\ key \in rng[n]

\* The parent is as the call found it.
LEMMA ParentKept ==
  ASSUME NEW t, NEW lev, NEW rng, NEW key, NEW p, NEW n, NEW k, NEW d, Descends(t, lev, rng, key, p, n, k, d),
         NEW r, NEW lev2, NEW rng2, NEW cov2, IsReturn(t, lev, rng, key, r, n, d, lev2, rng2, cov2)
  PROVE  /\ p \in Nodes(r.t) /\ n \in Nodes(r.t) /\ lev2[p] = d + 1 /\ lev2[n] = d /\ d \in Nat
         /\ r.t.node[p] = t.node[p] /\ rng2[p] = rng[p] /\ cov2[p] = rng2[p] /\ p # n /\ p # r.new
         /\ r.t \in TreeType /\ p # NULL /\ n # NULL
<1>1. p \in Nodes(t) /\ n \in Nodes(t) /\ lev[p] = d + 1 /\ lev[n] = d /\ d \in Nat
  BY DEF Descends
<1>2. Nodes(t) \subseteq Nodes(r.t) /\ (\A m \in Nodes(t) : lev2[m] = lev[m])
  BY DEF IsReturn, Gains, Extends
<1>3. p \in Nodes(r.t) /\ n \in Nodes(r.t) /\ lev2[p] = d + 1 /\ lev2[n] = d /\ p # n
  BY <1>1, <1>2
<1>4. lev2[p] > d
  BY <1>1, <1>3
<1>5. r.t.node[p] = t.node[p] /\ rng2[p] = rng[p]
  BY <1>3, <1>4 DEF IsReturn
<1>6. r.t \in TreeType
  BY DEF IsReturn, Shape
<1>7. p # NULL /\ n # NULL
  BY <1>3, <1>6, NodeFields
<1>8. p # r.new
  <2>1. r.new # NULL => lev2[r.new] = lev2[n]
    BY DEF IsReturn, HandsUp, Pending
  <2>2. r.new # NULL => lev2[r.new] = d
    BY <1>3, <2>1
  <2> QED
    BY <1>1, <1>3, <1>7, <2>2
<1>9. cov2[p] = rng2[p]
  BY <1>3, <1>8 DEF IsReturn
<1> QED
  BY <1>1, <1>3, <1>5, <1>6, <1>7, <1>8, <1>9

\* The call for the child made no new node.
LEMMA NothingNew ==
  ASSUME NEW t, NEW lev, NEW rng, NEW key, NEW p, NEW n, NEW k, NEW d, Descends(t, lev, rng, key, p, n, k, d),
         NEW r, NEW lev2, NEW rng2, NEW cov2, IsReturn(t, lev, rng, key, r, n, d, lev2, rng2, cov2),
         r.new = NULL, NEW e, e = d + 1
  PROVE  IsReturn(t, lev, rng, key, r, p, e, lev2, rng2, cov2)
<1>1. /\ p \in Nodes(r.t) /\ d \in Nat /\ rng2[p] = rng[p] /\ cov2[p] = rng2[p]
      /\ p # NULL /\ n # NULL /\ r.t \in TreeType
  BY ParentKept
<1>2. /\ Shape(r.t, lev2, rng2, cov2) /\ r.t.root = t.root /\ r.t.depth = t.depth
      /\ Gains(t, lev, rng, key, r.t, lev2, rng2)
      /\ (\A m \in Nodes(r.t) : lev2[m] > d =>
           m \in Nodes(t) /\ r.t.node[m] = t.node[m] /\ rng2[m] = rng[m])
      /\ (\A m \in Nodes(r.t) : m # n /\ m # r.new => cov2[m] = rng2[m])
      /\ cov2[n] = rng[n] /\ rng2[n] = rng[n]
  BY DEF IsReturn
<1>3. lev2 \in [Nodes(r.t) -> Nat]
  BY <1>2 DEF Shape, Ranges
<1>4. ASSUME NEW m \in Nodes(r.t), lev2[m] > e
      PROVE  m \in Nodes(t) /\ r.t.node[m] = t.node[m] /\ rng2[m] = rng[m]
  <2>1. lev2[m] > d
    BY <1>1, <1>3, <1>4
  <2> QED
    BY <1>2, <2>1
<1>5. ASSUME NEW m \in Nodes(r.t), m # p, m # r.new PROVE cov2[m] = rng2[m]
  BY <1>2, <1>5
<1>6. cov2[p] = rng[p] /\ rng2[p] = rng[p]
  BY <1>1
<1> QED
  BY <1>2, <1>4, <1>5, <1>6 DEF IsReturn

\* The parent has room for the new node.
LEMMA ParentTakes ==
  ASSUME NEW t, NEW lev, NEW rng, NEW key, NEW p, NEW n, NEW k, NEW d, Descends(t, lev, rng, key, p, n, k, d),
         NEW r, NEW lev2, NEW rng2, NEW cov2, IsReturn(t, lev, rng, key, r, n, d, lev2, rng2, cov2),
         r.new # NULL, Len(r.t.node[p].keys) < NENT, NEW e, e = d + 1,
         NEW w, w.t = WithChild(r.t, p, k, r.up, r.new), w.new = NULL
  PROVE  \E lev3, rng3, cov3 : IsReturn(t, lev, rng, key, w, p, e, lev3, rng3, cov3)
<1>1. /\ p \in Nodes(r.t) /\ n \in Nodes(r.t) /\ lev2[p] = d + 1 /\ lev2[n] = d /\ d \in Nat
      /\ r.t.node[p] = t.node[p] /\ rng2[p] = rng[p] /\ cov2[p] = rng2[p] /\ p # n /\ p # r.new
      /\ r.t \in TreeType /\ p # NULL /\ n # NULL
  BY ParentKept
<1>2. /\ Shape(r.t, lev2, rng2, cov2) /\ r.t.root = t.root /\ r.t.depth = t.depth
      /\ Gains(t, lev, rng, key, r.t, lev2, rng2)
      /\ (\A m \in Nodes(r.t) : lev2[m] > d =>
           m \in Nodes(t) /\ r.t.node[m] = t.node[m] /\ rng2[m] = rng[m])
      /\ (\A m \in Nodes(r.t) : m # n /\ m # r.new => cov2[m] = rng2[m])
      /\ HandsUp(r, n, lev2, rng2, cov2)
  BY DEF IsReturn
<1>3. PICK u : u = r.t
  OBVIOUS
<1>4. PICK new : new = r.new
  OBVIOUS
<1>5. PICK up : up = r.up
  OBVIOUS
<1>6. new \in Nodes(u) /\ up \in Keys /\ Pending(lev2, rng2, cov2, n, new, up)
  BY <1>2, <1>3, <1>4, <1>5 DEF HandsUp
<1>7. k \in 0 .. Len(u.node[p].keys) /\ u.node[p].kids[k + 1] = n
  BY <1>1, <1>3 DEF Descends
<1>8. PICK t3 : t3 = WithChild(u, p, k, up, new)
  OBVIOUS
<1>9. PICK cov3 : cov3 = CovTaken(rng2, cov2, n, new)
  OBVIOUS
<1>10. Shape(u, lev2, rng2, cov2) /\ p \in Nodes(u) /\ n \in Nodes(u) /\ Len(u.node[p].keys) < NENT
  BY <1>1, <1>2, <1>3
<1>11. lev2[p] > 0
  BY <1>1
<1>12. /\ Shape(t3, lev2, rng2, cov3)
       /\ Len(t3.node) = Len(u.node) /\ t3.root = u.root /\ t3.depth = u.depth
       /\ \A m \in Nodes(u) : m # p => t3.node[m] = u.node[m]
  <2>1. Shape(t3, lev2, rng2, cov3) /\ Len(t3.node) = Len(u.node) /\ Keeps(u, p, t3)
    <3>1. Waits(u, lev2, rng2, cov2, n, new, up, p, k)
      BY <1>6, <1>7, <1>10, <1>11 DEF Waits
    <3> QED
      BY <1>8, <1>9, <1>10, <3>1, Attach
  <2> QED
    BY <2>1 DEF Keeps
<1>13. Nodes(t3) = Nodes(u)
  BY <1>12 DEF Nodes
<1>14. w.t = t3 /\ w.new = NULL
  BY <1>3, <1>4, <1>5, <1>8
<1>15. Gains(t, lev, rng, key, t3, lev2, rng2)
  <2>1. ASSUME NEW m \in Nodes(u), lev2[m] = 0 PROVE t3.node[m] = u.node[m]
    <3>1. m # p
      BY <1>11, <2>1
    <3> QED
      BY <1>12, <3>1
  <2>2. LeavesStay(u, lev2, rng2, t3, lev2, rng2)
    BY <1>13, <2>1 DEF LeavesStay, Extends, SameLeaves
  <2> QED
    BY <1>2, <1>3, <2>2, GainsStay
<1>16. lev2 \in [Nodes(u) -> Nat] /\ cov2 \in [Nodes(u) -> SUBSET Int]
  BY <1>10 DEF Shape, Ranges
<1>17. ASSUME NEW m \in Nodes(t3), lev2[m] > e
       PROVE  m \in Nodes(t) /\ t3.node[m] = t.node[m] /\ rng2[m] = rng[m]
  <2>1. lev2[m] > d /\ m # p /\ m \in Nodes(u)
    BY <1>1, <1>13, <1>16, <1>17
  <2> QED
    BY <1>2, <1>3, <1>12, <2>1
<1>18. ASSUME NEW m \in Nodes(t3) PROVE cov3[m] = rng2[m]
  <2>1. m \in Nodes(u)
    BY <1>13
  <2>2. n # new
    BY <1>6 DEF Pending
  <2>3. cov3[m] = IF m = new THEN rng2[new] ELSE IF m = n THEN rng2[n] ELSE cov2[m]
    BY <1>9, <1>16, <2>1, <2>2 DEF CovTaken
  <2> QED
    BY <1>2, <1>3, <1>4, <2>1, <2>3
<1>19. cov3[p] = rng[p] /\ rng2[p] = rng[p]
  BY <1>1, <1>3, <1>13, <1>18
<1>20. IsReturn(t, lev, rng, key, w, p, e, lev2, rng2, cov3)
  <2>1. t3.root = t.root /\ t3.depth = t.depth
    BY <1>2, <1>3, <1>12
  <2> QED
    BY <1>12, <1>14, <1>15, <1>17, <1>18, <1>19, <2>1 DEF IsReturn
<1> QED
  BY <1>20

LEMMA NodesGrow ==
  ASSUME NEW t \in TreeType, NEW t2, NEW q, q = Len(t.node) + 1, Len(t2.node) = q
  PROVE  Nodes(t2) = Nodes(t) \union {q} /\ ~(q \in Nodes(t)) /\ q # NULL
BY NodeFields DEF Nodes, NULL

LEMMA CovIsNew ==
  ASSUME NEW t \in TreeType, NEW cov, NEW cov2, cov2 = CovNew(t, cov), NEW q, q = Len(t.node) + 1
  PROVE  cov2[q] = {} /\ \A m \in Nodes(t) : cov2[m] = cov[m]
<1>1. Len(t.node) \in Nat
  BY NodeFields
<1>2. q \in 1 .. Len(t.node) + 1
  BY <1>1
<1>3. ASSUME NEW m \in Nodes(t) PROVE m \in 1 .. Len(t.node) + 1 /\ m # Len(t.node) + 1
  BY <1>1 DEF Nodes
<1> QED
  BY <1>2, <1>3 DEF CovNew

\* A full parent of a lone node: the node starts one of its own.
LEMMA ParentStarts ==
  ASSUME NEW t, NEW lev, NEW rng, NEW key, NEW p, NEW n, NEW k, NEW d, Descends(t, lev, rng, key, p, n, k, d),
         NEW r, NEW lev2, NEW rng2, NEW cov2, IsReturn(t, lev, rng, key, r, n, d, lev2, rng2, cov2),
         r.new # NULL, r.alone, NEW e, e = d + 1,
         NEW w, w.t = NewNode(r.t, InnerNode(<< >>, << r.new >>)),
         w.new = Len(r.t.node) + 1, w.up = r.up
  PROVE  \E lev3, rng3, cov3 : IsReturn(t, lev, rng, key, w, p, e, lev3, rng3, cov3)
<1>1. /\ p \in Nodes(r.t) /\ n \in Nodes(r.t) /\ lev2[p] = d + 1 /\ lev2[n] = d /\ d \in Nat
      /\ r.t.node[p] = t.node[p] /\ rng2[p] = rng[p] /\ cov2[p] = rng2[p] /\ p # n /\ p # r.new
      /\ r.t \in TreeType /\ p # NULL /\ n # NULL
  BY ParentKept
<1>2. /\ Shape(r.t, lev2, rng2, cov2) /\ r.t.root = t.root /\ r.t.depth = t.depth
      /\ Gains(t, lev, rng, key, r.t, lev2, rng2)
      /\ (\A m \in Nodes(r.t) : lev2[m] > d =>
           m \in Nodes(t) /\ r.t.node[m] = t.node[m] /\ rng2[m] = rng[m])
      /\ (\A m \in Nodes(r.t) : m # n /\ m # r.new => cov2[m] = rng2[m])
      /\ HandsUp(r, n, lev2, rng2, cov2)
  BY DEF IsReturn
<1>3. PICK u : u = r.t
  OBVIOUS
<1>4. PICK new : new = r.new
  OBVIOUS
<1>5. PICK up : up = r.up
  OBVIOUS
<1>6. /\ new \in Nodes(u) /\ up \in Keys /\ Pending(lev2, rng2, cov2, n, new, up)
      /\ \A x \in Int : up <= x => x \in rng2[new]
  BY <1>2, <1>3, <1>4, <1>5 DEF HandsUp
<1>7. k \in 0 .. Len(u.node[p].keys) /\ u.node[p].kids[k + 1] = n
  BY <1>1, <1>3 DEF Descends
<1>8. Shape(u, lev2, rng2, cov2) /\ p \in Nodes(u) /\ n \in Nodes(u) /\ u \in TreeType /\ cov2[p] = rng2[p]
  BY <1>1, <1>2, <1>3
<1>9. Waits(u, lev2, rng2, cov2, n, new, up, p, k)
  <2>1. lev2[p] > 0
    BY <1>1
  <2> QED
    BY <1>6, <1>7, <1>8, <2>1 DEF Waits
<1>10. PICK t3 : t3 = NewNode(u, InnerNode(<< >>, << new >>))
  OBVIOUS
<1>11. PICK q : q = Len(u.node) + 1
  OBVIOUS
<1>12. PICK lev3 : lev3 = LevNew(u, lev2, p)
  OBVIOUS
<1>13. PICK rng3 : rng3 = RngCut(u, rng2, p, up)
  OBVIOUS
<1>14. PICK covT : covT = CovTaken(rng2, cov2, n, new)
  OBVIOUS
<1>15. PICK cov3 : cov3 = CovNew(u, covT)
  OBVIOUS
<1>16. /\ Shape(t3, lev3, rng3, cov3) /\ Pending(lev3, rng3, cov3, p, q, up)
       /\ Len(t3.node) = q /\ Keeps(u, NULL, t3)
       /\ IsCut(u, lev2, rng2, p, up, q, lev3, rng3)
  BY <1>6, <1>8, <1>9, <1>10, <1>11, <1>12, <1>13, <1>14, <1>15, Lone
<1>17. /\ lev3[q] = lev2[p] /\ (\A m \in Nodes(u) : lev3[m] = lev2[m])
       /\ (\A m \in Nodes(u) : m # p => rng3[m] = rng2[m])
       /\ (\A x \in Int : x \in rng3[q] <=> x \in rng2[p] /\ up <= x)
  BY <1>16 DEF IsCut
<1>18. Nodes(t3) = Nodes(u) \union {q} /\ ~(q \in Nodes(u)) /\ q # NULL
  <2>1. Len(u.node) \in Nat
    BY <1>8, NodeFields
  <2> QED
    BY <1>11, <1>16, <2>1 DEF Nodes, NULL
<1>19. t3.root = t.root /\ t3.depth = t.depth /\ \A m \in Nodes(u) : t3.node[m] = u.node[m]
  <2>1. \A m \in Nodes(u) : m # NULL
    BY <1>8, NodeFields
  <2> QED
    BY <1>2, <1>3, <1>16, <2>1 DEF Keeps
<1>20. w.t = t3 /\ w.new = q /\ w.up = up
  BY <1>3, <1>4, <1>5, <1>10, <1>11
<1>21. /\ cov3[q] = {} /\ \A m \in Nodes(u) : cov3[m] = covT[m]
  BY <1>8, <1>11, <1>15, CovIsNew, SMTT(20)
<1>22. ASSUME NEW m \in Nodes(u) PROVE covT[m] = rng2[m]
  <2>1. rng2 \in [Nodes(u) -> SUBSET Int] /\ cov2 \in [Nodes(u) -> SUBSET Int] /\ new # n
    BY <1>6, <1>8 DEF Shape, Ranges, Pending
  <2>2. covT[m] = IF m = new THEN rng2[new] ELSE IF m = n THEN rng2[n] ELSE cov2[m]
    BY <1>14, <2>1 DEF CovTaken
  <2> QED
    BY <1>2, <1>3, <1>4, <2>2
<1>23. lev3[q] = d + 1 /\ lev2 \in [Nodes(u) -> Nat]
  BY <1>1, <1>8, <1>17 DEF Shape, Ranges
<1>24. Gains(t, lev, rng, key, t3, lev3, rng3)
  <2>1. lev3[q] # 0
    BY <1>1, <1>23
  <2>2. ASSUME NEW m \in Nodes(u), lev2[m] = 0 PROVE t3.node[m] = u.node[m] /\ rng3[m] = rng2[m]
    <3>1. m # p
      BY <1>1, <2>2
    <3> QED
      BY <1>17, <1>19, <3>1
  <2>3. LeavesStay(u, lev2, rng2, t3, lev3, rng3)
    BY <1>17, <1>18, <2>1, <2>2 DEF LeavesStay, Extends, SameLeaves
  <2> QED
    BY <1>2, <1>3, <2>3, GainsStay
<1>25. ASSUME NEW m \in Nodes(t3), lev3[m] > e
       PROVE  m \in Nodes(t) /\ t3.node[m] = t.node[m] /\ rng3[m] = rng[m]
  <2>1. m # q
    BY <1>1, <1>23, <1>25
  <2>2. m \in Nodes(u)
    BY <1>18, <2>1
  <2>3. lev2[m] > e
    BY <1>17, <1>25, <2>2
  <2>4. lev2[m] > d /\ m # p
    BY <1>1, <1>23, <2>2, <2>3
  <2> QED
    BY <1>2, <1>3, <1>17, <1>19, <2>2, <2>4
<1>26. ASSUME NEW m \in Nodes(t3), m # p, m # q PROVE cov3[m] = rng3[m]
  BY <1>17, <1>18, <1>21, <1>22, <1>26
<1>27. cov3[p] = rng[p]
  BY <1>1, <1>8, <1>21, <1>22
<1>28. HandsUp(w, p, lev3, rng3, cov3)
  <2>1. ASSUME NEW x \in Int, up <= x PROVE x \in rng3[q]
    <3>1. x \in rng2[new]
      BY <1>6, <2>1
    <3>2. x \in cov2[n]
      BY <1>6, <3>1 DEF Pending
    <3>3. x \in rng2[p]
      <4>1. InnerOK(u, lev2, rng2, cov2, p)
        BY <1>8, <1>9 DEF Shape, Waits
      <4>2. u.node[p].keys \in Seq(Keys) /\ Len(u.node[p].kids) = Len(u.node[p].keys) + 1
        BY <1>8, <4>1, NodeFields DEF InnerOK, InnerKeys
      <4>3. k + 1 \in 1 .. Len(u.node[p].kids)
        BY <1>7, <4>2
      <4>4. KidOK(u, lev2, rng2, cov2, p, k + 1)
        BY <4>1, <4>3 DEF InnerOK
      <4> QED
        BY <1>7, <3>2, <4>4 DEF KidOK
    <3> QED
      BY <1>17, <2>1, <3>3
  <2>2. q \in Nodes(t3)
    BY <1>18
  <2> QED
    BY <1>6, <1>16, <1>20, <2>1, <2>2 DEF HandsUp
<1>29. IsReturn(t, lev, rng, key, w, p, e, lev3, rng3, cov3)
  BY <1>16, <1>18, <1>19, <1>20, <1>24, <1>25, <1>26, <1>27, <1>28 DEF IsReturn
<1> QED
  BY <1>29

\* A full parent: the child is in the half that the pivot is sent to.
SameSide(x, mid, k) == x >= mid <=> k >= threshold

LEMMA PivotSide ==
  ASSUME NEW t, NEW lev, NEW rng, NEW cov, Shape(t, lev, rng, cov),
         NEW p \in Nodes(t), lev[p] > 0, NEW k \in 0 .. Len(t.node[p].keys),
         Len(t.node[p].keys) = NENT, NEW n, n = t.node[p].kids[k + 1],
         NEW x \in Int, x \in cov[n], NEW mid, mid = t.node[p].keys[threshold]
  PROVE  SameSide(x, mid, k)
<1>1. InnerOK(t, lev, rng, cov, p) /\ t \in TreeType
  BY DEF Shape
<1>2. PICK s : s = t.node[p].keys
  OBVIOUS
<1>3. s \in Seq(Keys) /\ Len(t.node[p].kids) = Len(s) + 1 /\ Ascending(s)
  BY <1>1, <1>2, NodeFields DEF InnerOK, InnerKeys
<1>4. PICK h : h = threshold
  OBVIOUS
<1>5. NENT \in Nat /\ h \in Nat /\ 2 <= h /\ h < NENT
  BY <1>4, ConstantFacts, Zenon
<1>6. Len(s) = NENT /\ k \in 0 .. NENT
  BY <1>2
<1>7. k + 1 \in 1 .. Len(t.node[p].kids) /\ (k + 1) - 1 = k
  BY <1>3, <1>5, <1>6
<1>8. KidOK(t, lev, rng, cov, p, k + 1)
  BY <1>1, <1>7 DEF InnerOK
<1>9. Slot(s, x, k)
  BY <1>2, <1>7, <1>8 DEF KidOK
<1>10. (k > 0 => s[k] <= x) /\ (k < NENT => x < s[k + 1])
  BY <1>6, <1>9 DEF Slot
<1>11. \A i \in 1 .. NENT : s[i] \in Int
  BY <1>3, <1>6, KeySeq
<1>12. \A i, j \in 1 .. NENT : i < j => s[i] < s[j]
  BY <1>3, <1>6 DEF Ascending
<1>13. h \in 1 .. NENT /\ s[h] \in Int
  BY <1>5, <1>11
<1>14. CASE k >= h
  <2>1. k \in 1 .. NENT /\ k > 0 /\ s[k] \in Int
    BY <1>5, <1>6, <1>11, <1>14
  <2>2. h = k \/ s[h] < s[k]
    BY <1>5, <1>6, <1>12, <1>13, <1>14, <2>1
  <2>3. x >= s[h]
    BY <1>10, <1>13, <2>1, <2>2
  <2> QED
    BY <1>2, <1>4, <1>14, <2>3 DEF SameSide
<1>15. CASE ~(k >= h)
  <2>1. k + 1 \in 1 .. NENT /\ k < NENT /\ s[k + 1] \in Int
    BY <1>5, <1>6, <1>11, <1>15
  <2>2. k + 1 = h \/ s[k + 1] < s[h]
    BY <1>5, <1>6, <1>12, <1>13, <1>15, <2>1
  <2>3. ~(x >= s[h])
    BY <1>10, <1>13, <2>1, <2>2
  <2> QED
    BY <1>2, <1>4, <1>15, <2>3 DEF SameSide
<1> QED
  BY <1>14, <1>15

\* The half that takes the new node, and the place in it.
TakenBy(k, p, q, into, slot) ==
  /\ k >= threshold => into = q /\ slot = k - threshold
  /\ ~(k >= threshold) => into = p /\ slot = k

LEMMA ParentHalves ==
  ASSUME NEW t, NEW lev, NEW rng, NEW key, NEW p, NEW n, NEW k, NEW d, Descends(t, lev, rng, key, p, n, k, d),
         NEW r, NEW lev2, NEW rng2, NEW cov2, IsReturn(t, lev, rng, key, r, n, d, lev2, rng2, cov2),
         r.new # NULL, Len(r.t.node[p].keys) = NENT, NEW e, e = d + 1,
         NEW q, q = Len(r.t.node) + 1, NEW into, NEW slot, TakenBy(k, p, q, into, slot),
         NEW w, w.t = WithChild(Halved(r.t, p), into, slot, r.up, r.new),
         w.new = q, w.up = r.t.node[p].keys[threshold], ~w.alone
  PROVE  \E lev3, rng3, cov3 : IsReturn(t, lev, rng, key, w, p, e, lev3, rng3, cov3)
<1>1. /\ p \in Nodes(r.t) /\ n \in Nodes(r.t) /\ lev2[p] = d + 1 /\ lev2[n] = d /\ d \in Nat
      /\ r.t.node[p] = t.node[p] /\ rng2[p] = rng[p] /\ cov2[p] = rng2[p] /\ p # n /\ p # r.new
      /\ r.t \in TreeType /\ p # NULL /\ n # NULL
  BY ParentKept
<1>2. /\ Shape(r.t, lev2, rng2, cov2) /\ r.t.root = t.root /\ r.t.depth = t.depth
      /\ Gains(t, lev, rng, key, r.t, lev2, rng2)
      /\ (\A m \in Nodes(r.t) : lev2[m] > d =>
           m \in Nodes(t) /\ r.t.node[m] = t.node[m] /\ rng2[m] = rng[m])
      /\ (\A m \in Nodes(r.t) : m # n /\ m # r.new => cov2[m] = rng2[m])
      /\ HandsUp(r, n, lev2, rng2, cov2)
  BY DEF IsReturn
<1>3. PICK u : u = r.t
  OBVIOUS
<1>4. PICK new : new = r.new
  OBVIOUS
<1>5. PICK up : up = r.up
  OBVIOUS
<1>6. new \in Nodes(u) /\ up \in Keys /\ Pending(lev2, rng2, cov2, n, new, up)
  BY <1>2, <1>3, <1>4, <1>5 DEF HandsUp
<1>7. k \in 0 .. Len(u.node[p].keys) /\ u.node[p].kids[k + 1] = n
  BY <1>1, <1>3 DEF Descends
<1>8. /\ Shape(u, lev2, rng2, cov2) /\ p \in Nodes(u) /\ n \in Nodes(u) /\ u \in TreeType
      /\ cov2[p] = rng2[p] /\ Len(u.node[p].keys) = NENT /\ q = Len(u.node) + 1 /\ p # new
  BY <1>1, <1>2, <1>3, <1>4
<1>9. lev2[p] > 0
  BY <1>1
<1>10. PICK mid : mid = u.node[p].keys[threshold]
  OBVIOUS
<1>11. PICK t3 : t3 = Halved(u, p)
  OBVIOUS
<1>12. PICK lev3 : lev3 = LevNew(u, lev2, p)
  OBVIOUS
<1>13. PICK rng3 : rng3 = RngCut(u, rng2, p, mid)
  OBVIOUS
<1>14. PICK cov3 : cov3 = CovNew(u, cov2)
  OBVIOUS
<1>15. /\ Shape(t3, lev3, rng3, cov3) /\ Pending(lev3, rng3, cov3, p, q, mid) /\ mid \in Keys
       /\ Len(t3.node) = q /\ Keeps(u, p, t3) /\ HasHalves(u, p, q, t3)
       /\ IsCut(u, lev2, rng2, p, mid, q, lev3, rng3)
  BY <1>8, <1>9, <1>10, <1>11, <1>12, <1>13, <1>14, Halve
<1>16. /\ lev3[q] = lev2[p] /\ (\A m \in Nodes(u) : lev3[m] = lev2[m])
       /\ (\A m \in Nodes(u) : m # p => rng3[m] = rng2[m])
  BY <1>15 DEF IsCut
<1>17. Nodes(t3) = Nodes(u) \union {q} /\ ~(q \in Nodes(u)) /\ q # NULL
  BY <1>8, <1>15, NodesGrow
<1>18. t3.root = t.root /\ t3.depth = t.depth /\ \A m \in Nodes(u) : m # p => t3.node[m] = u.node[m]
  BY <1>2, <1>3, <1>15 DEF Keeps
<1>19. cov3[q] = {} /\ \A m \in Nodes(u) : cov3[m] = cov2[m]
  BY <1>8, <1>14, CovIsNew
<1>20. Pending(lev3, rng3, cov3, n, new, up)
  <2>1. n # p /\ new # p
    BY <1>1, <1>8
  <2>2. /\ lev3[n] = lev2[n] /\ rng3[n] = rng2[n] /\ cov3[n] = cov2[n]
        /\ lev3[new] = lev2[new] /\ rng3[new] = rng2[new] /\ cov3[new] = cov2[new]
    BY <1>6, <1>8, <1>16, <1>19, <2>1
  <2> QED
    BY <1>6, <2>2 DEF Pending
<1>21. PICK h : h = threshold
  OBVIOUS
<1>22. NENT \in Nat /\ h \in Nat /\ 2 <= h /\ h < NENT
  BY <1>21, ConstantFacts, Zenon
<1>23. /\ Len(t3.node[p].keys) = h - 1 /\ Len(t3.node[q].keys) = NENT - h
       /\ (\A i \in 1 .. h : t3.node[p].kids[i] = u.node[p].kids[i])
       /\ (\A i \in 1 .. (NENT - h) + 1 : t3.node[q].kids[i] = u.node[p].kids[h + i])
  BY <1>15, <1>21 DEF HasHalves
<1>24. /\ into \in Nodes(t3) /\ lev3[into] = d + 1 /\ slot \in 0 .. Len(t3.node[into].keys)
       /\ Len(t3.node[into].keys) < NENT /\ t3.node[into].kids[slot + 1] = n
       /\ (into = p \/ into = q)
  <2>0. k \in 0 .. NENT
    BY <1>7, <1>8
  <2>1. CASE k >= h
    <3>1. into = q /\ slot = k - h
      BY <1>21, <2>1 DEF TakenBy
    <3>2. slot \in 0 .. NENT - h /\ slot + 1 \in 1 .. (NENT - h) + 1 /\ h + (slot + 1) = k + 1
      BY <1>22, <2>0, <2>1, <3>1
    <3>3. t3.node[q].kids[slot + 1] = n
      BY <1>7, <1>23, <3>2
    <3>4. NENT - h < NENT
      BY <1>22
    <3> QED
      BY <1>1, <1>16, <1>17, <1>23, <3>1, <3>2, <3>3, <3>4
  <2>2. CASE ~(k >= h)
    <3>1. into = p /\ slot = k
      BY <1>21, <2>2 DEF TakenBy
    <3>2. slot \in 0 .. h - 1 /\ slot + 1 \in 1 .. h /\ slot + 1 = k + 1 /\ h - 1 < NENT
      BY <1>22, <2>0, <2>2, <3>1
    <3>3. t3.node[p].kids[slot + 1] = n
      BY <1>7, <1>23, <3>2
    <3> QED
      BY <1>1, <1>8, <1>16, <1>17, <1>23, <3>1, <3>2, <3>3
  <2> QED
    BY <2>1, <2>2
<1>25. Waits(t3, lev3, rng3, cov3, n, new, up, into, slot)
  <2>1. n \in Nodes(t3) /\ new \in Nodes(t3) /\ lev3[into] > 0
    BY <1>1, <1>6, <1>8, <1>17, <1>24
  <2> QED
    BY <1>6, <1>20, <1>24, <2>1 DEF Waits
<1>26. PICK t4 : t4 = WithChild(t3, into, slot, up, new)
  OBVIOUS
<1>27. PICK cov4 : cov4 = CovTaken(rng3, cov3, n, new)
  OBVIOUS
<1>28. Shape(t4, lev3, rng3, cov4) /\ Len(t4.node) = Len(t3.node) /\ Keeps(t3, into, t4)
  BY <1>15, <1>24, <1>25, <1>26, <1>27, Attach
<1>29. /\ Nodes(t4) = Nodes(t3) /\ t4.root = t.root /\ t4.depth = t.depth
       /\ \A m \in Nodes(u) : m # p => t4.node[m] = u.node[m]
  <2>1. Nodes(t4) = Nodes(t3)
    BY <1>28 DEF Nodes
  <2>2. \A m \in Nodes(u) : m # p => m # into /\ m \in Nodes(t3)
    BY <1>17, <1>24
  <2> QED
    BY <1>18, <1>28, <2>1, <2>2 DEF Keeps
<1>30. w.t = t4 /\ w.new = q /\ w.up = mid
  BY <1>3, <1>4, <1>5, <1>10, <1>11, <1>26
<1>31. ASSUME NEW m \in Nodes(t3)
       PROVE  /\ (m = n => cov4[m] = rng3[n]) /\ (m = new => cov4[m] = rng3[new])
              /\ (m # n /\ m # new => cov4[m] = cov3[m])
  <2>1. rng3 \in [Nodes(t3) -> SUBSET Int] /\ cov3 \in [Nodes(t3) -> SUBSET Int]
    BY <1>15 DEF Shape, Ranges
  <2>2. new # n
    BY <1>20 DEF Pending
  <2> QED
    BY <1>27, <2>1, <2>2 DEF CovTaken
<1>32. lev3[q] = d + 1 /\ lev2 \in [Nodes(u) -> Nat]
  BY <1>1, <1>8, <1>16 DEF Shape, Ranges
<1>33. Gains(t, lev, rng, key, t4, lev3, rng3)
  <2>1. lev3[q] # 0
    BY <1>1, <1>32
  <2>2. ASSUME NEW m \in Nodes(u), lev2[m] = 0 PROVE t4.node[m] = u.node[m] /\ rng3[m] = rng2[m]
    <3>1. m # p
      BY <1>1, <2>2
    <3> QED
      BY <1>16, <1>29, <3>1
  <2>3. LeavesStay(u, lev2, rng2, t4, lev3, rng3)
    BY <1>16, <1>17, <1>29, <2>1, <2>2 DEF LeavesStay, Extends, SameLeaves
  <2> QED
    BY <1>2, <1>3, <2>3, GainsStay
<1>34. ASSUME NEW m \in Nodes(t4), lev3[m] > e
       PROVE  m \in Nodes(t) /\ t4.node[m] = t.node[m] /\ rng3[m] = rng[m]
  <2>1. m # q
    BY <1>1, <1>32, <1>34
  <2>2. m \in Nodes(u)
    BY <1>17, <1>29, <2>1
  <2>3. lev2[m] > e
    BY <1>16, <1>34, <2>2
  <2>4. lev2[m] > d /\ m # p
    BY <1>1, <1>32, <2>2, <2>3
  <2> QED
    BY <1>2, <1>3, <1>16, <1>29, <2>2, <2>4
<1>35. ASSUME NEW m \in Nodes(t4), m # p, m # q PROVE cov4[m] = rng3[m]
  <2>1. m \in Nodes(t3) /\ m \in Nodes(u)
    BY <1>17, <1>29, <1>35
  <2>2. m # n /\ m # new => cov3[m] = rng3[m]
    BY <1>2, <1>3, <1>4, <1>16, <1>19, <1>35, <2>1
  <2> QED
    BY <1>31, <2>1, <2>2
<1>36. p # n /\ p # new /\ q # n /\ q # new /\ p \in Nodes(t3) /\ q \in Nodes(t3)
  BY <1>1, <1>6, <1>8, <1>17
<1>37. cov4[p] = cov3[p] /\ cov4[q] = cov3[q]
  BY <1>31, <1>36
<1>38. cov4[p] = rng[p]
  BY <1>1, <1>8, <1>19, <1>37
<1>39. HandsUp(w, p, lev3, rng3, cov4)
  <2>1. Pending(lev3, rng3, cov4, p, q, mid)
    BY <1>15, <1>37 DEF Pending
  <2>2. q \in Nodes(t4)
    BY <1>29, <1>36
  <2> QED
    BY <1>15, <1>30, <2>1, <2>2 DEF HandsUp
<1>40. IsReturn(t, lev, rng, key, w, p, e, lev3, rng3, cov4)
  BY <1>17, <1>28, <1>29, <1>30, <1>33, <1>34, <1>35, <1>38, <1>39 DEF IsReturn
<1> QED
  BY <1>40

\* What an inner node makes of what the call for its child returned.
LEMMA InnerInsertIs ==
  ASSUME NEW t, NEW lev, NEW rng, NEW key \in Keys, NEW p, NEW n, NEW k, NEW d,
         Descends(t, lev, rng, key, p, n, k, d),
         NEW r, NEW lev2, NEW rng2, NEW cov2, IsReturn(t, lev, rng, key, r, n, d, lev2, rng2, cov2),
         NEW e, e = d + 1, NEW w, w = InnerInsert(r, p, e, key)
  PROVE  \E lev3, rng3, cov3 : IsReturn(t, lev, rng, key, w, p, e, lev3, rng3, cov3)
<1>1. /\ p \in Nodes(r.t) /\ n \in Nodes(r.t) /\ lev2[p] = d + 1 /\ d \in Nat
      /\ r.t.node[p] = t.node[p] /\ r.t \in TreeType
  BY ParentKept
<1>2. Shape(r.t, lev2, rng2, cov2) /\ cov2[n] = rng[n]
  BY DEF IsReturn
<1>3. k = UpTo(r.t.node[p].keys, key)
  BY <1>1 DEF Descends
<1>4. PICK s : s = r.t.node[p].keys
  OBVIOUS
<1>5. InnerOK(r.t, lev2, rng2, cov2, p) /\ lev2[p] > 0
  BY <1>1, <1>2 DEF Shape
<1>6. s \in Seq(Keys) /\ Len(s) <= NENT /\ Len(s) \in Nat /\ NENT \in Nat
  <2>1. s \in Seq(Keys) /\ Len(s) <= NENT
    BY <1>1, <1>4, <1>5, NodeFields DEF InnerOK, InnerKeys
  <2>2. NENT \in Nat
    BY ConstantFacts, Zenon
  <2> QED
    BY <2>1, <2>2
<1>7. PICK no : no = FALSE
  OBVIOUS
<1>8. CASE r.new = NULL
  <2>1. w = r
    BY <1>8 DEF InnerInsert
  <2> QED
    BY <1>8, <2>1, NothingNew
<1>9. CASE r.new # NULL /\ Len(s) # NENT
  <2>1. PICK u : u = WithChild(r.t, p, k, r.up, r.new)
    OBVIOUS
  <2>2. w = Returned(u, NULL, key, no)
    BY <1>3, <1>4, <1>7, <1>9, <2>1, Zenon DEF InnerInsert, Full
  <2>3. w.t = u /\ w.new = NULL
    BY <2>2, ReturnedIs
  <2>4. Len(r.t.node[p].keys) < NENT
    BY <1>4, <1>6, <1>9
  <2> QED
    BY <1>9, <2>1, <2>3, <2>4, ParentTakes
<1>10. CASE r.new # NULL /\ Len(s) = NENT
  <2>1. PICK pivot : pivot = IF e = 1 THEN r.up ELSE key
    OBVIOUS
  <2>2. w = SplitInner(r, p, k, pivot)
    BY <1>3, <1>4, <1>10, <2>1, Zenon DEF InnerInsert, Full
  <2>3. PICK q : q = Len(r.t.node) + 1
    OBVIOUS
  <2>4. CASE r.alone
    <3>1. PICK u : u = NewNode(r.t, InnerNode(<< >>, << r.new >>))
      OBVIOUS
    <3>2. PICK yes : yes = TRUE
      OBVIOUS
    <3>3. PICK up : up = r.up
      OBVIOUS
    <3>4. w = Returned(u, q, up, yes)
      BY <2>2, <2>3, <2>4, <3>1, <3>2, <3>3, Zenon DEF SplitInner
    <3>5. w.t = u /\ w.new = q /\ w.up = up
      BY <3>4, ReturnedIs
    <3> QED
      BY <1>10, <2>3, <2>4, <3>1, <3>3, <3>5, ParentStarts
  <2>5. CASE ~r.alone
    <3>1. PICK mid : mid = r.t.node[p].keys[threshold]
      OBVIOUS
    <3>2. PICK into : into = IF pivot >= mid THEN q ELSE p
      OBVIOUS
    <3>3. PICK slot : slot = IF pivot < mid THEN k ELSE IF k >= threshold THEN k - threshold ELSE 0
      OBVIOUS
    <3>4. PICK u : u = WithChild(Halved(r.t, p), into, slot, r.up, r.new)
      OBVIOUS
    <3>5. w = Returned(u, q, mid, no)
      BY <1>7, <2>2, <2>3, <2>5, <3>1, <3>2, <3>3, <3>4, Zenon DEF SplitInner
    <3>6. w.t = u /\ w.new = q /\ w.up = mid /\ w.alone = no
      BY <3>5, ReturnedIs
    <3>7. ~w.alone
      BY <1>7, <3>6
    <3>8. pivot \in Int /\ pivot \in cov2[n]
      <4>1. HandsUp(r, n, lev2, rng2, cov2)
        BY <1>10 DEF IsReturn
      <4>2. r.up \in Int /\ r.up \in cov2[n]
        <5>1. r.up \in Keys /\ Pending(lev2, rng2, cov2, n, r.new, r.up)
          BY <4>1 DEF HandsUp
        <5>2. r.up \in Int
          BY <5>1, ConstantFacts
        <5> QED
          BY <5>1, <5>2 DEF Pending
      <4>3. key \in Int /\ key \in cov2[n]
        BY <1>2, ConstantFacts DEF Descends
      <4> QED
        BY <2>1, <4>2, <4>3
    <3>9. k \in 0 .. Len(r.t.node[p].keys) /\ n = r.t.node[p].kids[k + 1]
      BY <1>1 DEF Descends
    <3>10. Len(r.t.node[p].keys) = NENT
      BY <1>4, <1>10
    <3>11. SameSide(pivot, mid, k)
      BY <1>1, <1>2, <1>5, <3>1, <3>8, <3>9, <3>10, PivotSide
    <3>12. mid \in Int
      <4>1. threshold \in 1 .. Len(s)
        <5>1. threshold \in Nat /\ 2 <= threshold /\ threshold < NENT
          BY ConstantFacts, Zenon
        <5> QED
          BY <1>6, <1>10, <5>1
      <4> QED
        BY <1>4, <1>6, <3>1, <4>1, KeySeq
    <3>13. TakenBy(k, p, q, into, slot)
      BY <3>2, <3>3, <3>8, <3>11, <3>12 DEF TakenBy, SameSide
    <3> QED
      BY <1>10, <2>3, <3>1, <3>4, <3>6, <3>7, <3>10, <3>13, ParentHalves
  <2> QED
    BY <2>4, <2>5
<1> QED
  BY <1>8, <1>9, <1>10
-----------------------------------------------------------------------------
(* The recursive functions of the model satisfy their equations            *)
-----------------------------------------------------------------------------
\* The child of n on the path of key.
PathStep(t, key, n) == t.node[n].kids[UpTo(t.node[n].keys, key) + 1]

\* The steps of FindLeaf, up to any number of them, exist.
IsPath(t, key, K, f) ==
  f = [i \in 0 .. K |-> IF i = 0 THEN t.root ELSE PathStep(t, key, f[i - 1])]

LEMMA PathExists ==
  ASSUME NEW t, NEW key, NEW K \in Nat
  PROVE  \E f : IsPath(t, key, K, f)
<1> DEFINE Good(m) == \E f : f = [i \in 0 .. m |-> IF i = 0 THEN t.root ELSE PathStep(t, key, f[i - 1])]
           T == { m \in Nat : ~Good(m) }
<1>1. Good(0)
  <2>1. PICK g : g = [i \in 0 .. 0 |-> t.root]
    OBVIOUS
  <2>2. \A i \in 0 .. 0 : i = 0
    OBVIOUS
  <2>3. g = [i \in 0 .. 0 |-> IF i = 0 THEN t.root ELSE PathStep(t, key, g[i - 1])]
    BY <2>1, <2>2
  <2> QED
    BY <2>3
<1>2. ASSUME NEW m \in Nat, m # 0, Good(m - 1) PROVE Good(m)
  <2>1. PICK f : f = [i \in 0 .. m - 1 |-> IF i = 0 THEN t.root ELSE PathStep(t, key, f[i - 1])]
    BY <1>2
  <2>2. PICK g : g = [i \in 0 .. m |-> IF i = m THEN PathStep(t, key, f[m - 1]) ELSE f[i]]
    OBVIOUS
  <2>3. ASSUME NEW i \in 0 .. m PROVE g[i] = IF i = 0 THEN t.root ELSE PathStep(t, key, g[i - 1])
    <3>1. CASE i = 0
      <4>1. g[i] = f[i] /\ i \in 0 .. m - 1
        BY <1>2, <2>2, <3>1
      <4> QED
        BY <2>1, <3>1, <4>1
    <3>2. CASE i # 0
      <4>1. i - 1 \in 0 .. m /\ i - 1 # m
        BY <3>2
      <4>2. g[i - 1] = f[i - 1]
        BY <2>2, <4>1
      <4>3. CASE i = m
        <5>1. g[i] = PathStep(t, key, f[i - 1])
          BY <2>2, <4>3
        <5> QED
          BY <3>2, <4>2, <5>1, Zenon
      <4>4. CASE i # m
        <5>1. i \in 0 .. m - 1
          BY <4>4
        <5>2. g[i] = f[i]
          BY <2>2, <4>4
        <5>3. f[i] = PathStep(t, key, f[i - 1])
          BY <2>1, <3>2, <5>1
        <5> QED
          BY <3>2, <4>2, <5>2, <5>3, Zenon
      <4> QED
        BY <4>3, <4>4
    <3> QED
      BY <3>1, <3>2
  <2>4. g = [i \in 0 .. m |-> g[i]]
    BY <2>2
  <2>5. g = [i \in 0 .. m |-> IF i = 0 THEN t.root ELSE PathStep(t, key, g[i - 1])]
    BY <2>3, <2>4
  <2> QED
    BY <2>5
<1> HIDE DEF Good
<1>3. T = {}
  <2> SUFFICES ASSUME T # {} PROVE FALSE
    OBVIOUS
  <2>1. T \subseteq Nat
    OBVIOUS
  <2> HIDE DEF T
  <2>2. PICK m \in T : \A y \in T : m <= y
    BY <2>1, LeastNumber
  <2>3. m \in Nat /\ ~Good(m)
    BY <2>2 DEF T
  <2>4. m # 0
    BY <1>1, <2>3
  <2>5. m - 1 \in Nat /\ ~(m <= m - 1)
    BY <2>3, <2>4
  <2>6. Good(m - 1)
    BY <2>2, <2>5 DEF T
  <2> QED
    BY <1>2, <2>3, <2>4, <2>6
<1> QED
  BY <1>3 DEF Good, IsPath

LEMMA PathIs ==
  ASSUME NEW t, NEW key, t.depth \in Nat
  PROVE  /\ Path(t, key)[0] = t.root
         /\ \A d \in 1 .. t.depth : Path(t, key)[d] = PathStep(t, key, Path(t, key)[d - 1])
<1>1. PICK K \in Nat : K = t.depth
  OBVIOUS
<1>2. PICK f : IsPath(t, key, K, f)
  BY PathExists
<1>3. PICK g : g = Path(t, key)
  OBVIOUS
<1>4. g = [d \in 0 .. K |-> IF d = 0 THEN t.root ELSE PathStep(t, key, g[d - 1])]
  BY <1>1, <1>2, <1>3, Zenon DEF Path, PathStep, IsPath
<1>5. 0 \in 0 .. K /\ \A d \in 1 .. K : d \in 0 .. K /\ d # 0
  OBVIOUS
<1> QED
  BY <1>1, <1>3, <1>4, <1>5

\* The calls return, as many as there are.
AreReturns(t, key, K, f) ==
  f = [i \in 0 .. K |-> IF i = 0 THEN LeafInsert(t, FindLeaf(t, key), key) ELSE InnerInsert(f[i - 1], Path(t, key)[t.depth - i], i, key)]

LEMMA ReturnsExist ==
  ASSUME NEW t, NEW key, NEW K \in Nat
  PROVE  \E f : AreReturns(t, key, K, f)
<1> DEFINE Good(m) == \E f : f = [i \in 0 .. m |-> IF i = 0 THEN LeafInsert(t, FindLeaf(t, key), key) ELSE InnerInsert(f[i - 1], Path(t, key)[t.depth - i], i, key)]
           T == { m \in Nat : ~Good(m) }
<1>1. Good(0)
  <2>1. PICK g : g = [i \in 0 .. 0 |-> LeafInsert(t, FindLeaf(t, key), key)]
    OBVIOUS
  <2>2. \A i \in 0 .. 0 : i = 0
    OBVIOUS
  <2>3. g = [i \in 0 .. 0 |-> IF i = 0 THEN LeafInsert(t, FindLeaf(t, key), key) ELSE InnerInsert(g[i - 1], Path(t, key)[t.depth - i], i, key)]
    BY <2>1, <2>2
  <2> QED
    BY <2>3
<1>2. ASSUME NEW m \in Nat, m # 0, Good(m - 1) PROVE Good(m)
  <2>1. PICK f : f = [i \in 0 .. m - 1 |-> IF i = 0 THEN LeafInsert(t, FindLeaf(t, key), key) ELSE InnerInsert(f[i - 1], Path(t, key)[t.depth - i], i, key)]
    BY <1>2
  <2>2. PICK g : g = [i \in 0 .. m |-> IF i = m THEN InnerInsert(f[m - 1], Path(t, key)[t.depth - m], m, key) ELSE f[i]]
    OBVIOUS
  <2>3. ASSUME NEW i \in 0 .. m PROVE g[i] = IF i = 0 THEN LeafInsert(t, FindLeaf(t, key), key) ELSE InnerInsert(g[i - 1], Path(t, key)[t.depth - i], i, key)
    <3>1. CASE i = 0
      <4>1. g[i] = f[i] /\ i \in 0 .. m - 1
        BY <1>2, <2>2, <3>1
      <4> QED
        BY <2>1, <3>1, <4>1
    <3>2. CASE i # 0
      <4>1. i - 1 \in 0 .. m /\ i - 1 # m
        BY <3>2
      <4>2. g[i - 1] = f[i - 1]
        BY <2>2, <4>1
      <4>3. CASE i = m
        <5>1. g[i] = InnerInsert(f[i - 1], Path(t, key)[t.depth - i], i, key)
          BY <2>2, <4>3
        <5> QED
          BY <3>2, <4>2, <5>1, Zenon
      <4>4. CASE i # m
        <5>1. i \in 0 .. m - 1
          BY <4>4
        <5>2. g[i] = f[i]
          BY <2>2, <4>4
        <5>3. f[i] = InnerInsert(f[i - 1], Path(t, key)[t.depth - i], i, key)
          BY <2>1, <3>2, <5>1
        <5> QED
          BY <3>2, <4>2, <5>2, <5>3, Zenon
      <4> QED
        BY <4>3, <4>4
    <3> QED
      BY <3>1, <3>2
  <2>4. g = [i \in 0 .. m |-> g[i]]
    BY <2>2
  <2>5. g = [i \in 0 .. m |-> IF i = 0 THEN LeafInsert(t, FindLeaf(t, key), key) ELSE InnerInsert(g[i - 1], Path(t, key)[t.depth - i], i, key)]
    BY <2>3, <2>4
  <2> QED
    BY <2>5
<1> HIDE DEF Good
<1>3. T = {}
  <2> SUFFICES ASSUME T # {} PROVE FALSE
    OBVIOUS
  <2>1. T \subseteq Nat
    OBVIOUS
  <2> HIDE DEF T
  <2>2. PICK m \in T : \A y \in T : m <= y
    BY <2>1, LeastNumber
  <2>3. m \in Nat /\ ~Good(m)
    BY <2>2 DEF T
  <2>4. m # 0
    BY <1>1, <2>3
  <2>5. m - 1 \in Nat /\ ~(m <= m - 1)
    BY <2>3, <2>4
  <2>6. Good(m - 1)
    BY <2>2, <2>5 DEF T
  <2> QED
    BY <1>2, <2>3, <2>4, <2>6
<1> QED
  BY <1>3 DEF Good, AreReturns

LEMMA ReturnsIs ==
  ASSUME NEW t, NEW key, t.depth \in Nat
  PROVE  /\ Returns(t, key)[0] = LeafInsert(t, FindLeaf(t, key), key)
         /\ \A d \in 1 .. t.depth : Returns(t, key)[d] =
              InnerInsert(Returns(t, key)[d - 1], Path(t, key)[t.depth - d], d, key)
<1>1. PICK K \in Nat : K = t.depth
  OBVIOUS
<1>2. PICK f : AreReturns(t, key, K, f)
  BY ReturnsExist
<1>3. PICK g : g = Returns(t, key)
  OBVIOUS
<1>4. g = [d \in 0 .. K |-> IF d = 0 THEN LeafInsert(t, FindLeaf(t, key), key)
                            ELSE InnerInsert(g[d - 1], Path(t, key)[t.depth - d], d, key)]
  BY <1>1, <1>2, <1>3, Zenon DEF Returns, AreReturns
<1>5. 0 \in 0 .. K /\ \A d \in 1 .. K : d \in 0 .. K /\ d # 0
  OBVIOUS
<1> QED
  BY <1>1, <1>3, <1>4, <1>5

\* The leaf that the walk goes to from n.
WalkStep(t, bound, n) ==
  IF n = NULL \/ \E x \in ToSet(t.node[n].keys) : x > bound THEN n ELSE t.node[n].right

\* The walk over the list of leaves, up to any number of steps, exists.
IsWalk(t, bound, l, K, f) ==
  f = [i \in 0 .. K |-> IF i = 0 THEN l ELSE WalkStep(t, bound, f[i - 1])]

LEMMA WalkExists ==
  ASSUME NEW t, NEW bound, NEW l, NEW K \in Nat
  PROVE  \E f : IsWalk(t, bound, l, K, f)
<1> DEFINE Good(m) == \E f : f = [i \in 0 .. m |-> IF i = 0 THEN l ELSE WalkStep(t, bound, f[i - 1])]
           T == { m \in Nat : ~Good(m) }
<1>1. Good(0)
  <2>1. PICK g : g = [i \in 0 .. 0 |-> l]
    OBVIOUS
  <2>2. \A i \in 0 .. 0 : i = 0
    OBVIOUS
  <2>3. g = [i \in 0 .. 0 |-> IF i = 0 THEN l ELSE WalkStep(t, bound, g[i - 1])]
    BY <2>1, <2>2
  <2> QED
    BY <2>3
<1>2. ASSUME NEW m \in Nat, m # 0, Good(m - 1) PROVE Good(m)
  <2>1. PICK f : f = [i \in 0 .. m - 1 |-> IF i = 0 THEN l ELSE WalkStep(t, bound, f[i - 1])]
    BY <1>2
  <2>2. PICK g : g = [i \in 0 .. m |-> IF i = m THEN WalkStep(t, bound, f[m - 1]) ELSE f[i]]
    OBVIOUS
  <2>3. ASSUME NEW i \in 0 .. m PROVE g[i] = IF i = 0 THEN l ELSE WalkStep(t, bound, g[i - 1])
    <3>1. CASE i = 0
      <4>1. g[i] = f[i] /\ i \in 0 .. m - 1
        BY <1>2, <2>2, <3>1
      <4> QED
        BY <2>1, <3>1, <4>1
    <3>2. CASE i # 0
      <4>1. i - 1 \in 0 .. m /\ i - 1 # m
        BY <3>2
      <4>2. g[i - 1] = f[i - 1]
        BY <2>2, <4>1
      <4>3. CASE i = m
        <5>1. g[i] = WalkStep(t, bound, f[i - 1])
          BY <2>2, <4>3
        <5> QED
          BY <3>2, <4>2, <5>1, Zenon
      <4>4. CASE i # m
        <5>1. i \in 0 .. m - 1
          BY <4>4
        <5>2. g[i] = f[i]
          BY <2>2, <4>4
        <5>3. f[i] = WalkStep(t, bound, f[i - 1])
          BY <2>1, <3>2, <5>1
        <5> QED
          BY <3>2, <4>2, <5>2, <5>3, Zenon
      <4> QED
        BY <4>3, <4>4
    <3> QED
      BY <3>1, <3>2
  <2>4. g = [i \in 0 .. m |-> g[i]]
    BY <2>2
  <2>5. g = [i \in 0 .. m |-> IF i = 0 THEN l ELSE WalkStep(t, bound, g[i - 1])]
    BY <2>3, <2>4
  <2> QED
    BY <2>5
<1> HIDE DEF Good
<1>3. T = {}
  <2> SUFFICES ASSUME T # {} PROVE FALSE
    OBVIOUS
  <2>1. T \subseteq Nat
    OBVIOUS
  <2> HIDE DEF T
  <2>2. PICK m \in T : \A y \in T : m <= y
    BY <2>1, LeastNumber
  <2>3. m \in Nat /\ ~Good(m)
    BY <2>2 DEF T
  <2>4. m # 0
    BY <1>1, <2>3
  <2>5. m - 1 \in Nat /\ ~(m <= m - 1)
    BY <2>3, <2>4
  <2>6. Good(m - 1)
    BY <2>2, <2>5 DEF T
  <2> QED
    BY <1>2, <2>3, <2>4, <2>6
<1> QED
  BY <1>3 DEF Good, IsWalk
-----------------------------------------------------------------------------
(* Descents and inserts                                                    *)
-----------------------------------------------------------------------------
\* A step down keeps to the range of the key.
LEMMA StepDown ==
  ASSUME NEW t, NEW lev, NEW rng, Shape(t, lev, rng, rng), NEW key \in Keys,
         NEW n \in Nodes(t), lev[n] > 0, key \in rng[n], NEW k, k = UpTo(t.node[n].keys, key),
         NEW c, c = PathStep(t, key, n)
  PROVE  /\ k \in 0 .. Len(t.node[n].keys) /\ t.node[n].kids[k + 1] = c
         /\ c \in Nodes(t) /\ lev[c] + 1 = lev[n] /\ key \in rng[c]
<1>1. t \in TreeType /\ InnerOK(t, lev, rng, rng, n)
  BY DEF Shape
<1>2. PICK s : s = t.node[n].keys
  OBVIOUS
<1>3. s \in Seq(Keys) /\ Len(t.node[n].kids) = Len(s) + 1
  BY <1>1, <1>2, NodeFields DEF InnerOK, InnerKeys
<1>4. s \in Seq(Int) /\ key \in Int /\ Len(s) \in Nat
  BY <1>3, KeySeq, ConstantFacts
<1>5. k \in 0 .. Len(s) /\ Slot(s, key, k)
  BY <1>2, <1>4, UpToIs
<1>6. k + 1 \in 1 .. Len(t.node[n].kids) /\ (k + 1) - 1 = k
  BY <1>3, <1>4, <1>5
<1>7. KidOK(t, lev, rng, rng, n, k + 1)
  BY <1>1, <1>6 DEF InnerOK
<1>8. t.node[n].kids[k + 1] = c
  BY DEF PathStep
<1>9. c \in Nodes(t) /\ lev[c] + 1 = lev[n] /\ key \in rng[c]
  BY <1>2, <1>4, <1>5, <1>6, <1>7, <1>8 DEF KidOK
<1> QED
  BY <1>2, <1>5, <1>8, <1>9

\* Where the path of key is after d steps.
OnPath(t, lev, rng, key, d, n) == n \in Nodes(t) /\ lev[n] = t.depth - d /\ key \in rng[n]

LEMMA PathLevels ==
  ASSUME NEW t, NEW lev, NEW rng, Shape(t, lev, rng, rng), NEW key \in Keys
  PROVE  \A d \in 0 .. t.depth : OnPath(t, lev, rng, key, d, Path(t, key)[d])
<1> DEFINE Bad == { d \in 0 .. t.depth : ~OnPath(t, lev, rng, key, d, Path(t, key)[d]) }
<1>1. t.depth \in Nat /\ t \in TreeType
  BY NodeFields DEF Shape
<1>2. /\ Path(t, key)[0] = t.root
      /\ \A d \in 1 .. t.depth : Path(t, key)[d] = PathStep(t, key, Path(t, key)[d - 1])
  BY <1>1, PathIs
<1>3. OnPath(t, lev, rng, key, 0, Path(t, key)[0])
  <2>1. t.root \in Nodes(t) /\ lev[t.root] = t.depth /\ rng[t.root] = Int
    BY DEF Shape
  <2> QED
    BY <1>1, <1>2, <2>1, ConstantFacts DEF OnPath
<1>4. ASSUME NEW d \in 1 .. t.depth, OnPath(t, lev, rng, key, d - 1, Path(t, key)[d - 1])
      PROVE  OnPath(t, lev, rng, key, d, Path(t, key)[d])
  <2>1. PICK n : n = Path(t, key)[d - 1]
    OBVIOUS
  <2>2. PICK c : c = Path(t, key)[d]
    OBVIOUS
  <2>3. n \in Nodes(t) /\ lev[n] = t.depth - (d - 1) /\ key \in rng[n]
    BY <1>4, <2>1 DEF OnPath
  <2>4. lev[n] > 0
    BY <1>1, <2>3
  <2>5. c = PathStep(t, key, n)
    BY <1>2, <2>1, <2>2
  <2>6. c \in Nodes(t) /\ lev[c] + 1 = lev[n] /\ key \in rng[c]
    BY <2>3, <2>4, <2>5, StepDown
  <2>7. lev[c] \in Nat
    BY <2>6 DEF Shape, Ranges
  <2>8. lev[c] = t.depth - d
    BY <1>1, <2>3, <2>6, <2>7
  <2> QED
    BY <2>2, <2>6, <2>8 DEF OnPath
<1>5. Bad = {}
  <2> SUFFICES ASSUME Bad # {} PROVE FALSE
    OBVIOUS
  <2>1. Bad \subseteq Nat
    OBVIOUS
  <2> HIDE DEF Bad
  <2>2. PICK d \in Bad : \A y \in Bad : d <= y
    BY <2>1, LeastNumber
  <2>3. d \in 0 .. t.depth /\ ~OnPath(t, lev, rng, key, d, Path(t, key)[d])
    BY <2>2 DEF Bad
  <2>4. d # 0
    BY <1>3, <2>3
  <2>5. d \in 1 .. t.depth /\ d - 1 \in 0 .. t.depth /\ ~(d <= d - 1)
    BY <1>1, <2>3, <2>4
  <2>6. OnPath(t, lev, rng, key, d - 1, Path(t, key)[d - 1])
    BY <2>2, <2>5 DEF Bad
  <2> QED
    BY <1>4, <2>3, <2>5, <2>6
<1> QED
  BY <1>5

\* FindLeaf ends on the leaf that the key belongs to.
LEMMA FindLeafIs ==
  ASSUME NEW t, NEW lev, NEW rng, Shape(t, lev, rng, rng), NEW key \in Keys, NEW l, l = FindLeaf(t, key)
  PROVE  l \in Nodes(t) /\ lev[l] = 0 /\ key \in rng[l]
<1>1. t.depth \in Nat
  BY NodeFields DEF Shape
<1>2. t.depth \in 0 .. t.depth /\ t.depth - t.depth = 0
  BY <1>1
<1>3. OnPath(t, lev, rng, key, t.depth, Path(t, key)[t.depth])
  BY <1>2, PathLevels
<1>4. l = Path(t, key)[t.depth]
  BY DEF FindLeaf
<1> QED
  BY <1>2, <1>3, <1>4 DEF OnPath

\* Every call returns what its caller expects.
Returning(t, lev, rng, key, d) ==
  \E lev2, rng2, cov2 :
    IsReturn(t, lev, rng, key, Returns(t, key)[d], Path(t, key)[t.depth - d], d, lev2, rng2, cov2)

LEMMA CallsReturn ==
  ASSUME NEW t, NEW lev, NEW rng, Shape(t, lev, rng, rng), NEW key \in Keys
  PROVE  \A d \in 0 .. t.depth : Returning(t, lev, rng, key, d)
<1> DEFINE Bad == { d \in 0 .. t.depth : ~Returning(t, lev, rng, key, d) }
<1>1. t.depth \in Nat /\ t \in TreeType
  BY NodeFields DEF Shape
<1>2. /\ Returns(t, key)[0] = LeafInsert(t, FindLeaf(t, key), key)
      /\ \A d \in 1 .. t.depth : Returns(t, key)[d] =
           InnerInsert(Returns(t, key)[d - 1], Path(t, key)[t.depth - d], d, key)
  BY <1>1, ReturnsIs
<1>3. \A d \in 1 .. t.depth : Path(t, key)[d] = PathStep(t, key, Path(t, key)[d - 1])
  BY <1>1, PathIs
<1>4. \A d \in 0 .. t.depth : OnPath(t, lev, rng, key, d, Path(t, key)[d])
  BY PathLevels
<1>5. Returning(t, lev, rng, key, 0)
  <2>1. PICK l : l = FindLeaf(t, key)
    OBVIOUS
  <2>2. PICK r : r = LeafInsert(t, l, key)
    OBVIOUS
  <2>3. l \in Nodes(t) /\ lev[l] = 0 /\ key \in rng[l]
    BY <2>1, FindLeafIs
  <2>4. \E lev2, rng2, cov2 : IsReturn(t, lev, rng, key, r, l, 0, lev2, rng2, cov2)
    BY <2>2, <2>3, LeafInsertIs
  <2>5. r = Returns(t, key)[0]
    BY <1>2, <2>1, <2>2
  <2>6. l = Path(t, key)[t.depth - 0]
    <3>1. t.depth - 0 = t.depth
      BY <1>1
    <3> QED
      BY <2>1, <3>1 DEF FindLeaf
  <2> QED
    BY <2>4, <2>5, <2>6 DEF Returning
<1>6. ASSUME NEW e \in 1 .. t.depth, Returning(t, lev, rng, key, e - 1)
      PROVE  Returning(t, lev, rng, key, e)
  <2>1. PICK d : d = e - 1
    OBVIOUS
  <2>2. d \in Nat /\ e = d + 1 /\ t.depth - e \in 0 .. t.depth /\ t.depth - d \in 1 .. t.depth
        /\ (t.depth - d) - 1 = t.depth - e
    BY <1>1, <2>1
  <2>3. PICK p : p = Path(t, key)[t.depth - e]
    OBVIOUS
  <2>4. PICK n : n = Path(t, key)[t.depth - d]
    OBVIOUS
  <2>5. PICK r : r = Returns(t, key)[d]
    OBVIOUS
  <2>6. PICK lev2, rng2, cov2 : IsReturn(t, lev, rng, key, r, n, d, lev2, rng2, cov2)
    BY <1>6, <2>1, <2>4, <2>5 DEF Returning
  <2>7. p \in Nodes(t) /\ lev[p] = e /\ key \in rng[p]
    <3>1. OnPath(t, lev, rng, key, t.depth - e, p)
      BY <1>4, <2>2, <2>3
    <3>2. t.depth - (t.depth - e) = e
      BY <1>1
    <3> QED
      BY <3>1, <3>2 DEF OnPath
  <2>8. n = PathStep(t, key, p)
    BY <1>3, <2>2, <2>3, <2>4
  <2>9. PICK k : k = UpTo(t.node[p].keys, key)
    OBVIOUS
  <2>10. lev[p] > 0
    BY <2>2, <2>7
  <2>11. /\ k \in 0 .. Len(t.node[p].keys) /\ t.node[p].kids[k + 1] = n
         /\ n \in Nodes(t) /\ lev[n] + 1 = lev[p] /\ key \in rng[n]
    BY <2>7, <2>8, <2>9, <2>10, StepDown
  <2>12. lev[n] = d
    <3>1. lev[n] \in Nat
      BY <2>11 DEF Shape, Ranges
    <3>2. lev[n] + 1 = d + 1 /\ d \in Nat
      BY <2>2, <2>7, <2>11, Zenon
    <3> QED
      BY <3>1, <3>2
  <2>13. Descends(t, lev, rng, key, p, n, k, d)
    BY <2>2, <2>7, <2>9, <2>11, <2>12 DEF Descends
  <2>14. PICK w : w = InnerInsert(r, p, e, key)
    OBVIOUS
  <2>15. \E lev3, rng3, cov3 : IsReturn(t, lev, rng, key, w, p, e, lev3, rng3, cov3)
    BY <2>2, <2>6, <2>13, <2>14, InnerInsertIs
  <2>16. w = Returns(t, key)[e]
    BY <1>2, <2>1, <2>3, <2>5, <2>14
  <2> QED
    BY <2>3, <2>15, <2>16 DEF Returning
<1>7. Bad = {}
  <2> SUFFICES ASSUME Bad # {} PROVE FALSE
    OBVIOUS
  <2>1. Bad \subseteq Nat
    OBVIOUS
  <2> HIDE DEF Bad
  <2>2. PICK d \in Bad : \A y \in Bad : d <= y
    BY <2>1, LeastNumber
  <2>3. d \in 0 .. t.depth /\ ~Returning(t, lev, rng, key, d)
    BY <2>2 DEF Bad
  <2>4. d # 0
    BY <1>5, <2>3
  <2>5. d \in 1 .. t.depth /\ d - 1 \in 0 .. t.depth /\ ~(d <= d - 1)
    BY <1>1, <2>3, <2>4
  <2>6. Returning(t, lev, rng, key, d - 1)
    BY <2>2, <2>5 DEF Bad
  <2> QED
    BY <1>6, <2>3, <2>5, <2>6
<1> QED
  BY <1>7

\* An insert yields a tree with the key and all the earlier ones.
LEMMA InsertIs ==
  ASSUME NEW t, NEW lev, NEW rng, Shape(t, lev, rng, rng), NEW key \in Keys,
         NEW t2, t2 = Insert_rtm(t, key)
  PROVE  \E lev2, rng2 : Shape(t2, lev2, rng2, rng2) /\ Gains(t, lev, rng, key, t2, lev2, rng2)
<1>1. t.depth \in Nat /\ t \in TreeType
  BY NodeFields DEF Shape
<1>2. t.depth \in 0 .. t.depth /\ t.depth - t.depth = 0
  BY <1>1
<1>3. PICK r : r = Returns(t, key)[t.depth]
  OBVIOUS
<1>4. Returning(t, lev, rng, key, t.depth)
  BY <1>2, CallsReturn
<1>5. PICK n : n = Path(t, key)[t.depth - t.depth]
  OBVIOUS
<1>6. n = t.root
  BY <1>1, <1>2, <1>5, PathIs
<1>7. PICK lev2, rng2, cov2 : IsReturn(t, lev, rng, key, r, n, t.depth, lev2, rng2, cov2)
  BY <1>3, <1>4, <1>5 DEF Returning
<1>8. PICK u : u = r.t
  OBVIOUS
<1>9. /\ Shape(u, lev2, rng2, cov2) /\ u.root = n /\ u.depth = t.depth
      /\ Gains(t, lev, rng, key, u, lev2, rng2)
      /\ (\A m \in Nodes(u) : m # n /\ m # r.new => cov2[m] = rng2[m])
      /\ cov2[n] = rng[n]
      /\ (r.new = NULL => rng2[n] = rng[n])
      /\ (r.new # NULL => HandsUp(r, n, lev2, rng2, cov2))
  BY <1>6, <1>7, <1>8 DEF IsReturn
<1>10. CASE r.new = NULL
  <2>1. t2 = u
    BY <1>3, <1>8, <1>10 DEF Insert_rtm
  <2>2. u \in TreeType /\ cov2 \in [Nodes(u) -> SUBSET Int] /\ rng2 \in [Nodes(u) -> SUBSET Int]
    BY <1>9 DEF Shape, Ranges
  <2>3. \A m \in Nodes(u) : m # NULL
    BY <2>2, NodeFields
  <2>4. ASSUME NEW m \in Nodes(u) PROVE cov2[m] = rng2[m]
    BY <1>9, <1>10, <2>3
  <2>5. cov2 = rng2
    BY <2>2, <2>4
  <2>6. Shape(t2, lev2, rng2, rng2) /\ Gains(t, lev, rng, key, t2, lev2, rng2)
    BY <1>9, <2>1, <2>5, Zenon
  <2> QED
    BY <2>6
<1>11. CASE r.new # NULL
  <2>1. PICK new, up : new = r.new /\ up = r.up
    OBVIOUS
  <2>2. IsTop(u, new, up, t2)
    BY <1>3, <1>6, <1>8, <1>9, <1>11, <2>1, Zenon DEF Insert_rtm, IsTop
  <2>3. PICK q : q = Len(u.node) + 1
    OBVIOUS
  <2>4. PICK lev3 : lev3 = LevTop(u, lev2)
    OBVIOUS
  <2>5. PICK rng3 : rng3 = RngTop(u, rng2)
    OBVIOUS
  <2>6. new \in Nodes(u) /\ up \in Keys /\ Pending(lev2, rng2, cov2, u.root, new, up)
    BY <1>8, <1>9, <1>11, <2>1 DEF HandsUp
  <2>7. Settled(u, rng2, cov2, u.root, new)
    BY <1>9, <2>1 DEF Settled
  <2>8. /\ Shape(t2, lev3, rng3, rng3)
        /\ Nodes(t2) = Nodes(u) \union {q} /\ ~(q \in Nodes(u)) /\ lev3[q] > 0
        /\ AllStay(u, lev2, rng2, t2, lev3, rng3)
    BY <1>9, <2>2, <2>3, <2>4, <2>5, <2>6, <2>7, RootGrows
  <2>9. LeavesStay(u, lev2, rng2, t2, lev3, rng3)
    <3>1. \A m \in Nodes(u) : t2.node[m] = u.node[m] /\ lev3[m] = lev2[m] /\ rng3[m] = rng2[m]
      BY <2>8 DEF AllStay
    <3>2. Extends(u, lev2, t2, lev3) /\ SameLeaves(u, lev2, rng2, t2, rng3)
      BY <2>8, <3>1 DEF Extends, SameLeaves
    <3>3. ASSUME NEW m \in Nodes(t2), lev3[m] = 0 PROVE m \in Nodes(u)
      BY <2>8, <3>3
    <3> QED
      BY <3>2, <3>3 DEF LeavesStay
  <2>10. Gains(t, lev, rng, key, t2, lev3, rng3)
    BY <1>9, <2>9, GainsStay
  <2> QED
    BY <2>8, <2>10
<1> QED
  BY <1>10, <1>11
-----------------------------------------------------------------------------
(* Walks over the list of leaves                                           *)
-----------------------------------------------------------------------------
IsLeaf(t, lev, n) == n \in Nodes(t) /\ lev[n] = 0

\* What is known of a leaf.
LEMMA LeafFacts ==
  ASSUME NEW t, NEW lev, NEW rng, Shape(t, lev, rng, rng), NEW l, IsLeaf(t, lev, l)
  PROVE  /\ l \in Nat /\ l # NULL
         /\ t.node[l].keys \in Seq(Keys) /\ t.node[l].keys \in Seq(Int) /\ Len(t.node[l].keys) \in Nat
         /\ Ascending(t.node[l].keys) /\ LeafLinks(t, lev, rng, l)
         /\ (\A i \in 1 .. Len(t.node[l].keys) :
               /\ t.node[l].keys[i] \in rng[l] /\ t.node[l].keys[i] \in Int /\ t.node[l].keys[i] \in Keys)
         /\ rng[l] # {} /\ rng[l] \subseteq Int /\ Convex(rng[l])
         /\ t.node[l].seq \in Nat
<1>1. l \in Nodes(t) /\ lev[l] = 0
  BY DEF IsLeaf
<1>2. t \in TreeType /\ Ranges(t, lev, rng) /\ LeafOK(t, lev, rng, l)
  BY <1>1 DEF Shape
<1>3. l \in Nat /\ l # NULL /\ t.node[l].keys \in Seq(Keys) /\ t.node[l].seq \in Nat
  BY <1>1, <1>2, NodeFields
<1>4. /\ t.node[l].keys \in Seq(Int) /\ Len(t.node[l].keys) \in Nat
      /\ \A i \in 1 .. Len(t.node[l].keys) : t.node[l].keys[i] \in Keys /\ t.node[l].keys[i] \in Int
  BY <1>3, KeySeq
<1>5. /\ Ascending(t.node[l].keys) /\ LeafLinks(t, lev, rng, l)
      /\ \A i \in 1 .. Len(t.node[l].keys) : t.node[l].keys[i] \in rng[l]
  BY <1>2 DEF LeafOK, LeafKeys
<1>6. rng[l] # {} /\ rng[l] \subseteq Int /\ Convex(rng[l])
  BY <1>1, <1>2 DEF Ranges
<1> QED
  BY <1>3, <1>4, <1>5, <1>6

\* A key that is held and belongs to a leaf is in that leaf.
LEMMA HeldHere ==
  ASSUME NEW t, NEW lev, NEW rng, Shape(t, lev, rng, rng), NEW l, IsLeaf(t, lev, l),
         NEW y, Holds(t, lev, y), y \in rng[l]
  PROVE  Among(t.node[l].keys, y)
<1>1. PICK m \in Nodes(t) : lev[m] = 0 /\ Among(t.node[m].keys, y)
  BY DEF Holds
<1>2. y \in rng[m]
  <2>1. \A i \in 1 .. Len(t.node[m].keys) : t.node[m].keys[i] \in rng[m]
    BY <1>1 DEF Shape, LeafOK, LeafKeys
  <2> QED
    BY <1>1, <2>1 DEF Among
<1>3. m = l
  <2>1. \A a, b \in Nodes(t) : lev[a] = lev[b] /\ a # b => \A x \in rng[a] : ~(x \in rng[b])
    BY DEF Shape, Ranges
  <2> QED
    BY <1>1, <1>2, <2>1 DEF IsLeaf
<1> QED
  BY <1>1, <1>3

\* The held keys above bound are in n or to its right; there is none when the
\* list has ended.
Ahead(t, lev, rng, bound, n) ==
  /\ n = NULL => \A y \in Int : ~(Holds(t, lev, y) /\ y > bound)
  /\ n # NULL =>
       /\ IsLeaf(t, lev, n)
       /\ \A y \in Int : Holds(t, lev, y) /\ y > bound => \E x \in rng[n] : x <= y

\* No key of the leaf is above bound.
Behind(t, bound, n) == \A i \in 1 .. Len(t.node[n].keys) : t.node[n].keys[i] <= bound

LEMMA StepRight ==
  ASSUME NEW t, NEW lev, NEW rng, Shape(t, lev, rng, rng), NEW bound \in Int,
         NEW n, IsLeaf(t, lev, n), Ahead(t, lev, rng, bound, n), Behind(t, bound, n),
         NEW r, r = t.node[n].right
  PROVE  Ahead(t, lev, rng, bound, r)
<1>1. /\ n # NULL /\ LeafLinks(t, lev, rng, n) /\ rng[n] # {} /\ rng[n] \subseteq Int
      /\ \A i \in 1 .. Len(t.node[n].keys) : t.node[n].keys[i] \in Int
  BY LeafFacts
<1>2. ASSUME NEW y \in Int, Holds(t, lev, y), y > bound PROVE ~(y \in rng[n])
  <2>1. ASSUME y \in rng[n] PROVE FALSE
    <3>1. Among(t.node[n].keys, y)
      BY <1>2, <2>1, HeldHere
    <3>2. y <= bound
      BY <3>1 DEF Among, Behind
    <3> QED
      BY <1>2, <3>2
  <2> QED
    BY <2>1
<1>3. ASSUME NEW y \in Int, Holds(t, lev, y), y > bound PROVE \E x \in rng[n] : x <= y
  BY <1>1, <1>3 DEF Ahead
<1>4. CASE r = NULL
  <2>1. UpClosed(rng[n])
    BY <1>1, <1>4 DEF LeafLinks
  <2>2. ASSUME NEW y \in Int, Holds(t, lev, y), y > bound PROVE FALSE
    <3>1. y \in rng[n]
      BY <1>3, <2>1, <2>2 DEF UpClosed
    <3> QED
      BY <1>2, <2>2, <3>1
  <2> QED
    BY <1>4, <2>2 DEF Ahead
<1>5. CASE r # NULL
  <2>1. r \in Nodes(t) /\ lev[r] = 0 /\ Adjacent(rng[n], rng[r])
    BY <1>1, <1>5 DEF LeafLinks
  <2>2. IsLeaf(t, lev, r)
    BY <2>1 DEF IsLeaf
  <2>3. rng[r] # {} /\ rng[r] \subseteq Int
    BY <2>2, LeafFacts
  <2>4. PICK z : z \in rng[r]
    BY <2>3
  <2>5. ASSUME NEW y \in Int, Holds(t, lev, y), y > bound PROVE \E x \in rng[r] : x <= y
    <3>1. PICK x \in rng[n] : x <= y
      BY <1>3, <2>5
    <3>2. x \in Int /\ z \in Int
      BY <1>1, <2>3, <2>4
    <3>3. CASE z <= y
      BY <2>4, <3>3
    <3>4. CASE y < z
      <4>1. y <= z
        BY <3>2, <3>4
      <4>2. y \in rng[n] \/ y \in rng[r]
        BY <2>1, <2>4, <3>1, <4>1 DEF Adjacent
      <4>3. y \in rng[r] /\ y <= y
        BY <1>2, <2>5, <4>2
      <4> QED
        BY <4>3
    <3> QED
      BY <3>2, <3>3, <3>4
  <2> QED
    BY <1>5, <2>2, <2>5 DEF Ahead
<1> QED
  BY <1>4, <1>5

\* The key k is the first that is held above bound.
IsFirst(t, lev, bound, k) ==
  k \in Int /\ Holds(t, lev, k) /\ k > bound /\ \A y \in Int : Holds(t, lev, y) /\ y > bound => k <= y

LEMMA FirstAbove ==
  ASSUME NEW t, NEW lev, NEW rng, Shape(t, lev, rng, rng), NEW bound \in Int,
         NEW n, IsLeaf(t, lev, n), Ahead(t, lev, rng, bound, n),
         NEW s, s = t.node[n].keys, NEW j \in 1 .. Len(s),
         s[j] > bound, j > 1 => s[j - 1] <= bound
  PROVE  IsFirst(t, lev, bound, s[j])
<1>1. /\ n # NULL /\ s \in Seq(Int) /\ Len(s) \in Nat /\ Ascending(s)
      /\ (\A i \in 1 .. Len(s) : s[i] \in rng[n] /\ s[i] \in Int)
      /\ rng[n] \subseteq Int /\ Convex(rng[n])
  BY LeafFacts
<1>2. Holds(t, lev, s[j])
  <2>1. Among(s, s[j])
    BY DEF Among
  <2> QED
    BY <2>1 DEF Holds, IsLeaf
<1>3. ASSUME NEW y \in Int, Holds(t, lev, y), y > bound PROVE s[j] <= y
  <2>1. PICK x \in rng[n] : x <= y
    BY <1>1, <1>3 DEF Ahead
  <2>2. x \in Int /\ s[j] \in Int /\ s[j] \in rng[n]
    BY <1>1
  <2>3. CASE y \in rng[n]
    <3>1. PICK i \in 1 .. Len(s) : y = s[i]
      BY <1>3, <2>3, HeldHere DEF Among
    <3>2. i \in Int /\ j \in Int /\ 1 <= i /\ i <= Len(s) /\ 1 <= j /\ j <= Len(s) /\ Len(s) \in Int
      BY <1>1
    <3>3. s[i] \in Int /\ s[j] \in Int
      BY <1>1
    <3>4. CASE i = j
      BY <3>1, <3>3, <3>4
    <3>5. CASE j < i
      <4>1. s[j] < s[i]
        BY <1>1, <3>5 DEF Ascending
      <4>2. \A a, b \in Int : a < b => a <= b
        OBVIOUS
      <4> QED
        BY <3>1, <3>3, <4>1, <4>2, Zenon
    <3>6. CASE i < j
      <4>1. PICK p : p = j - 1
        OBVIOUS
      <4>2. p \in 1 .. Len(s) /\ j > 1 /\ (i = p \/ i < p)
        BY <3>2, <3>6, <4>1
      <4>3. i = p \/ s[i] < s[p]
        BY <1>1, <4>2 DEF Ascending
      <4>4. s[p] \in Int /\ s[p] <= bound
        BY <1>1, <4>1, <4>2
      <4>5. \A a, b \in Int : a = b \/ a < b => (b <= bound => a <= bound)
        OBVIOUS
      <4>6. s[i] <= bound
        BY <3>3, <4>3, <4>4, <4>5, Zenon
      <4>7. y <= bound
        BY <3>1, <4>6, Zenon
      <4> QED
        BY <1>3, <4>7
    <3> QED
      BY <3>2, <3>4, <3>5, <3>6
  <2>4. CASE ~(y \in rng[n])
    <3>1. ~(y <= s[j])
      BY <2>1, <2>2, <2>4, <1>1 DEF Convex
    <3> QED
      BY <2>2, <3>1
  <2> QED
    BY <2>3, <2>4
<1> QED
  BY <1>1, <1>2, <1>3 DEF IsFirst

\* The same to the left.
IsLast(t, lev, bound, k) ==
  k \in Int /\ Holds(t, lev, k) /\ k < bound /\ \A y \in Int : Holds(t, lev, y) /\ y < bound => y <= k

LEMMA LastBelow ==
  ASSUME NEW t, NEW lev, NEW rng, Shape(t, lev, rng, rng), NEW bound \in Int,
         NEW n, IsLeaf(t, lev, n),
         \A y \in Int : Holds(t, lev, y) /\ y < bound => \E x \in rng[n] : y <= x,
         NEW s, s = t.node[n].keys, NEW j \in 1 .. Len(s),
         s[j] < bound, j < Len(s) => bound <= s[j + 1]
  PROVE  IsLast(t, lev, bound, s[j])
<1>1. /\ n # NULL /\ s \in Seq(Int) /\ Len(s) \in Nat /\ Ascending(s)
      /\ (\A i \in 1 .. Len(s) : s[i] \in rng[n] /\ s[i] \in Int)
      /\ rng[n] \subseteq Int /\ Convex(rng[n])
  BY LeafFacts
<1>2. Holds(t, lev, s[j])
  <2>1. Among(s, s[j])
    BY DEF Among
  <2> QED
    BY <2>1 DEF Holds, IsLeaf
<1>3. ASSUME NEW y \in Int, Holds(t, lev, y), y < bound PROVE y <= s[j]
  <2>1. PICK x \in rng[n] : y <= x
    BY <1>3
  <2>2. x \in Int /\ s[j] \in Int /\ s[j] \in rng[n]
    BY <1>1
  <2>3. CASE y \in rng[n]
    <3>1. PICK i \in 1 .. Len(s) : y = s[i]
      BY <1>3, <2>3, HeldHere DEF Among
    <3>2. i \in Int /\ j \in Int /\ 1 <= i /\ i <= Len(s) /\ 1 <= j /\ j <= Len(s) /\ Len(s) \in Int
      BY <1>1
    <3>3. s[i] \in Int /\ s[j] \in Int
      BY <1>1
    <3>4. CASE i = j
      BY <3>1, <3>3, <3>4
    <3>5. CASE i < j
      <4>1. s[i] < s[j]
        BY <1>1, <3>5 DEF Ascending
      <4>2. \A a, b \in Int : a < b => a <= b
        OBVIOUS
      <4> QED
        BY <3>1, <3>3, <4>1, <4>2, Zenon
    <3>6. CASE j < i
      <4>1. PICK p : p = j + 1
        OBVIOUS
      <4>2. p \in 1 .. Len(s) /\ j < Len(s) /\ (p = i \/ p < i)
        BY <3>2, <3>6, <4>1
      <4>3. p = i \/ s[p] < s[i]
        BY <1>1, <4>2 DEF Ascending
      <4>4. s[p] \in Int /\ bound <= s[p]
        BY <1>1, <4>1, <4>2
      <4>5. \A a, b \in Int : b = a \/ b < a => (bound <= b => bound <= a)
        OBVIOUS
      <4>6. bound <= s[i]
        BY <3>3, <4>3, <4>4, <4>5, Zenon
      <4>7. bound <= y
        BY <3>1, <4>6, Zenon
      <4> QED
        BY <1>3, <4>7
    <3> QED
      BY <3>2, <3>4, <3>5, <3>6
  <2>4. CASE ~(y \in rng[n])
    <3>1. ~(s[j] <= y)
      BY <2>1, <2>2, <2>4, <1>1 DEF Convex
    <3>2. \A a, b \in Int : ~(b <= a) => a <= b
      OBVIOUS
    <3> QED
      BY <2>2, <3>1, <3>2, Zenon
  <2> QED
    BY <2>3, <2>4
<1> QED
  BY <1>1, <1>2, <1>3 DEF IsLast

\* Only the leaf of an empty table is empty.
LEMMA HasKeys ==
  ASSUME NEW t, NEW lev, NEW rng, Shape(t, lev, rng, rng), NEW l, IsLeaf(t, lev, l),
         NEW m, IsLeaf(t, lev, m), m # l
  PROVE  1 \in 1 .. Len(t.node[l].keys) /\ Len(t.node[l].keys) \in 1 .. Len(t.node[l].keys)
<1>1. Len(t.node[l].keys) \in Nat /\ rng[m] # {} /\ rng[m] \subseteq Int
  BY LeafFacts
<1>2. Len(t.node[l].keys) = 0 => rng[l] = Int
  BY DEF Shape, LeafOK, LeafKeys, IsLeaf
<1>3. \A a, b \in Nodes(t) : lev[a] = lev[b] /\ a # b => \A x \in rng[a] : ~(x \in rng[b])
  BY DEF Shape, Ranges
<1>4. \A x \in rng[m] : ~(x \in rng[l])
  BY <1>3 DEF IsLeaf
<1>5. Len(t.node[l].keys) # 0
  BY <1>1, <1>2, <1>4
<1> QED
  BY <1>1, <1>5

\* The first key of the right neighbour follows, and so does nothing if there
\* is no neighbour.
LEMMA FirstOfRight ==
  ASSUME NEW t, NEW lev, NEW rng, Shape(t, lev, rng, rng), NEW bound \in Int,
         NEW n, IsLeaf(t, lev, n), Ahead(t, lev, rng, bound, n), Behind(t, bound, n),
         NEW z \in rng[n], bound <= z, NEW r, r = t.node[n].right
  PROVE  /\ r = NULL => \A y \in Int : ~(Holds(t, lev, y) /\ y > bound)
         /\ r # NULL => /\ IsLeaf(t, lev, r) /\ 1 \in 1 .. Len(t.node[r].keys)
                        /\ IsFirst(t, lev, bound, t.node[r].keys[1])
<1>1. Ahead(t, lev, rng, bound, r)
  BY StepRight
<1>2. CASE r = NULL
  BY <1>1, <1>2 DEF Ahead
<1>3. CASE r # NULL
  <2>1. r \in Nodes(t) /\ lev[r] = 0 /\ r # n /\ Adjacent(rng[n], rng[r])
    BY <1>3, Neighbours DEF IsLeaf
  <2>2. IsLeaf(t, lev, r)
    BY <2>1 DEF IsLeaf
  <2>3. PICK s : s = t.node[r].keys
    OBVIOUS
  <2>4. 1 \in 1 .. Len(s)
    BY <2>1, <2>2, <2>3, HasKeys
  <2>5. s[1] \in rng[r] /\ s[1] \in Int
    BY <2>2, <2>3, <2>4, LeafFacts
  <2>6. z < s[1]
    BY <2>1, <2>5 DEF Adjacent
  <2>7. z \in Int
    BY LeafFacts
  <2>8. s[1] > bound /\ ~(1 > 1)
    BY <2>5, <2>6, <2>7
  <2>9. IsFirst(t, lev, bound, s[1])
    BY <1>1, <2>2, <2>3, <2>4, <2>8, FirstAbove
  <2> QED
    BY <1>3, <2>2, <2>3, <2>4, <2>9
<1> QED
  BY <1>2, <1>3

LEMMA Precedes ==
  ASSUME NEW t, NEW lev, NEW rng, Shape(t, lev, rng, rng), NEW p, IsLeaf(t, lev, p),
         NEW n, t.node[p].right = n, n # NULL
  PROVE  p # n /\ Adjacent(rng[p], rng[n])
<1>1. p \in Nodes(t) /\ lev[p] = 0
  BY DEF IsLeaf
<1> QED
  BY <1>1, Neighbours

\* The last key of the left neighbour precedes the first key of a leaf.
LEMMA LastOfLeft ==
  ASSUME NEW t, NEW lev, NEW rng, Shape(t, lev, rng, rng), NEW n, IsLeaf(t, lev, n),
         NEW s, s = t.node[n].keys, 1 \in 1 .. Len(s), NEW bound, bound = s[1],
         NEW p, p = t.node[n].left, NEW j, j = Len(t.node[p].keys)
  PROVE  /\ p = NULL => \A y \in Int : ~(Holds(t, lev, y) /\ y < bound)
         /\ p # NULL => /\ IsLeaf(t, lev, p) /\ j \in 1 .. Len(t.node[p].keys)
                        /\ IsLast(t, lev, bound, t.node[p].keys[j])
<1>1. /\ LeafLinks(t, lev, rng, n) /\ bound \in rng[n] /\ bound \in Int /\ rng[n] \subseteq Int
      /\ Ascending(s) /\ Len(s) \in Nat /\ (\A i \in 1 .. Len(s) : s[i] \in Int)
  BY LeafFacts
<1>2. ASSUME NEW y \in Int, Holds(t, lev, y), y < bound PROVE ~(y \in rng[n])
  <2>1. ASSUME y \in rng[n] PROVE FALSE
    <3>1. PICK i \in 1 .. Len(s) : y = s[i]
      BY <1>2, <2>1, HeldHere DEF Among
    <3>2. i = 1 \/ s[1] < s[i]
      BY <1>1 DEF Ascending
    <3>3. s[1] \in Int /\ s[i] \in Int
      BY <1>1
    <3>4. i = 1 \/ bound < y
      BY <3>1, <3>2, Zenon
    <3>5. i = 1 => bound = y
      BY <3>1
    <3> QED
      BY <1>1, <1>2, <3>4, <3>5
  <2> QED
    BY <2>1
<1>3. CASE p = NULL
  <2>1. DownClosed(rng[n])
    BY <1>1, <1>3 DEF LeafLinks
  <2>2. ASSUME NEW y \in Int, Holds(t, lev, y), y < bound PROVE FALSE
    <3>1. y <= bound
      BY <1>1, <2>2
    <3>2. y \in rng[n]
      BY <1>1, <2>1, <3>1 DEF DownClosed
    <3> QED
      BY <1>2, <2>2, <3>2
  <2> QED
    BY <1>3, <2>2
<1>4. CASE p # NULL
  <2>1. p \in Nodes(t) /\ lev[p] = 0 /\ n = t.node[p].right /\ n # NULL
    BY <1>1, <1>4, LeafFacts DEF LeafLinks
  <2>2. p # n /\ Adjacent(rng[p], rng[n])
    <3>1. IsLeaf(t, lev, p)
      BY <2>1, Zenon DEF IsLeaf
    <3>2. t.node[p].right = n /\ n # NULL
      BY <2>1, Zenon
    <3> QED
      BY <3>1, <3>2, Precedes, Zenon
  <2>3. IsLeaf(t, lev, p)
    BY <2>1, Zenon DEF IsLeaf
  <2>4. PICK v : v = t.node[p].keys
    OBVIOUS
  <2>5. j \in 1 .. Len(v) /\ ~(j < Len(v))
    <3>1. j = Len(v)
      BY <2>4, Zenon
    <3>2. j \in 1 .. Len(v)
      BY <2>2, <2>3, <2>4, <3>1, HasKeys, Zenon
    <3>3. j \in Nat
      BY <2>3, <2>4, <3>1, LeafFacts, Zenon
    <3>4. ~(j < j)
      <4>1. \A a \in Nat : ~(a < a)
        OBVIOUS
      <4> QED
        BY <3>3, <4>1, Zenon
    <3> QED
      BY <3>1, <3>2, <3>4, Zenon
  <2>6. v[j] \in rng[p] /\ v[j] \in Int /\ rng[p] \subseteq Int
    BY <2>3, <2>4, <2>5, LeafFacts
  <2>7. v[j] < bound
    BY <1>1, <2>2, <2>6 DEF Adjacent
  <2>8. ASSUME NEW y \in Int, Holds(t, lev, y), y < bound PROVE \E x \in rng[p] : y <= x
    <3>0. PICK o : o = v[j]
      OBVIOUS
    <3>o. o \in rng[p] /\ o \in Int
      BY <2>6, <3>0, Zenon
    <3>1. CASE y <= o
      BY <3>o, <3>1, Zenon
    <3>2. CASE o < y
      <4>0. \A a, b \in Int : a < b => a <= b
        OBVIOUS
      <4>1. o <= y /\ y <= bound
        BY <1>1, <2>8, <3>o, <3>2, <4>0, Zenon
      <4>2. y \in rng[p] \/ y \in rng[n]
        BY <1>1, <2>2, <3>o, <4>1, Zenon DEF Adjacent
      <4>3. y \in rng[p]
        BY <1>2, <2>8, <4>2
      <4>4. y <= y
        OBVIOUS
      <4> QED
        BY <4>3, <4>4, Zenon
    <3>3. y <= o \/ o < y
      <4>1. \A a, b \in Int : a <= b \/ b < a
        OBVIOUS
      <4> QED
        BY <3>o, <4>1, Zenon
    <3> QED
      BY <3>1, <3>2, <3>3, Zenon
  <2>9. IsLast(t, lev, bound, v[j])
    BY <1>1, <2>3, <2>4, <2>5, <2>7, <2>8, LastBelow
  <2> QED
    BY <1>4, <2>3, <2>4, <2>5, <2>9
<1> QED
  BY <1>3, <1>4

\* The walk of WalkRight after 0 to K steps.
OnWalk(t, bound, l, K, f) == f[0] = l /\ \A i \in 1 .. K : f[i] = WalkStep(t, bound, f[i - 1])

LEMMA WalkRightIs ==
  ASSUME NEW l, NEW bound, NEW K \in Nat, K = Len(tree.node)
  PROVE  \E f : OnWalk(tree, bound, l, K, f) /\ WalkRight(l, bound) = f[K]
<1>1. PICK f : IsWalk(tree, bound, l, K, f)
  BY WalkExists
<1>2. PICK g : /\ g = [i \in 0 .. K |-> IF i = 0 THEN l ELSE WalkStep(tree, bound, g[i - 1])]
               /\ WalkRight(l, bound) = g[K]
  BY <1>1, Zenon DEF WalkRight, WalkStep, IsWalk
<1>3. 0 \in 0 .. K /\ \A i \in 1 .. K : i \in 0 .. K /\ i # 0
  OBVIOUS
<1>4. OnWalk(tree, bound, l, K, g)
  BY <1>2, <1>3 DEF OnWalk
<1> QED
  BY <1>2, <1>4

LEMMA WalkStepIs ==
  ASSUME NEW t, NEW lev, NEW rng, Shape(t, lev, rng, rng), NEW bound \in Int,
         NEW n, IsLeaf(t, lev, n)
  PROVE  /\ Behind(t, bound, n) => WalkStep(t, bound, n) = t.node[n].right
         /\ ~Behind(t, bound, n) => WalkStep(t, bound, n) = n
<1>1. PICK s : s = t.node[n].keys
  OBVIOUS
<1>2. s \in Seq(Int) /\ n # NULL /\ Len(s) \in Nat /\ \A i \in 1 .. Len(s) : s[i] \in Int
  BY <1>1, LeafFacts
<1>3. \A x : x \in ToSet(s) <=> \E i \in 1 .. Len(s) : x = s[i]
  BY <1>2 DEF ToSet
<1>4. (\E x \in ToSet(s) : x > bound) <=> ~Behind(t, bound, n)
  <2>1. \A i \in 1 .. Len(s) : s[i] > bound <=> ~(s[i] <= bound)
    BY <1>2
  <2>2. Behind(t, bound, n) <=> \A i \in 1 .. Len(s) : s[i] <= bound
    BY <1>1, Zenon DEF Behind
  <2>3. ASSUME NEW x \in ToSet(s), x > bound PROVE ~Behind(t, bound, n)
    <3>1. PICK i \in 1 .. Len(s) : x = s[i]
      BY <1>3
    <3>2. s[i] > bound
      BY <2>3, <3>1, Zenon
    <3> QED
      BY <2>1, <2>2, <3>2
  <2>4. ASSUME NEW i \in 1 .. Len(s), ~(s[i] <= bound) PROVE \E x \in ToSet(s) : x > bound
    <3>1. s[i] > bound
      BY <2>1, <2>4
    <3>2. s[i] \in ToSet(s)
      BY <1>3
    <3> QED
      BY <3>1, <3>2
  <2> QED
    BY <2>2, <2>3, <2>4, Zenon
<1> QED
  BY <1>1, <1>2, <1>4 DEF WalkStep

\* The walk has stopped at n.
Stops(t, bound, n) == n = NULL \/ ~Behind(t, bound, n)

LEMMA WalkStays ==
  ASSUME NEW t, NEW lev, NEW rng, Shape(t, lev, rng, rng), NEW bound \in Int, NEW n, 
         Ahead(t, lev, rng, bound, n), NEW m, m = WalkStep(t, bound, n)
  PROVE  /\ Ahead(t, lev, rng, bound, m)
         /\ Stops(t, bound, n) => m = n
         /\ ~Stops(t, bound, n) => IsLeaf(t, lev, n) /\ m = t.node[n].right
<1>1. CASE n = NULL
  <2>1. m = n
    BY <1>1 DEF WalkStep
  <2> QED
    BY <1>1, <2>1, Zenon DEF Stops
<1>2. CASE n # NULL
  <2>1. IsLeaf(t, lev, n)
    BY <1>2 DEF Ahead
  <2>2. CASE Behind(t, bound, n)
    <3>1. m = t.node[n].right
      BY <2>1, <2>2, WalkStepIs
    <3>2. Ahead(t, lev, rng, bound, m)
      BY <2>1, <2>2, <3>1, StepRight
    <3> QED
      BY <1>2, <2>1, <2>2, <3>1, <3>2, Zenon DEF Stops
  <2>3. CASE ~Behind(t, bound, n)
    <3>1. m = n
      BY <2>1, <2>3, WalkStepIs
    <3> QED
      BY <2>3, <3>1, Zenon DEF Stops
  <2> QED
    BY <2>2, <2>3
<1> QED
  BY <1>1, <1>2

\* The walk never leaves the leaves that matter.
LEMMA WalkAhead ==
  ASSUME NEW t, NEW lev, NEW rng, Shape(t, lev, rng, rng), NEW bound \in Int,
         NEW l, Ahead(t, lev, rng, bound, l), NEW K \in Nat, NEW f, OnWalk(t, bound, l, K, f)
  PROVE  \A i \in 0 .. K : Ahead(t, lev, rng, bound, f[i])
<1> DEFINE Bad == { i \in 0 .. K : ~Ahead(t, lev, rng, bound, f[i]) }
<1> SUFFICES ASSUME Bad # {} PROVE FALSE
  OBVIOUS
<1>1. Bad \subseteq Nat
  OBVIOUS
<1> HIDE DEF Bad
<1>2. PICK i \in Bad : \A y \in Bad : i <= y
  BY <1>1, LeastNumber
<1>3. i \in 0 .. K /\ ~Ahead(t, lev, rng, bound, f[i])
  BY <1>2 DEF Bad
<1>4. i # 0
  BY <1>3 DEF OnWalk
<1>5. i \in 1 .. K /\ i - 1 \in 0 .. K /\ ~(i <= i - 1)
  BY <1>3, <1>4
<1>6. Ahead(t, lev, rng, bound, f[i - 1])
  BY <1>2, <1>5 DEF Bad
<1>7. f[i] = WalkStep(t, bound, f[i - 1])
  BY <1>5 DEF OnWalk
<1>8. Ahead(t, lev, rng, bound, f[i])
  <2>1. PICK m, n : m = f[i] /\ n = f[i - 1]
    OBVIOUS
  <2>2. Ahead(t, lev, rng, bound, m)
    BY <1>6, <1>7, <2>1, WalkStays
  <2> QED
    BY <2>1, <2>2
<1> QED
  BY <1>3, <1>8

\* A walk that has not stopped goes to the right with every step, so it stops
\* before it has met every node twice.
RunsOn(t, lev, bound, K, f) ==
  /\ \A i \in 0 .. K : IsLeaf(t, lev, f[i])
  /\ \A i \in 1 .. K : f[i] = t.node[f[i - 1]].right

LEMMA WalkRunsOn ==
  ASSUME NEW t, NEW lev, NEW rng, Shape(t, lev, rng, rng), NEW bound \in Int,
         NEW l, Ahead(t, lev, rng, bound, l), NEW K \in Nat, NEW f, OnWalk(t, bound, l, K, f),
         ~Stops(t, bound, f[K])
  PROVE  RunsOn(t, lev, bound, K, f)
<1> DEFINE Bad == { j \in 0 .. K : Stops(t, bound, f[K - j]) }
<1>1. \A i \in 0 .. K : Ahead(t, lev, rng, bound, f[i])
  BY WalkAhead
<1>2. \A i \in 1 .. K : f[i] = WalkStep(t, bound, f[i - 1])
  BY DEF OnWalk
<1>3. Bad = {}
  <2> SUFFICES ASSUME Bad # {} PROVE FALSE
    OBVIOUS
  <2>1. Bad \subseteq Nat
    OBVIOUS
  <2> HIDE DEF Bad
  <2>2. PICK j \in Bad : \A y \in Bad : j <= y
    BY <2>1, LeastNumber
  <2>3. j \in 0 .. K /\ Stops(t, bound, f[K - j])
    BY <2>2 DEF Bad
  <2>4. j # 0
    <3>1. j = 0 => K - j = K
      BY <2>3
    <3> QED
      BY <2>3, <3>1, Zenon
  <2>5. PICK i : i = K - j
    OBVIOUS
  <2>6. /\ j - 1 \in 0 .. K /\ ~(j <= j - 1) /\ i \in 0 .. K /\ i + 1 \in 1 .. K
        /\ (i + 1) - 1 = i /\ K - (j - 1) = i + 1
    BY <2>3, <2>4, <2>5
  <2>7. f[i + 1] = f[i]
    <3>1. f[i + 1] = WalkStep(t, bound, f[i])
      BY <1>2, <2>6
    <3>2. PICK m, n : m = f[i + 1] /\ n = f[i]
      OBVIOUS
    <3>3. Ahead(t, lev, rng, bound, n) /\ Stops(t, bound, n) /\ m = WalkStep(t, bound, n)
      BY <1>1, <2>3, <2>5, <2>6, <3>1, <3>2
    <3>4. m = n
      BY <3>3, WalkStays
    <3> QED
      BY <3>2, <3>4
  <2>8. j - 1 \in Bad
    BY <2>3, <2>5, <2>6, <2>7 DEF Bad
  <2> QED
    BY <2>2, <2>6, <2>8
<1>4. ASSUME NEW i \in 0 .. K PROVE ~Stops(t, bound, f[i])
  <2>1. K - i \in 0 .. K /\ K - (K - i) = i
    OBVIOUS
  <2> QED
    BY <1>3, <2>1
<1>5. ASSUME NEW i \in 0 .. K PROVE IsLeaf(t, lev, f[i])
  <2>1. f[i] # NULL
    BY <1>4 DEF Stops
  <2> QED
    BY <1>1, <2>1 DEF Ahead
<1>6. ASSUME NEW i \in 1 .. K PROVE f[i] = t.node[f[i - 1]].right
  <2>1. i - 1 \in 0 .. K
    OBVIOUS
  <2>2. PICK m, n : m = f[i] /\ n = f[i - 1]
    OBVIOUS
  <2>3. Ahead(t, lev, rng, bound, n) /\ ~Stops(t, bound, n) /\ m = WalkStep(t, bound, n)
    BY <1>1, <1>2, <1>4, <2>1, <2>2
  <2>4. m = t.node[n].right
    BY <2>3, WalkStays
  <2> QED
    BY <2>2, <2>4
<1> QED
  BY <1>5, <1>6 DEF RunsOn

LEMMA WalkAscends ==
  ASSUME NEW t, NEW lev, NEW rng, Shape(t, lev, rng, rng), NEW bound,
         NEW K \in Nat, NEW f, RunsOn(t, lev, bound, K, f), NEW i \in 0 .. K
  PROVE  \A j \in 0 .. K : i < j => \A x \in rng[f[i]], y \in rng[f[j]] : x < y
<1> DEFINE Good(j) == \A x \in rng[f[i]], y \in rng[f[j]] : x < y
           Bad == { j \in 0 .. K : i < j /\ ~Good(j) }
<1> SUFFICES ASSUME Bad # {} PROVE FALSE
  OBVIOUS
<1>1. Bad \subseteq Nat
  OBVIOUS
<1> HIDE DEF Bad
<1>2. PICK j \in Bad : \A y \in Bad : j <= y
  BY <1>1, LeastNumber
<1> HIDE DEF Good
<1>3. j \in 0 .. K /\ i < j /\ ~Good(j)
  BY <1>2 DEF Bad
<1>4. PICK p : p = j - 1
  OBVIOUS
<1>5. p \in 0 .. K /\ j \in 1 .. K /\ ~(j <= p) /\ (p = i \/ i < p)
  BY <1>3, <1>4
<1>6. PICK m, n : m = f[p] /\ n = f[j]
  OBVIOUS
<1>7. IsLeaf(t, lev, m) /\ IsLeaf(t, lev, n) /\ t.node[m].right = n
  BY <1>3, <1>4, <1>5, <1>6 DEF RunsOn
<1>8. n # NULL
  BY <1>7, LeafFacts
<1>9. Adjacent(rng[m], rng[n])
  BY <1>7, <1>8, Precedes
<1>10. PICK w : w \in rng[m]
  BY <1>7, LeafFacts
<1>11. IsLeaf(t, lev, f[i])
  BY DEF RunsOn
<1>12. rng[f[i]] \subseteq Int /\ rng[m] \subseteq Int /\ rng[n] \subseteq Int
  BY <1>7, <1>11, LeafFacts
<1>13. ASSUME NEW x \in rng[f[i]], NEW y \in rng[n] PROVE x < y
  <2>1. CASE p = i
    <3>1. x \in rng[m]
      BY <1>6, <2>1
    <3> QED
      BY <1>9, <3>1 DEF Adjacent
  <2>2. CASE i < p
    <3>1. Good(p)
      BY <1>2, <1>5, <2>2 DEF Bad
    <3>2. x < w
      BY <1>6, <1>10, <3>1 DEF Good
    <3>3. w < y
      BY <1>9, <1>10 DEF Adjacent
    <3>4. x \in Int /\ w \in Int /\ y \in Int
      BY <1>10, <1>12
    <3> QED
      BY <3>2, <3>3, <3>4
  <2> QED
    BY <1>5, <2>1, <2>2
<1> QED
  BY <1>3, <1>6, <1>13 DEF Good

LEMMA WalkEnds ==
  ASSUME NEW t, NEW lev, NEW rng, Shape(t, lev, rng, rng), NEW bound \in Int,
         NEW l, Ahead(t, lev, rng, bound, l), NEW K \in Nat, K = Len(t.node),
         NEW f, OnWalk(t, bound, l, K, f)
  PROVE  Ahead(t, lev, rng, bound, f[K]) /\ Stops(t, bound, f[K])
<1>1. Ahead(t, lev, rng, bound, f[K])
  <2>1. K \in 0 .. K
    OBVIOUS
  <2> QED
    BY <2>1, WalkAhead
<1>2. ASSUME ~Stops(t, bound, f[K]) PROVE FALSE
  <2>1. RunsOn(t, lev, bound, K, f)
    BY <1>2, WalkRunsOn
  <2>2. PICK g : g = [i \in 0 .. K |-> f[i]]
    OBVIOUS
  <2>3. g \in [0 .. K -> 1 .. K]
    BY <2>1, <2>2 DEF RunsOn, IsLeaf, Nodes
  <2>4. /\ IsFiniteSet(0 .. K) /\ IsFiniteSet(1 .. K)
        /\ Cardinality(1 .. K) < Cardinality(0 .. K)
    <3>1. IsFiniteSet(0 .. K) /\ Cardinality(0 .. K) = K + 1
      BY FS_Interval
    <3>2. IsFiniteSet(1 .. K) /\ Cardinality(1 .. K) = K
      <4>1. PICK a \in Int : a = 1
        OBVIOUS
      <4>2. IsFiniteSet(a .. K) /\ Cardinality(a .. K) = IF a > K THEN 0 ELSE K - a + 1
        <5>1. K \in Int
          OBVIOUS
        <5> QED
          BY <5>1, FS_Interval
      <4>3. (IF a > K THEN 0 ELSE K - a + 1) = K
        BY <4>1
      <4> QED
        BY <4>1, <4>2, <4>3, Zenon
    <3>3. K < K + 1
      OBVIOUS
    <3> QED
      BY <3>1, <3>2, <3>3
  <2>5. PICK i, j \in 0 .. K : i # j /\ g[i] = g[j]
    <3>1. PICK S, T : S = 0 .. K /\ T = 1 .. K
      OBVIOUS
    <3>2. g \in [S -> T] /\ IsFiniteSet(S) /\ IsFiniteSet(T) /\ Cardinality(T) < Cardinality(S)
      BY <2>3, <2>4, <3>1, Zenon
    <3>3. \E x, y \in S : x # y /\ g[x] = g[y]
      BY <3>2, FS_PigeonHole, Zenon
    <3> QED
      BY <3>1, <3>3, Zenon
  <2>6. f[i] = f[j]
    BY <2>2, <2>5
  <2>7. ASSUME NEW a \in 0 .. K, NEW b \in 0 .. K, a < b, f[a] = f[b] PROVE FALSE
    <3>1. \A x \in rng[f[a]], y \in rng[f[b]] : x < y
      BY <2>1, <2>7, WalkAscends
    <3>2. IsLeaf(t, lev, f[a])
      BY <2>1 DEF RunsOn
    <3>3. rng[f[a]] # {} /\ rng[f[a]] \subseteq Int
      BY <3>2, LeafFacts
    <3>4. PICK x : x \in rng[f[a]] /\ x \in Int
      BY <3>3
    <3>5. x < x
      BY <2>7, <3>1, <3>4
    <3> QED
      BY <3>4, <3>5
  <2>8. i < j \/ j < i
    BY <2>5
  <2> QED
    BY <2>6, <2>7, <2>8
<1> QED
  BY <1>1, <1>2
-----------------------------------------------------------------------------
(* The iterator                                                            *)
-----------------------------------------------------------------------------
IterType == [node : Nat, seq : Nat, index : Nat, key : Int]

\* The iterator's key is in the table, in its leaf or to the right of it; a leaf
\* with the iterator's seq has it at the iterator's index.
IterOK(t, lev, rng, it) ==
  it.node # NULL =>
    /\ IsLeaf(t, lev, it.node) /\ Holds(t, lev, it.key)
    /\ \E x \in rng[it.node] : x <= it.key
    /\ it.seq <= t.node[it.node].seq
    /\ t.node[it.node].seq = it.seq =>
         /\ it.index \in 1 .. Len(t.node[it.node].keys)
         /\ t.node[it.node].keys[it.index] = it.key

\* The iterator went to the first key above bound, or to the last key below it.
ToFirst(t, lev, bound, it) ==
  /\ it.node = NULL => \A y \in Int : ~(Holds(t, lev, y) /\ y > bound)
  /\ it.node # NULL => IsFirst(t, lev, bound, it.key)
ToLast(t, lev, bound, it) ==
  /\ it.node = NULL => \A y \in Int : ~(Holds(t, lev, y) /\ y < bound)
  /\ it.node # NULL => IsLast(t, lev, bound, it.key)

LEMMA StandIs ==
  ASSUME NEW lev, NEW rng, Shape(tree, lev, rng, rng), NEW n, IsLeaf(tree, lev, n),
         NEW i \in 1 .. Len(tree.node[n].keys), NEW it, it = iter', Stand(n, i)
  PROVE  /\ it \in IterType /\ IterOK(tree, lev, rng, it)
         /\ it.node # NULL /\ it.key = tree.node[n].keys[i]
<1>1. PICK s : s = tree.node[n].keys
  OBVIOUS
<1>2. PICK q : q = tree.node[n].seq
  OBVIOUS
<1>3. /\ n \in Nat /\ n # NULL /\ q \in Nat /\ Len(s) \in Nat
      /\ s[i] \in Int /\ s[i] \in rng[n]
  BY <1>1, <1>2, LeafFacts
<1>4. it = [node |-> n, seq |-> q, index |-> i, key |-> s[i]]
  BY <1>1, <1>2, <1>3 DEF Stand
<1>5. it.node = n /\ it.seq = q /\ it.index = i /\ it.key = s[i]
  BY <1>4
<1>6. i \in Nat
  BY <1>1, <1>3
<1>7. it \in IterType
  BY <1>3, <1>4, <1>6 DEF IterType
<1>8. Holds(tree, lev, s[i])
  BY <1>1 DEF Holds, Among, IsLeaf
<1>9. IterOK(tree, lev, rng, it)
  <2>1. q <= q /\ s[i] <= s[i]
    BY <1>3
  <2>2. \E x \in rng[n] : x <= s[i]
    BY <1>3, <2>1
  <2> QED
    BY <1>1, <1>2, <1>5, <1>8, <2>1, <2>2 DEF IterOK
<1> QED
  BY <1>1, <1>3, <1>5, <1>7, <1>9

LEMMA StandOff ==
  ASSUME iter \in IterType, NEW i, NEW it, it = iter', Stand(NULL, i), NEW t, NEW lev, NEW rng
  PROVE  it \in IterType /\ it.node = NULL /\ IterOK(t, lev, rng, it)
<1>1. it = [iter EXCEPT !.node = NULL]
  BY DEF Stand
<1>2. it \in IterType /\ it.node = NULL
  BY <1>1 DEF IterType, NULL
<1> QED
  BY <1>2 DEF IterOK

\* Where a call puts the iterator.
GoesFirst(lev, rng, bound, it) ==
  it \in IterType /\ IterOK(tree, lev, rng, it) /\ ToFirst(tree, lev, bound, it)
GoesLast(lev, rng, bound, it) ==
  it \in IterType /\ IterOK(tree, lev, rng, it) /\ ToLast(tree, lev, bound, it)

LEMMA StandFirst ==
  ASSUME NEW lev, NEW rng, Shape(tree, lev, rng, rng), NEW n, IsLeaf(tree, lev, n),
         NEW i \in 1 .. Len(tree.node[n].keys), NEW it, it = iter', Stand(n, i),
         NEW bound, IsFirst(tree, lev, bound, tree.node[n].keys[i])
  PROVE  GoesFirst(lev, rng, bound, it)
<1>1. /\ it \in IterType /\ IterOK(tree, lev, rng, it)
      /\ it.node # NULL /\ it.key = tree.node[n].keys[i]
  BY StandIs
<1> QED
  BY <1>1, Zenon DEF GoesFirst, ToFirst

LEMMA StandLast ==
  ASSUME NEW lev, NEW rng, Shape(tree, lev, rng, rng), NEW n, IsLeaf(tree, lev, n),
         NEW i \in 1 .. Len(tree.node[n].keys), NEW it, it = iter', Stand(n, i),
         NEW bound, IsLast(tree, lev, bound, tree.node[n].keys[i])
  PROVE  GoesLast(lev, rng, bound, it)
<1>1. /\ it \in IterType /\ IterOK(tree, lev, rng, it)
      /\ it.node # NULL /\ it.key = tree.node[n].keys[i]
  BY StandIs
<1> QED
  BY <1>1, Zenon DEF GoesLast, ToLast

\* To the first key of the right neighbour n, or off the list.
LEMMA StandRight ==
  ASSUME NEW lev, NEW rng, Shape(tree, lev, rng, rng), iter \in IterType, NEW bound \in Int,
         NEW n, IsLeaf(tree, lev, n), Ahead(tree, lev, rng, bound, n), Behind(tree, bound, n),
         NEW z \in rng[n], bound <= z, NEW it, it = iter', Stand(tree.node[n].right, 1)
  PROVE  GoesFirst(lev, rng, bound, it)
<1>1. PICK r : r = tree.node[n].right
  OBVIOUS
<1>2. /\ r = NULL => \A y \in Int : ~(Holds(tree, lev, y) /\ y > bound)
      /\ r # NULL => /\ IsLeaf(tree, lev, r) /\ 1 \in 1 .. Len(tree.node[r].keys)
                     /\ IsFirst(tree, lev, bound, tree.node[r].keys[1])
  BY <1>1, FirstOfRight
<1>3. Stand(r, 1)
  BY <1>1
<1>4. CASE r = NULL
  <2>1. Stand(NULL, 1)
    BY <1>3, <1>4
  <2>2. it \in IterType /\ it.node = NULL /\ IterOK(tree, lev, rng, it)
    BY <2>1, StandOff
  <2> QED
    BY <1>2, <1>4, <2>2, Zenon DEF GoesFirst, ToFirst
<1>5. CASE r # NULL
  BY <1>2, <1>3, <1>5, StandFirst
<1> QED
  BY <1>4, <1>5

\* Seek stands on the first key that is not below its argument.
LEMMA SeekIs ==
  ASSUME NEW lev, NEW rng, Shape(tree, lev, rng, rng), iter \in IterType,
         NEW key \in Keys, Seek(key), NEW it, it = iter'
  PROVE  GoesFirst(lev, rng, key - 1, it)
<1>1. PICK l : l = FindLeaf(tree, key)
  OBVIOUS
<1>2. PICK s : s = tree.node[l].keys
  OBVIOUS
<1>3. PICK k : k = Below(s, key)
  OBVIOUS
<1>4. IsLeaf(tree, lev, l) /\ key \in rng[l]
  BY <1>1, FindLeafIs DEF IsLeaf
<1>5. /\ s \in Seq(Int) /\ Len(s) \in Nat /\ (\A i \in 1 .. Len(s) : s[i] \in Int)
      /\ l # NULL
  BY <1>2, <1>4, LeafFacts
<1>6. PICK b : b = key - 1
  OBVIOUS
<1>7. key \in Int /\ b \in Int /\ b <= key /\ (\A y \in Int : y > b <=> key <= y)
      /\ \A y \in Int : y < key => y <= b
  BY <1>6, ConstantFacts
<1>8. k \in 0 .. Len(s) /\ (\A i \in 1 .. k : s[i] < key) /\ (k < Len(s) => key <= s[k + 1])
  BY <1>3, <1>5, <1>7, BelowIs
<1>9. Ahead(tree, lev, rng, b, l)
  BY <1>4, <1>5, <1>7 DEF Ahead
<1>10. IF k = Len(s) THEN Stand(tree.node[l].right, 1) ELSE Stand(l, k + 1)
  BY <1>1, <1>2, <1>3, Zenon DEF Seek
<1>11. GoesFirst(lev, rng, b, it)
  <2>1. CASE k = Len(s)
    <3>1. ASSUME NEW i \in 1 .. Len(s) PROVE s[i] <= b
      BY <1>5, <1>7, <1>8, <2>1
    <3>2. Behind(tree, b, l)
      BY <1>2, <3>1 DEF Behind
    <3>3. Stand(tree.node[l].right, 1)
      BY <1>10, <2>1, Zenon
    <3> QED
      BY <1>4, <1>7, <1>9, <3>2, <3>3, StandRight
  <2>2. CASE k # Len(s)
    <3>1. PICK j : j = k + 1
      OBVIOUS
    <3>2. k < Len(s) /\ j \in 1 .. Len(s) /\ (j > 1 => k \in 1 .. k /\ k \in 1 .. Len(s) /\ j - 1 = k)
      BY <1>5, <1>8, <2>2, <3>1
    <3>3. s[j] \in Int /\ s[j] > b
      BY <1>5, <1>7, <1>8, <3>1, <3>2
    <3>4. j > 1 => s[j - 1] <= b
      BY <1>5, <1>7, <1>8, <3>2
    <3>5. IsFirst(tree, lev, b, s[j])
      BY <1>2, <1>4, <1>7, <1>9, <3>2, <3>3, <3>4, FirstAbove
    <3>6. Stand(l, j)
      BY <1>10, <2>2, <3>1, Zenon
    <3> QED
      BY <1>2, <1>4, <3>2, <3>5, <3>6, StandFirst
  <2> QED
    BY <2>1, <2>2
<1> QED
  BY <1>6, <1>11

\* A walk from the iterator's leaf meets the keys from its own on.
LEMMA IterAhead ==
  ASSUME NEW lev, NEW rng, Shape(tree, lev, rng, rng), iter \in IterType,
         IterOK(tree, lev, rng, iter), Valid, NEW bound \in Int, iter.key <= bound + 1
  PROVE  IsLeaf(tree, lev, iter.node) /\ Ahead(tree, lev, rng, bound, iter.node)
<1>1. IsLeaf(tree, lev, iter.node) /\ iter.node # NULL
  BY DEF IterOK, Valid
<1>2. PICK x \in rng[iter.node] : x <= iter.key
  BY <1>1 DEF IterOK
<1>3. x \in Int /\ iter.key \in Int
  BY <1>1, LeafFacts DEF IterType
<1>4. ASSUME NEW y \in Int, y > bound PROVE x <= y
  BY <1>2, <1>3, <1>4
<1> QED
  BY <1>1, <1>4 DEF Ahead

LEMMA WalkFinds ==
  ASSUME NEW lev, NEW rng, Shape(tree, lev, rng, rng), iter \in IterType,
         IterOK(tree, lev, rng, iter), Valid, NEW bound \in Int, iter.key <= bound + 1,
         NEW w, w = WalkRight(iter.node, bound)
  PROVE  Ahead(tree, lev, rng, bound, w) /\ Stops(tree, bound, w)
<1>1. PICK K \in Nat : K = Len(tree.node)
  BY NodeFields DEF Shape
<1>2. PICK l : l = iter.node
  OBVIOUS
<1>3. Ahead(tree, lev, rng, bound, l)
  BY <1>2, IterAhead
<1>4. PICK f : OnWalk(tree, bound, l, K, f) /\ w = f[K]
  BY <1>1, <1>2, WalkRightIs
<1>5. Ahead(tree, lev, rng, bound, f[K]) /\ Stops(tree, bound, f[K])
  BY <1>1, <1>3, <1>4, WalkEnds
<1> QED
  BY <1>4, <1>5

\* Next stands on the key that follows.
LEMMA IterNextIs ==
  ASSUME NEW lev, NEW rng, Shape(tree, lev, rng, rng), iter \in IterType,
         IterOK(tree, lev, rng, iter), IterNext, NEW it, it = iter'
  PROVE  GoesFirst(lev, rng, iter.key, it)
<1>1. Valid /\ iter.node # NULL
  BY DEF IterNext, Valid
<1>2. PICK l, b, i : l = iter.node /\ b = iter.key /\ i = iter.index
  OBVIOUS
<1>3. b \in Int /\ iter.key <= b + 1 /\ i \in Nat
  BY <1>2 DEF IterType
<1>4. IsLeaf(tree, lev, l) /\ Ahead(tree, lev, rng, b, l)
  BY <1>1, <1>2, <1>3, IterAhead
<1>5. GoesFirst(lev, rng, b, it)
  <2>1. CASE Unmoved
    <3>1. PICK s : s = tree.node[l].keys
      OBVIOUS
    <3>2. i \in 1 .. Len(s) /\ s[i] = b
      BY <1>1, <1>2, <2>1, <3>1 DEF IterOK, Unmoved
    <3>3. /\ Len(s) \in Nat /\ Ascending(s)
          /\ \A j \in 1 .. Len(s) : s[j] \in rng[l] /\ s[j] \in Int
      BY <1>4, <3>1, LeafFacts
    <3>4. IF i = Len(s) THEN Stand(tree.node[l].right, 1) ELSE Stand(l, i + 1)
      BY <1>2, <2>1, <3>1, Zenon DEF IterNext
    <3>5. CASE i = Len(s)
      <4>1. ASSUME NEW j \in 1 .. Len(s) PROVE s[j] <= b
        <5>1. j = i \/ s[j] < s[i]
          BY <3>2, <3>3, <3>5 DEF Ascending
        <5>2. s[j] \in Int
          BY <3>3
        <5>3. s[j] = b \/ s[j] < b
          BY <3>2, <5>1
        <5> QED
          BY <1>3, <5>2, <5>3
      <4>2. Behind(tree, b, l)
        BY <3>1, <4>1 DEF Behind
      <4>3. b \in rng[l] /\ b <= b
        BY <1>3, <3>2, <3>3
      <4>4. Stand(tree.node[l].right, 1)
        BY <3>4, <3>5, Zenon
      <4> QED
        BY <1>3, <1>4, <4>2, <4>3, <4>4, StandRight
    <3>6. CASE i # Len(s)
      <4>1. PICK j : j = i + 1
        OBVIOUS
      <4>2. j \in 1 .. Len(s) /\ j - 1 = i /\ i < j
        BY <1>3, <3>2, <3>3, <3>6, <4>1
      <4>3. s[i] < s[j]
        BY <3>2, <3>3, <4>2 DEF Ascending
      <4>4. s[j] \in Int
        BY <3>3, <4>2
      <4>5. s[j] > b /\ s[j - 1] <= b
        BY <1>3, <3>2, <4>2, <4>3, <4>4
      <4>6. IsFirst(tree, lev, b, s[j])
        BY <1>3, <1>4, <3>1, <4>2, <4>5, FirstAbove
      <4>7. Stand(l, j)
        BY <3>4, <3>6, <4>1, Zenon
      <4> QED
        BY <1>4, <3>1, <4>2, <4>6, <4>7, StandFirst
    <3> QED
      BY <3>5, <3>6
  <2>2. CASE ~Unmoved
    <3>1. PICK w : w = WalkRight(l, b)
      OBVIOUS
    <3>2. Ahead(tree, lev, rng, b, w) /\ Stops(tree, b, w)
      BY <1>1, <1>2, <1>3, <3>1, WalkFinds
    <3>3. PICK s : s = tree.node[w].keys
      OBVIOUS
    <3>4. IF w = NULL THEN Stand(NULL, 0) ELSE Stand(w, UpTo(s, b) + 1)
      BY <1>2, <2>2, <3>1, <3>3, Zenon DEF IterNext
    <3>5. CASE w = NULL
      <4>1. Stand(NULL, 0)
        BY <3>4, <3>5
      <4>2. it \in IterType /\ it.node = NULL /\ IterOK(tree, lev, rng, it)
        BY <4>1, StandOff
      <4>3. \A y \in Int : ~(Holds(tree, lev, y) /\ y > b)
        BY <3>2, <3>5 DEF Ahead
      <4> QED
        BY <4>2, <4>3, Zenon DEF GoesFirst, ToFirst
    <3>6. CASE w # NULL
      <4>1. IsLeaf(tree, lev, w) /\ ~Behind(tree, b, w)
        BY <3>2, <3>6 DEF Ahead, Stops
      <4>2. /\ s \in Seq(Int) /\ Len(s) \in Nat /\ Ascending(s)
            /\ \A e \in 1 .. Len(s) : s[e] \in Int
        BY <3>3, <4>1, LeafFacts
      <4>3. PICK k : k = UpTo(s, b)
        OBVIOUS
      <4>4. k \in 0 .. Len(s) /\ Slot(s, b, k)
        BY <1>3, <4>2, <4>3, UpToIs
      <4>5. PICK e \in 1 .. Len(s) : ~(s[e] <= b)
        BY <3>3, <4>1 DEF Behind
      <4>6. k # Len(s)
        <5>1. ASSUME k = Len(s) PROVE FALSE
          <6>1. k \in 1 .. Len(s) /\ k > 0 /\ (e = k \/ e < k)
            BY <4>2, <4>4, <4>5, <5>1
          <6>2. s[k] <= b /\ s[k] \in Int /\ s[e] \in Int
            BY <4>2, <4>4, <6>1 DEF Slot
          <6>3. e = k \/ s[e] < s[k]
            BY <4>2, <6>1 DEF Ascending
          <6>4. \A x, y \in Int : x < y /\ y <= b => x <= b
            BY <1>3
          <6> QED
            BY <4>5, <6>2, <6>3, <6>4, Zenon
        <5> QED
          BY <5>1
      <4>7. PICK j : j = k + 1
        OBVIOUS
      <4>8. j \in 1 .. Len(s) /\ k < Len(s) /\ (j > 1 => k > 0 /\ j - 1 = k)
        BY <4>2, <4>4, <4>6, <4>7
      <4>9. s[j] > b
        <5>1. b < s[j] /\ s[j] \in Int
          BY <4>2, <4>4, <4>7, <4>8 DEF Slot
        <5> QED
          BY <1>3, <5>1
      <4>10. j > 1 => s[j - 1] <= b
        BY <4>4, <4>8 DEF Slot
      <4>11. IsFirst(tree, lev, b, s[j])
        BY <1>3, <3>2, <3>3, <4>1, <4>8, <4>9, <4>10, FirstAbove
      <4>12. Stand(w, j)
        BY <3>4, <3>6, <4>3, <4>7, Zenon
      <4> QED
        BY <3>3, <4>1, <4>8, <4>11, <4>12, StandFirst
    <3> QED
      BY <3>5, <3>6
  <2> QED
    BY <2>1, <2>2
<1> QED
  BY <1>2, <1>5

\* From a key in its leaf, to the one before it.
LEMMA StandBefore ==
  ASSUME NEW lev, NEW rng, Shape(tree, lev, rng, rng), iter \in IterType,
         NEW n, IsLeaf(tree, lev, n), NEW s, s = tree.node[n].keys, NEW i \in 1 .. Len(s),
         NEW b, b = s[i], NEW p, p = tree.node[n].left, NEW it, it = iter',
         IF i > 1 THEN Stand(n, i - 1)
         ELSE IF p = NULL THEN Stand(NULL, 0) ELSE Stand(p, Len(tree.node[p].keys))
  PROVE  GoesLast(lev, rng, b, it)
<1>1. /\ Len(s) \in Nat /\ Ascending(s)
      /\ \A j \in 1 .. Len(s) : s[j] \in rng[n] /\ s[j] \in Int
  BY LeafFacts
<1>2. b \in rng[n] /\ b \in Int
  BY <1>1
<1>3. CASE i > 1
  <2>1. PICK j : j = i - 1
    OBVIOUS
  <2>2. j \in 1 .. Len(s) /\ j + 1 = i /\ j < i
    BY <1>1, <1>3, <2>1
  <2>3. s[j] < s[i]
    BY <1>1, <2>2 DEF Ascending
  <2>4. s[j] < b /\ b <= s[j + 1]
    <3>1. b <= b /\ b = s[j + 1]
      BY <1>2, <2>2
    <3> QED
      BY <2>3, <3>1
  <2>5. ASSUME NEW y \in Int, y < b PROVE \E x \in rng[n] : y <= x
    BY <1>2, <2>5
  <2>6. IsLast(tree, lev, b, s[j])
    BY <1>2, <2>2, <2>4, <2>5, LastBelow
  <2>7. Stand(n, j)
    BY <1>3, <2>1, Zenon
  <2> QED
    BY <2>2, <2>6, <2>7, StandLast
<1>4. CASE ~(i > 1)
  <2>1. i = 1 /\ 1 \in 1 .. Len(s)
    BY <1>1, <1>4
  <2>2. b = s[1]
    BY <2>1
  <2>3. PICK j : j = Len(tree.node[p].keys)
    OBVIOUS
  <2>4. /\ p = NULL => \A y \in Int : ~(Holds(tree, lev, y) /\ y < b)
        /\ p # NULL => /\ IsLeaf(tree, lev, p) /\ j \in 1 .. Len(tree.node[p].keys)
                       /\ IsLast(tree, lev, b, tree.node[p].keys[j])
    BY <2>1, <2>2, <2>3, LastOfLeft
  <2>5. CASE p = NULL
    <3>1. Stand(NULL, 0)
      BY <1>4, <2>5, Zenon
    <3>2. it \in IterType /\ it.node = NULL /\ IterOK(tree, lev, rng, it)
      BY <3>1, StandOff
    <3> QED
      BY <2>4, <2>5, <3>2, Zenon DEF GoesLast, ToLast
  <2>6. CASE p # NULL
    <3>1. Stand(p, j)
      BY <1>4, <2>3, <2>6, Zenon
    <3> QED
      BY <2>4, <2>6, <3>1, StandLast
  <2> QED
    BY <2>5, <2>6
<1> QED
  BY <1>3, <1>4

\* The walk for the iterator's key ends on the leaf that has it.
LEMMA WalkToKey ==
  ASSUME NEW lev, NEW rng, Shape(tree, lev, rng, rng), iter \in IterType,
         IterOK(tree, lev, rng, iter), Valid,
         NEW w, w = WalkRight(iter.node, iter.key - 1), NEW s, s = tree.node[w].keys,
         NEW i, i = Below(s, iter.key) + 1
  PROVE  IsLeaf(tree, lev, w) /\ i \in 1 .. Len(s) /\ s[i] = iter.key
<1>1. PICK key : key = iter.key
  OBVIOUS
<1>2. PICK b : b = key - 1
  OBVIOUS
<1>3. key \in Int /\ b \in Int /\ key <= b + 1 /\ key > b /\ \A y \in Int : ~(y <= b) => key <= y
  BY <1>1, <1>2 DEF IterType
<1>4. w = WalkRight(iter.node, b)
  BY <1>1, <1>2
<1>5. iter.key <= b + 1
  BY <1>1, <1>3
<1>6. Ahead(tree, lev, rng, b, w) /\ Stops(tree, b, w)
  BY <1>3, <1>4, <1>5, WalkFinds
<1>7. Holds(tree, lev, key)
  BY <1>1 DEF IterOK, Valid
<1>8. w # NULL
  BY <1>3, <1>6, <1>7 DEF Ahead
<1>9. IsLeaf(tree, lev, w) /\ ~Behind(tree, b, w)
  BY <1>6, <1>8 DEF Ahead, Stops
<1>10. /\ s \in Seq(Int) /\ Len(s) \in Nat /\ Ascending(s)
       /\ (\A e \in 1 .. Len(s) : s[e] \in rng[w] /\ s[e] \in Int)
       /\ rng[w] \subseteq Int /\ Convex(rng[w])
  BY <1>9, LeafFacts, SMTT(20)
<1>11. PICK e \in 1 .. Len(s) : ~(s[e] <= b)
  BY <1>9 DEF Behind
<1>12. key <= s[e] /\ s[e] \in rng[w]
  BY <1>3, <1>10, <1>11
<1>13. PICK x \in rng[w] : x <= key
  BY <1>3, <1>6, <1>7, <1>8 DEF Ahead
<1>14. key \in rng[w]
  BY <1>3, <1>10, <1>12, <1>13 DEF Convex
<1>15. Among(s, key)
  BY <1>7, <1>9, <1>14, HeldHere
<1>16. PICK j \in 1 .. Len(s) : s[j] = key
  BY <1>15 DEF Among
<1>17. PICK k : k = Below(s, key)
  OBVIOUS
<1>18. k \in 0 .. Len(s) /\ (\A a \in 1 .. k : s[a] < key) /\ (k < Len(s) => key <= s[k + 1])
  BY <1>3, <1>10, <1>17, BelowIs
<1>19. ~(j \in 1 .. k)
  <2>1. j \in 1 .. k => s[j] < key
    BY <1>18
  <2>2. ~(key < key)
    BY <1>3
  <2> QED
    BY <1>16, <2>1, <2>2, Zenon
<1>20. i = k + 1
  BY <1>1, <1>17
<1>21. i \in 1 .. Len(s) /\ k < Len(s) /\ (i = j \/ i < j)
  BY <1>10, <1>16, <1>18, <1>19, <1>20
<1>22. key <= s[i] /\ s[i] \in Int
  BY <1>10, <1>18, <1>20, <1>21
<1>23. i = j \/ s[i] < key
  <2>1. i = j \/ s[i] < s[j]
    BY <1>10, <1>21 DEF Ascending
  <2> QED
    BY <1>16, <2>1, Zenon
<1>24. s[i] = key
  <2>1. \A a \in Int : ~(a < key /\ key <= a)
    BY <1>3
  <2> QED
    BY <1>16, <1>22, <1>23, <2>1, Zenon
<1> QED
  BY <1>1, <1>9, <1>21, <1>24

\* Prev stands on the key before.
LEMMA IterPrevIs ==
  ASSUME NEW lev, NEW rng, Shape(tree, lev, rng, rng), iter \in IterType,
         IterOK(tree, lev, rng, iter), IterPrev, NEW it, it = iter'
  PROVE  GoesLast(lev, rng, iter.key, it)
<1>1. Valid /\ iter.node # NULL
  BY DEF IterPrev, Valid
<1>2. PICK l : l = IF Unmoved THEN iter.node ELSE WalkRight(iter.node, iter.key - 1)
  OBVIOUS
<1>3. PICK s : s = tree.node[l].keys
  OBVIOUS
<1>4. PICK i : i = IF Unmoved THEN iter.index ELSE Below(s, iter.key) + 1
  OBVIOUS
<1>5. PICK p : p = tree.node[l].left
  OBVIOUS
<1>6. IF i > 1 THEN Stand(l, i - 1)
      ELSE IF p = NULL THEN Stand(NULL, 0) ELSE Stand(p, Len(tree.node[p].keys))
  BY <1>2, <1>3, <1>4, <1>5, Zenon DEF IterPrev
<1>7. IsLeaf(tree, lev, l) /\ i \in 1 .. Len(s) /\ s[i] = iter.key
  <2>1. CASE Unmoved
    <3>1. l = iter.node /\ i = iter.index
      BY <1>2, <1>4, <2>1, Zenon
    <3> QED
      BY <1>1, <1>3, <2>1, <3>1 DEF IterOK, Unmoved
  <2>2. CASE ~Unmoved
    <3>1. l = WalkRight(iter.node, iter.key - 1) /\ i = Below(s, iter.key) + 1
      BY <1>2, <1>4, <2>2, Zenon
    <3> QED
      BY <1>1, <1>3, <3>1, WalkToKey
  <2> QED
    BY <2>1, <2>2
<1>8. PICK b : b = iter.key
  OBVIOUS
<1>9. GoesLast(lev, rng, b, it)
  BY <1>3, <1>5, <1>6, <1>7, <1>8, StandBefore
<1> QED
  BY <1>8, <1>9
-----------------------------------------------------------------------------
(* The inductive invariant                                                 *)
-----------------------------------------------------------------------------
\* There are heights and ranges that make the nodes a search tree and its leaves
\* a list in the order of their ranges, and the iterator is sound in it.
Sound(t, it) == \E lev, rng : Shape(t, lev, rng, rng) /\ IterOK(t, lev, rng, it)

Inv ==
  /\ load \in Seq(Keys) /\ inserts \in 0 .. MaxInserts /\ iter \in IterType
  /\ Sound(tree, iter)

LEMMA EmptyShape ==
  ASSUME NEW t, t = EmptyTree
  PROVE  \E lev, rng : Shape(t, lev, rng, rng)
<1>1. PICK f : f = LeafNode(<< >>, NULL, NULL)
  OBVIOUS
<1>2. f \in NodeType /\ f.keys = << >> /\ f.kids = << >> /\ f.left = NULL /\ f.right = NULL
  BY <1>1 DEF LeafNode, NodeType, NULL
<1>3. PICK s : s = << f >>
  OBVIOUS
<1>4. s \in Seq(NodeType) /\ Len(s) = 1 /\ s[1] = f
  BY <1>2, <1>3
<1>5. t = [node |-> s, root |-> 1, depth |-> 0]
  BY <1>1, <1>3 DEF EmptyTree
<1>6. t \in TreeType /\ t.node = s /\ t.root = 1 /\ t.depth = 0
  BY <1>4, <1>5 DEF TreeType
<1>7. Nodes(t) = {1}
  <2>1. 1 .. 1 = {1}
    OBVIOUS
  <2>2. Len(t.node) = 1
    BY <1>4, <1>6
  <2> QED
    BY <2>1, <2>2, Zenon DEF Nodes
<1>8. PICK lev : lev = [n \in {1} |-> 0]
  OBVIOUS
<1>9. PICK rng : rng = [n \in {1} |-> Int]
  OBVIOUS
<1>10. Convex(Int) /\ UpClosed(Int) /\ DownClosed(Int) /\ Int # {}
  BY DEF Convex, UpClosed, DownClosed
<1>11. lev \in [{1} -> Nat] /\ lev[1] = 0 /\ rng \in [{1} -> SUBSET Int] /\ rng[1] = Int
  BY <1>8, <1>9
<1>12. Ranges(t, lev, rng)
  BY <1>6, <1>7, <1>10, <1>11 DEF Ranges
<1>13. LeafKeys(f, rng[1])
  <2>1. M \in Nat /\ Len(f.keys) = 0
    BY <1>2, ConstantFacts
  <2> QED
    BY <1>2, <1>11, <2>1 DEF LeafKeys, Ascending
<1>14. LeafLinks(t, lev, rng, 1)
  <2>1. t.node[1].left = NULL /\ t.node[1].right = NULL
    BY <1>2, <1>4, <1>6
  <2> QED
    BY <1>10, <1>11, <2>1 DEF LeafLinks
<1>15. LeafOK(t, lev, rng, 1)
  BY <1>4, <1>6, <1>13, <1>14 DEF LeafOK
<1>16. Shape(t, lev, rng, rng)
  BY <1>6, <1>7, <1>11, <1>12, <1>15 DEF Shape
<1> QED
  BY <1>16

LEMMA InvInit == Init => Inv
<1> SUFFICES ASSUME Init PROVE Inv
  OBVIOUS
<1>1. load \in Seq(Keys) /\ inserts \in 0 .. MaxInserts
  BY ConstantFacts DEF Init
<1>2. iter \in IterType /\ iter.node = NULL
  BY DEF Init, IterType, NULL, NoKey
<1>3. PICK lev, rng : Shape(tree, lev, rng, rng)
  BY EmptyShape DEF Init
<1>4. IterOK(tree, lev, rng, iter)
  BY <1>2 DEF IterOK
<1> QED
  BY <1>1, <1>2, <1>3, <1>4 DEF Inv, Sound

\* An insert leaves the iterator sound.
LEMMA IterKept ==
  ASSUME NEW t, NEW lev, NEW rng, Shape(t, lev, rng, rng), NEW it \in IterType,
         IterOK(t, lev, rng, it), NEW key, NEW t2, NEW lev2, NEW rng2,
         Shape(t2, lev2, rng2, rng2), Gains(t, lev, rng, key, t2, lev2, rng2)
  PROVE  IterOK(t2, lev2, rng2, it)
<1> SUFFICES ASSUME it.node # NULL
             PROVE  /\ IsLeaf(t2, lev2, it.node) /\ Holds(t2, lev2, it.key)
                    /\ \E x \in rng2[it.node] : x <= it.key
                    /\ it.seq <= t2.node[it.node].seq
                    /\ t2.node[it.node].seq = it.seq =>
                         /\ it.index \in 1 .. Len(t2.node[it.node].keys)
                         /\ t2.node[it.node].keys[it.index] = it.key
  BY DEF IterOK
<1>1. PICK n : n = it.node
  OBVIOUS
<1>2. /\ IsLeaf(t, lev, n) /\ Holds(t, lev, it.key) /\ (\E x \in rng[n] : x <= it.key)
      /\ it.seq <= t.node[n].seq
      /\ t.node[n].seq = it.seq =>
           it.index \in 1 .. Len(t.node[n].keys) /\ t.node[n].keys[it.index] = it.key
  BY <1>1 DEF IterOK
<1>3. n \in Nodes(t) /\ lev[n] = 0
  BY <1>2 DEF IsLeaf
<1>4. IsLeaf(t2, lev2, n)
  BY <1>3 DEF Gains, Extends, IsLeaf
<1>5. Holds(t2, lev2, it.key)
  BY <1>2 DEF Gains
<1>6. LeafMoves(t, rng, t2, rng2, n)
  BY <1>3 DEF Gains
<1>7. PICK x \in rng[n] : x <= it.key
  BY <1>2
<1>8. PICK y \in rng2[n] : y <= x
  BY <1>6 DEF LeafMoves
<1>9. x \in Int /\ y \in Int /\ it.key \in Int /\ it.seq \in Nat
      /\ t.node[n].seq \in Nat /\ t2.node[n].seq \in Nat
  BY <1>2, <1>4, LeafFacts DEF IterType
<1>10. y <= it.key
  BY <1>7, <1>8, <1>9
<1>11. t.node[n].seq <= t2.node[n].seq
       /\ (t2.node[n].seq = t.node[n].seq => t2.node[n].keys = t.node[n].keys)
  BY <1>6 DEF LeafMoves
<1>12. it.seq <= t2.node[n].seq /\ (t2.node[n].seq = it.seq =>
         t.node[n].seq = it.seq /\ t2.node[n].seq = t.node[n].seq)
  BY <1>2, <1>9, <1>11
<1>13. t2.node[n].seq = it.seq =>
         it.index \in 1 .. Len(t2.node[n].keys) /\ t2.node[n].keys[it.index] = it.key
  BY <1>2, <1>11, <1>12, Zenon
<1> QED
  BY <1>1, <1>4, <1>5, <1>10, <1>12, <1>13

LEMMA SoundInsert ==
  ASSUME iter \in IterType, Sound(tree, iter), NEW key \in Keys,
         NEW t2, t2 = Insert_rtm(tree, key)
  PROVE  Sound(t2, iter)
<1>1. PICK it, t : it = iter /\ t = tree
  OBVIOUS
<1>2. PICK lev, rng : Shape(t, lev, rng, rng) /\ IterOK(t, lev, rng, it)
  BY <1>1 DEF Sound
<1>3. PICK lev2, rng2 : Shape(t2, lev2, rng2, rng2) /\ Gains(t, lev, rng, key, t2, lev2, rng2)
  BY <1>1, <1>2, InsertIs
<1>4. IterOK(t2, lev2, rng2, it)
  BY <1>1, <1>2, <1>3, IterKept
<1> QED
  BY <1>1, <1>3, <1>4 DEF Sound

LEMMA InvNext == Inv /\ [Next]_vars => Inv'
<1> SUFFICES ASSUME Inv, [Next]_vars PROVE Inv'
  OBVIOUS
<1>1. /\ load \in Seq(Keys) /\ inserts \in 0 .. MaxInserts /\ iter \in IterType
      /\ Sound(tree, iter)
  BY DEF Inv
<1>2. MaxInserts \in Nat /\ Asked \subseteq Keys
  BY ConstantFacts
<1>3. PICK t, it : t = tree' /\ it = iter'
  OBVIOUS
<1>4. CASE Put
  <2>1. load # << >> /\ t = Insert_rtm(tree, Head(load)) /\ load' = Tail(load) /\ it = iter /\ inserts' = inserts
    BY <1>3, <1>4 DEF Put
  <2>2. PICK key \in Keys : key = Head(load)
    BY <1>1, <2>1
  <2>3. load' \in Seq(Keys)
    BY <1>1, <2>1
  <2>4. t = Insert_rtm(tree, key)
    BY <2>1, <2>2
  <2>5. Sound(t, iter)
    BY <1>1, <2>4, SoundInsert
  <2> QED
    BY <1>1, <1>3, <2>1, <2>3, <2>5 DEF Inv
<1>5. ASSUME NEW key \in Asked, GetWithInsert(key) PROVE Inv'
  <2>1. t = Insert_rtm(tree, key) /\ load' = load /\ it = iter
    BY <1>3, <1>5 DEF GetWithInsert
  <2>2. inserts' \in 0 .. MaxInserts
    BY <1>1, <1>2, <1>5 DEF GetWithInsert
  <2>3. Sound(t, iter)
    BY <1>1, <1>2, <2>1, SoundInsert
  <2> QED
    BY <1>1, <1>3, <2>1, <2>2, <2>3 DEF Inv
<1>6. PICK lev, rng : Shape(tree, lev, rng, rng) /\ IterOK(tree, lev, rng, iter)
  BY <1>1 DEF Sound
<1>7. ASSUME it \in IterType, IterOK(tree, lev, rng, it), UNCHANGED << tree, load, inserts >>
      PROVE  Inv'
  <2>1. Sound(tree, it)
    BY <1>6, <1>7 DEF Sound
  <2>2. Sound(t, it)
    BY <1>3, <1>7, <2>1
  <2> QED
    BY <1>1, <1>3, <1>7, <2>2 DEF Inv
<1>8. ASSUME NEW key \in Asked, Seek(key) PROVE Inv'
  <2>1. GoesFirst(lev, rng, key - 1, it)
    BY <1>1, <1>2, <1>3, <1>6, <1>8, SeekIs
  <2>2. UNCHANGED << tree, load, inserts >>
    BY <1>8 DEF Seek
  <2> QED
    BY <1>7, <2>1, <2>2 DEF GoesFirst
<1>9. CASE IterNext
  <2>1. GoesFirst(lev, rng, iter.key, it)
    BY <1>1, <1>3, <1>6, <1>9, IterNextIs
  <2>2. UNCHANGED << tree, load, inserts >>
    BY <1>9 DEF IterNext
  <2> QED
    BY <1>7, <2>1, <2>2 DEF GoesFirst
<1>10. CASE IterPrev
  <2>1. GoesLast(lev, rng, iter.key, it)
    BY <1>1, <1>3, <1>6, <1>10, IterPrevIs
  <2>2. UNCHANGED << tree, load, inserts >>
    BY <1>10 DEF IterPrev
  <2> QED
    BY <1>7, <2>1, <2>2 DEF GoesLast
<1>11. CASE UNCHANGED vars
  <2>1. iter' = iter /\ UNCHANGED << tree, load, inserts >>
    BY <1>11 DEF vars
  <2> QED
    BY <1>1, <1>3, <1>6, <1>7, <2>1
<1> QED
  BY <1>4, <1>5, <1>8, <1>9, <1>10, <1>11 DEF Next

\* The inductive invariant holds in every state of every behaviour.
THEOREM Invariance == Spec => []Inv
BY InvInit, InvNext, PTL DEF Spec
-----------------------------------------------------------------------------
(* What the invariant gives                                                *)
-----------------------------------------------------------------------------
LeavesOf(t) == {n \in DOMAIN t.node : t.node[n].kids = << >>}
ContentsOf(t) == UNION {ToSet(t.node[l].keys) : l \in LeavesOf(t)}

LEMMA LeavesAre ==
  ASSUME NEW t, NEW lev, NEW rng, Shape(t, lev, rng, rng)
  PROVE  /\ DOMAIN t.node = Nodes(t)
         /\ \A n : n \in LeavesOf(t) <=> IsLeaf(t, lev, n)
<1>1. t \in TreeType /\ t.node \in Seq(NodeType)
  BY NodeFields DEF Shape
<1>2. DOMAIN t.node = Nodes(t)
  BY <1>1 DEF Nodes
<1>3. ASSUME NEW n \in Nodes(t) PROVE t.node[n].kids = << >> <=> lev[n] = 0
  <2>1. lev[n] \in Nat
    BY DEF Shape, Ranges
  <2>2. CASE lev[n] = 0
    <3>1. t.node[n].kids = << >>
      BY <2>2 DEF Shape, LeafOK, LeafKeys
    <3> QED
      BY <2>2, <3>1
  <2>3. CASE lev[n] # 0
    <3>1. lev[n] > 0
      BY <2>1, <2>3
    <3>2. Len(t.node[n].kids) = Len(t.node[n].keys) + 1
      BY <3>1 DEF Shape, InnerOK, InnerKeys
    <3>3. t.node[n].keys \in Seq(Keys)
      BY <1>1, NodeFields
    <3>4. Len(t.node[n].keys) \in Nat
      BY <3>3, KeySeq
    <3>5. Len(t.node[n].kids) # 0
      BY <3>2, <3>4
    <3>6. Len(<< >>) = 0
      OBVIOUS
    <3>7. t.node[n].kids # << >>
      BY <3>5, <3>6, Zenon
    <3> QED
      BY <2>3, <3>7
  <2> QED
    BY <2>2, <2>3
<1>4. ASSUME NEW n PROVE n \in LeavesOf(t) <=> IsLeaf(t, lev, n)
  BY <1>2, <1>3 DEF LeavesOf, IsLeaf
<1> QED
  BY <1>2, <1>4

LEMMA LeavesAreOf == Leaves = LeavesOf(tree)
BY DEF Leaves, LeavesOf

\* The keys of the table are the keys in its leaves.
LEMMA ContentsAre ==
  ASSUME NEW t, NEW lev, NEW rng, Shape(t, lev, rng, rng)
  PROVE  \A x : x \in ContentsOf(t) <=> Holds(t, lev, x)
<1>1. \A n : n \in LeavesOf(t) <=> IsLeaf(t, lev, n)
  BY LeavesAre
<1>2. ASSUME NEW n, IsLeaf(t, lev, n) PROVE \A x : x \in ToSet(t.node[n].keys) <=> Among(t.node[n].keys, x)
  <2>1. PICK s : s = t.node[n].keys
    OBVIOUS
  <2>2. s \in Seq(Int)
    BY <1>2, <2>1, LeafFacts
  <2>3. \A x : x \in ToSet(s) <=> Among(s, x)
    BY <2>2 DEF ToSet, Among
  <2> QED
    BY <2>1, <2>3
<1>3. ASSUME NEW x PROVE x \in ContentsOf(t) <=> \E n \in LeavesOf(t) : x \in ToSet(t.node[n].keys)
  BY DEF ContentsOf
<1>4. ASSUME NEW x PROVE x \in ContentsOf(t) <=> Holds(t, lev, x)
  BY <1>1, <1>2, <1>3, Zenon DEF Holds, IsLeaf
<1> QED
  BY <1>4

\* No insert writes outside the arrays of a node, whatever the sizes: leaves
\* have at most M entries, inner nodes at most NENT keys and one child more than
\* keys, and links and iterator lead to leaves.
THEOREM TypeCorrect == Spec => []TypeOK
<1>1. Inv => TypeOK
  <2> SUFFICES ASSUME Inv PROVE TypeOK
    OBVIOUS
  <2>1. /\ load \in Seq(Keys) /\ inserts \in 0 .. MaxInserts /\ iter \in IterType
        /\ Sound(tree, iter)
    BY DEF Inv
  <2>2. PICK lev, rng : Shape(tree, lev, rng, rng) /\ IterOK(tree, lev, rng, iter)
    BY <2>1 DEF Sound
  <2>3. tree \in TreeType /\ tree.root \in Nodes(tree) /\ tree.depth \in Nat
    BY <2>2, NodeFields DEF Shape
  <2>4. DOMAIN tree.node = Nodes(tree) /\ \A n : n \in Leaves <=> IsLeaf(tree, lev, n)
    BY <2>2, LeavesAre, LeavesAreOf
  <2>5. ASSUME NEW n \in Leaves
        PROVE  /\ tree.node[n].keys \in Seq(Keys) /\ Len(tree.node[n].keys) <= M
               /\ {tree.node[n].left, tree.node[n].right} \subseteq Leaves \union {NULL}
               /\ tree.node[n].seq \in Nat
    <3>1. IsLeaf(tree, lev, n)
      BY <2>4
    <3>2. n \in Nodes(tree) /\ lev[n] = 0
      BY <3>1 DEF IsLeaf
    <3>3. tree.node[n].keys \in Seq(Keys) /\ tree.node[n].seq \in Nat /\ LeafLinks(tree, lev, rng, n)
      BY <2>2, <3>1, LeafFacts
    <3>4. Len(tree.node[n].keys) <= M
      BY <2>2, <3>2 DEF Shape, LeafOK, LeafKeys
    <3>5. tree.node[n].right # NULL => IsLeaf(tree, lev, tree.node[n].right)
      BY <3>3 DEF LeafLinks, IsLeaf
    <3>6. tree.node[n].left # NULL => IsLeaf(tree, lev, tree.node[n].left)
      BY <3>3 DEF LeafLinks, IsLeaf
    <3> QED
      BY <2>4, <3>3, <3>4, <3>5, <3>6
  <2>6. ASSUME NEW n \in DOMAIN tree.node \ Leaves
        PROVE  /\ tree.node[n].keys \in Seq(Keys) /\ Len(tree.node[n].keys) <= NENT
               /\ Len(tree.node[n].kids) = Len(tree.node[n].keys) + 1
    <3>1. n \in Nodes(tree) /\ lev[n] # 0
      BY <2>4 DEF IsLeaf
    <3>2. lev[n] \in Nat
      BY <2>2, <3>1 DEF Shape, Ranges
    <3>3. lev[n] > 0
      BY <3>1, <3>2
    <3>4. InnerKeys(tree.node[n])
      BY <2>2, <3>1, <3>3 DEF Shape, InnerOK
    <3>5. tree.node[n].keys \in Seq(Keys)
      BY <2>3, <3>1, NodeFields
    <3> QED
      BY <3>4, <3>5 DEF InnerKeys
  <2>7. iter.node \in Leaves \union {NULL}
    BY <2>2, <2>4 DEF IterOK
  <2> QED
    BY <2>1, <2>3, <2>4, <2>5, <2>6, <2>7 DEF TypeOK
<1> QED
  BY <1>1, Invariance, PTL

\* The list of leaves and the inner nodes stay one ordered tree through every
\* split of a leaf, of an inner node and of the root.
THEOREM ListMatches == Spec => []ListMatchesTree
<1>1. Inv => ListMatchesTree
  <2> SUFFICES ASSUME Inv, NEW l \in Leaves, NEW leaf, leaf = tree.node[l]
               PROVE  /\ \A i \in 2 .. Len(leaf.keys) : leaf.keys[i - 1] < leaf.keys[i]
                      /\ \A key \in ToSet(leaf.keys) : FindLeaf(tree, key) = l
                      /\ leaf.right # NULL =>
                           /\ tree.node[leaf.right].left = l
                           /\ Last(leaf.keys) < Head(tree.node[leaf.right].keys)
    BY DEF ListMatchesTree
  <2>1. PICK lev, rng : Shape(tree, lev, rng, rng)
    BY DEF Inv, Sound
  <2>2. \A n : n \in Leaves <=> IsLeaf(tree, lev, n)
    BY <2>1, LeavesAre, LeavesAreOf
  <2>3. IsLeaf(tree, lev, l)
    BY <2>2
  <2>4. PICK s : s = leaf.keys
    OBVIOUS
  <2>5. /\ s \in Seq(Int) /\ Len(s) \in Nat /\ Ascending(s) /\ l # NULL
        /\ \A i \in 1 .. Len(s) : s[i] \in rng[l] /\ s[i] \in Int /\ s[i] \in Keys
    BY <2>1, <2>3, <2>4, LeafFacts
  <2>6. ASSUME NEW i \in 2 .. Len(s) PROVE s[i - 1] < s[i]
    <3>1. i - 1 \in 1 .. Len(s) /\ i \in 1 .. Len(s) /\ i - 1 < i
      BY <2>5
    <3> QED
      BY <2>5, <3>1 DEF Ascending
  <2>7. ASSUME NEW key \in ToSet(s) PROVE FindLeaf(tree, key) = l
    <3>1. PICK i \in 1 .. Len(s) : key = s[i]
      BY <2>5 DEF ToSet
    <3>2. key \in Keys /\ key \in rng[l]
      BY <2>5, <3>1
    <3>3. PICK m : m = FindLeaf(tree, key)
      OBVIOUS
    <3>4. m \in Nodes(tree) /\ lev[m] = 0 /\ key \in rng[m]
      BY <2>1, <3>2, <3>3, FindLeafIs
    <3>5. \A a, b \in Nodes(tree) : lev[a] = lev[b] /\ a # b => \A x \in rng[a] : ~(x \in rng[b])
      BY <2>1 DEF Shape, Ranges
    <3>6. m = l
      BY <2>3, <3>2, <3>4, <3>5 DEF IsLeaf
    <3> QED
      BY <3>3, <3>6
  <2>8. ASSUME NEW r, r = leaf.right, r # NULL
        PROVE  tree.node[r].left = l /\ Last(s) < Head(tree.node[r].keys)
    <3>1. l \in Nodes(tree) /\ lev[l] = 0 /\ r = tree.node[l].right
      BY <2>3, <2>8 DEF IsLeaf
    <3>2. /\ r \in Nodes(tree) /\ lev[r] = 0 /\ tree.node[r].left = l /\ r # l
          /\ Adjacent(rng[l], rng[r])
      BY <2>1, <2>8, <3>1, Neighbours
    <3>3. IsLeaf(tree, lev, r)
      BY <3>2, Zenon DEF IsLeaf
    <3>4. PICK v : v = tree.node[r].keys
      OBVIOUS
    <3>5. 1 \in 1 .. Len(v)
      BY <2>1, <2>3, <3>2, <3>3, <3>4, HasKeys, Zenon
    <3>6. v[1] \in rng[r]
      BY <2>1, <3>3, <3>4, <3>5, LeafFacts
    <3>7. Len(s) \in 1 .. Len(s)
      BY <2>1, <2>3, <2>4, <3>2, <3>3, HasKeys, Zenon
    <3>8. s[Len(s)] \in rng[l]
      BY <2>5, <3>7
    <3>9. s[Len(s)] < v[1]
      BY <3>2, <3>6, <3>8, Zenon DEF Adjacent
    <3>10. Last(s) = s[Len(s)] /\ Head(v) = v[1]
      <4>1. v \in Seq(Int)
        BY <2>1, <3>3, <3>4, LeafFacts
      <4>2. v # << >>
        BY <3>5, <4>1
      <4> QED
        BY <4>1, <4>2 DEF Last
    <3> QED
      BY <3>2, <3>4, <3>9, <3>10, Zenon
  <2> QED
    BY <2>4, <2>6, <2>7, <2>8
<1> QED
  BY <1>1, Invariance, PTL

\* The smallest and the largest of a set of keys.
LEMMA LeastIs ==
  ASSUME NEW S, NEW k, k \in S, S \subseteq Int, \A y \in S : k <= y
  PROVE  Least(S) = k
<1>1. Min(S) \in S /\ \A y \in S : Min(S) <= y
  BY DEF Min
<1>2. Min(S) <= k /\ k <= Min(S) /\ k \in Int /\ Min(S) \in Int
  BY <1>1
<1>3. Min(S) = k
  BY <1>2
<1> QED
  BY <1>3 DEF Least

LEMMA GreatestIs ==
  ASSUME NEW S, NEW k, k \in S, S \subseteq Int, \A y \in S : y <= k
  PROVE  Greatest(S) = k
<1>1. Max(S) \in S /\ \A y \in S : Max(S) >= y
  <2>1. \A y \in S : k >= y
    OBVIOUS
  <2> QED
    BY <2>1 DEF Max
<1>2. Max(S) >= k /\ k >= Max(S) /\ k \in Int /\ Max(S) \in Int
  BY <1>1
<1>3. Max(S) = k
  BY <1>2
<1> QED
  BY <1>3 DEF Greatest

LEMMA HeldInt ==
  ASSUME NEW t, NEW lev, NEW rng, Shape(t, lev, rng, rng), NEW x, Holds(t, lev, x)
  PROVE  x \in Int
<1>1. PICK n \in Nodes(t) : lev[n] = 0 /\ Among(t.node[n].keys, x)
  BY DEF Holds
<1>2. IsLeaf(t, lev, n)
  BY <1>1 DEF IsLeaf
<1>3. \A i \in 1 .. Len(t.node[n].keys) : t.node[n].keys[i] \in Int
  BY <1>2, LeafFacts
<1> QED
  BY <1>1, <1>3 DEF Among

\* S is the set of the keys above bound, or below it.
Above(t, lev, bound, S) == \A x : x \in S <=> Holds(t, lev, x) /\ x > bound
Under(t, lev, bound, S) == \A x : x \in S <=> Holds(t, lev, x) /\ x < bound

LEMMA CursorFirst ==
  ASSUME NEW lev, NEW rng, Shape(tree, lev, rng, rng), NEW bound, NEW it, it = iter',
         GoesFirst(lev, rng, bound, it), NEW S, Above(tree, lev, bound, S)
  PROVE  Cursor' = Least(S)
<1>1. Cursor' = IF it.node # NULL THEN it.key ELSE NoKey
  BY DEF Cursor, Valid
<1>2. S \subseteq Int
  BY HeldInt DEF Above
<1>3. CASE it.node = NULL
  <2>1. \A y \in Int : ~(Holds(tree, lev, y) /\ y > bound)
    BY <1>3 DEF GoesFirst, ToFirst
  <2>2. S = {}
    BY <1>2, <2>1 DEF Above
  <2>3. Cursor' = NoKey
    BY <1>1, <1>3
  <2> QED
    BY <2>2, <2>3 DEF Least
<1>4. CASE it.node # NULL
  <2>1. PICK k : k = it.key
    OBVIOUS
  <2>2. IsFirst(tree, lev, bound, k)
    BY <1>4, <2>1 DEF GoesFirst, ToFirst
  <2>3. k \in S /\ \A y \in S : k <= y
    BY <1>2, <2>2 DEF IsFirst, Above
  <2>4. Least(S) = k
    BY <1>2, <2>3, LeastIs
  <2> QED
    BY <1>1, <1>4, <2>1, <2>4
<1> QED
  BY <1>3, <1>4

LEMMA CursorLast ==
  ASSUME NEW lev, NEW rng, Shape(tree, lev, rng, rng), NEW bound, NEW it, it = iter',
         GoesLast(lev, rng, bound, it), NEW S, Under(tree, lev, bound, S)
  PROVE  Cursor' = Greatest(S)
<1>1. Cursor' = IF it.node # NULL THEN it.key ELSE NoKey
  BY DEF Cursor, Valid
<1>2. S \subseteq Int
  BY HeldInt DEF Under
<1>3. CASE it.node = NULL
  <2>1. \A y \in Int : ~(Holds(tree, lev, y) /\ y < bound)
    BY <1>3 DEF GoesLast, ToLast
  <2>2. S = {}
    BY <1>2, <2>1 DEF Under
  <2>3. Cursor' = NoKey
    BY <1>1, <1>3
  <2> QED
    BY <2>2, <2>3 DEF Greatest
<1>4. CASE it.node # NULL
  <2>1. PICK k : k = it.key
    OBVIOUS
  <2>2. IsLast(tree, lev, bound, k)
    BY <1>4, <2>1 DEF GoesLast, ToLast
  <2>3. k \in S /\ \A y \in S : y <= k
    BY <1>2, <2>2 DEF IsLast, Under
  <2>4. Greatest(S) = k
    BY <1>2, <2>3, GreatestIs
  <2> QED
    BY <1>1, <1>4, <2>1, <2>4
<1> QED
  BY <1>3, <1>4

LEMMA ContentsInsert ==
  ASSUME Sound(tree, iter), NEW key \in Keys, tree' = Insert_rtm(tree, key)
  PROVE  Contents' = Contents \union {key}
<1>1. PICK t, t2 : t = tree /\ t2 = tree'
  OBVIOUS
<1>2. PICK lev, rng : Shape(t, lev, rng, rng)
  BY <1>1 DEF Sound
<1>3. t2 = Insert_rtm(t, key)
  BY <1>1
<1>4. PICK lev2, rng2 : Shape(t2, lev2, rng2, rng2) /\ Gains(t, lev, rng, key, t2, lev2, rng2)
  BY <1>2, <1>3, InsertIs
<1>5. \A x : x \in ContentsOf(t) <=> Holds(t, lev, x)
  BY <1>2, ContentsAre
<1>6. \A x : x \in ContentsOf(t2) <=> Holds(t2, lev2, x)
  BY <1>4, ContentsAre
<1>7. \A x : Holds(t2, lev2, x) <=> Holds(t, lev, x) \/ x = key
  BY <1>4 DEF Gains
<1>8. ContentsOf(t2) = ContentsOf(t) \union {key}
  BY <1>5, <1>6, <1>7
<1>9. Contents = ContentsOf(t) /\ Contents' = ContentsOf(t2)
  <2>1. Contents = ContentsOf(tree)
    BY DEF Contents, ContentsOf, Leaves, LeavesOf
  <2>2. Contents' = ContentsOf(tree')
    BY DEF Contents, ContentsOf, Leaves, LeavesOf
  <2> QED
    BY <1>1, <2>1, <2>2
<1> QED
  BY <1>8, <1>9

\* Seen from outside the table is an ordered set with a cursor: inserts add
\* their key and lose none, Seek, Next and Prev go to the right key, whatever
\* was inserted, shifted and split since the iterator last looked.
THEOREM OrderedSet == Spec => ActsAsOrderedSet
<1> DEFINE Step ==
      /\ IterNext => Cursor' = Least({x \in Contents : x > iter.key})
      /\ IterPrev => Cursor' = Greatest({x \in Contents : x < iter.key})
      /\ Put => Contents' = Contents \union {Head(load)}
      /\ \A key \in Asked :
           /\ Seek(key) => Cursor' = Least({x \in Contents : x >= key})
           /\ GetWithInsert(key) => Contents' = Contents \union {key}
<1>1. Inv => Step
  <2> SUFFICES ASSUME Inv PROVE Step
    OBVIOUS
  <2>1. load \in Seq(Keys) /\ iter \in IterType /\ Sound(tree, iter)
    BY DEF Inv
  <2>2. PICK lev, rng : Shape(tree, lev, rng, rng) /\ IterOK(tree, lev, rng, iter)
    BY <2>1 DEF Sound
  <2>3. \A x : x \in Contents <=> Holds(tree, lev, x)
    <3>1. Contents = ContentsOf(tree)
      BY DEF Contents, ContentsOf, Leaves, LeavesOf
    <3> QED
      BY <2>2, <3>1, ContentsAre
  <2>4. PICK it : it = iter'
    OBVIOUS
  <2>5. ASSUME IterNext PROVE Cursor' = Least({x \in Contents : x > iter.key})
    <3>1. PICK b : b = iter.key
      OBVIOUS
    <3>2. PICK S : S = {x \in Contents : x > b}
      OBVIOUS
    <3>3. Above(tree, lev, b, S)
      BY <2>3, <3>2 DEF Above
    <3>4. GoesFirst(lev, rng, b, it)
      BY <2>1, <2>2, <2>4, <2>5, <3>1, IterNextIs
    <3>5. Cursor' = Least(S)
      BY <2>2, <2>4, <3>3, <3>4, CursorFirst
    <3> QED
      BY <3>1, <3>2, <3>5
  <2>6. ASSUME IterPrev PROVE Cursor' = Greatest({x \in Contents : x < iter.key})
    <3>1. PICK b : b = iter.key
      OBVIOUS
    <3>2. PICK S : S = {x \in Contents : x < b}
      OBVIOUS
    <3>3. Under(tree, lev, b, S)
      BY <2>3, <3>2 DEF Under
    <3>4. GoesLast(lev, rng, b, it)
      BY <2>1, <2>2, <2>4, <2>6, <3>1, IterPrevIs
    <3>5. Cursor' = Greatest(S)
      BY <2>2, <2>4, <3>3, <3>4, CursorLast
    <3> QED
      BY <3>1, <3>2, <3>5
  <2>7. ASSUME Put PROVE Contents' = Contents \union {Head(load)}
    <3>1. load # << >> /\ tree' = Insert_rtm(tree, Head(load))
      BY <2>7 DEF Put
    <3>2. PICK key \in Keys : key = Head(load)
      BY <2>1, <3>1
    <3>3. tree' = Insert_rtm(tree, key)
      BY <3>1, <3>2
    <3> QED
      BY <2>1, <3>2, <3>3, ContentsInsert
  <2>8. ASSUME NEW key \in Asked, Seek(key)
        PROVE  Cursor' = Least({x \in Contents : x >= key})
    <3>1. PICK b : b = key - 1
      OBVIOUS
    <3>2. PICK S : S = {x \in Contents : x >= key}
      OBVIOUS
    <3>3. key \in Keys /\ key \in Int
      BY ConstantFacts
    <3>4. \A x \in Int : x >= key <=> x > b
      BY <3>1, <3>3
    <3>5. \A x : Holds(tree, lev, x) => x \in Int
      BY <2>2, HeldInt
    <3>6. Above(tree, lev, b, S)
      BY <2>3, <3>2, <3>4, <3>5 DEF Above
    <3>7. GoesFirst(lev, rng, b, it)
      BY <2>1, <2>2, <2>4, <2>8, <3>1, <3>3, SeekIs
    <3>8. Cursor' = Least(S)
      BY <2>2, <2>4, <3>6, <3>7, CursorFirst
    <3> QED
      BY <3>2, <3>8
  <2>9. ASSUME NEW key \in Asked, GetWithInsert(key)
        PROVE  Contents' = Contents \union {key}
    <3>1. key \in Keys
      BY ConstantFacts
    <3>2. tree' = Insert_rtm(tree, key)
      BY <2>9 DEF GetWithInsert
    <3> QED
      BY <2>1, <3>1, <3>2, ContentsInsert
  <2> QED
    BY <2>5, <2>6, <2>7, <2>8, <2>9
<1> QED
  BY <1>1, Invariance, PTL DEF ActsAsOrderedSet
=============================================================================
