----------------------------- MODULE OCCSerial -----------------------------
(***************************************************************************)
(* The transactions that OCC commits are serializable, for every set of    *)
(* coroutines and records and every build OCCProofs is about, in the       *)
(* order in which they got the last lock of their write sets.  A           *)
(* transaction enters the history later than that, when its reads are      *)
(* validated, and others can overtake it in between: the invariant carries *)
(* a number for each transaction of the history and one for each that is   *)
(* validating.                                                             *)
(***************************************************************************)
EXTENDS OCCProofs, WellFoundedInduction

\* The transaction has yet to install its new version of the record.
Owes(c, k) ==
  /\ k \in wset[c]
  /\ pc[c] \in {"log", "ack"} \/ (pc[c] = "commit" /\ k \in pend[c])

\* What the transaction has read is not from the future.
PastOf(c, k) == item[c][k].data[1] <= data[k][1]

\* What a committed transaction read is not from the future, and its writes
\* are in the store or locked by it.
EntryOf(t, k) ==
  k \in DOMAIN t.r =>
    /\ t.r[k] \in Nat /\ t.r[k] <= data[k][1]
    /\ k \in t.w => \/ t.r[k] < data[k][1]
                    \/ \E c \in Cors : Owes(c, k) /\ item[c][k].data[1] = t.r[k]

History ==
  /\ \A c \in Cors, k \in Keys : PastOf(c, k)
  /\ \A t \in done : DOMAIN t.r \subseteq Keys
  /\ \A t \in done, k \in Keys : EntryOf(t, k)

\* The reads of c that have been validated, and that are versions: a copy that
\* is not one makes the transaction leave the theorem when it commits.
Validated(c) ==
  IF pc[c] = "validate" /\ okay[c] THEN { k \in rset[c] \ pend[c] : Whole(item[c][k]) } ELSE {}

\* Where a validating transaction has its place: after what it saw and what
\* it overwrites, before what overwrites the reads it has validated.
After(f, s, c, t, k) ==
  k \in DOMAIN t.r /\ k \in rset[c] \cup wset[c] =>
    /\ k \in t.w /\ t.r[k] < item[c][k].data[1] => f[t] < s[c]
    /\ k \in wset[c] => f[t] < s[c]
    /\ k \in Validated(c) /\ k \in t.w /\ item[c][k].data[1] <= t.r[k] => s[c] < f[t]

Order(f, s, n) ==
  /\ f \in [done -> Nat] /\ s \in [Cors -> Nat] /\ n \in Nat
  /\ \A t \in done : f[t] < n
  /\ \A c \in Cors : s[c] < n
  /\ \A t, u \in done : u # t /\ Before(u, t) => f[u] < f[t]
  /\ \A c \in Cors, t \in done, k \in Keys : pc[c] = "validate" => After(f, s, c, t, k)
  /\ \A c, d \in Cors, k \in Keys :
       c # d /\ k \in Validated(d) /\ pc[c] = "validate" /\ k \in wset[c] => s[d] < s[c]

Ordered == split \/ \E f \in [done -> Nat], s \in [Cors -> Nat], n \in Nat : Order(f, s, n)
-----------------------------------------------------------------------------
(* The order gives a first transaction of every set                        *)
-----------------------------------------------------------------------------
LEMMA LeastNumber ==
  ASSUME NEW T, T \subseteq Nat, T # {}
  PROVE  \E x \in T : \A y \in T : x <= y
<1> DEFINE R == OpToRel(<, Nat)
<1>1. IsWellFoundedOn(R, Nat)
  BY NatLessThanWellFounded
<1>2. \A x, y \in Nat : << y, x >> \in R <=> y < x
  BY DEF OpToRel
<1> HIDE DEF R
<1>3. PICK x \in T : \A y \in T : ~(<< y, x >> \in R)
  BY <1>1, WFMin
<1>4. ASSUME NEW y \in T PROVE x <= y
  <2>1. ~(y < x)
    BY <1>2, <1>3
  <2> QED
    BY <2>1
<1> QED
  BY <1>4

LEMMA OrderedSerializable == Ordered => Serializable
<1> SUFFICES ASSUME Ordered, ~split, NEW S \in SUBSET done, S # {}
             PROVE  \E t \in S : \A u \in S \ {t} : ~Before(u, t)
  BY DEF Serializable
<1>1. PICK f \in [done -> Nat], s \in [Cors -> Nat], n \in Nat : Order(f, s, n)
  BY DEF Ordered
<1> DEFINE T == { f[t] : t \in S }
<1>2. T \subseteq Nat /\ T # {}
  OBVIOUS
<1>3. PICK x \in T : \A y \in T : x <= y
  <2> HIDE DEF T
  <2> QED
    BY <1>2, LeastNumber
<1>4. PICK t \in S : f[t] = x
  BY <1>3
<1>5. ASSUME NEW u \in S, u # t PROVE ~Before(u, t)
  <2>1. f[t] <= f[u] /\ f[t] \in Nat /\ f[u] \in Nat
    BY <1>3, <1>4
  <2>2. Before(u, t) => f[u] < f[t]
    BY <1>1, <1>5 DEF Order
  <2> QED
    BY <2>1, <2>2
<1> QED
  BY <1>4, <1>5
-----------------------------------------------------------------------------
(* Steps that neither commit nor validate                                  *)
-----------------------------------------------------------------------------
\* Versions only grow, copies are made of the present ones, nobody forgets a
\* write it owes, and no transaction begins or gets on with its validation.
Calm ==
  /\ done' = done /\ (split => split')
  /\ \A k \in Keys : data[k][1] <= data'[k][1]
  /\ \A c \in Cors, k \in Keys :
       /\ \/ item'[c][k].data[1] = item[c][k].data[1]
          \/ item'[c][k].data[1] <= data'[k][1]
       /\ Owes(c, k) => \/ item[c][k].data[1] < data'[k][1]
                        \/ Owes(c, k)' /\ item'[c][k].data[1] = item[c][k].data[1]
  /\ \A c \in Cors :
       /\ pc'[c] = "validate" =>
            /\ pc[c] = "validate"
            /\ rset'[c] = rset[c] /\ wset'[c] = wset[c] /\ item'[c] = item[c]
       /\ Validated(c)' \subseteq Validated(c)

LEMMA Versions ==
  ASSUME Types
  PROVE  /\ \A k \in Keys : data[k] \in Nat \X Nat /\ data[k][1] \in Nat
         /\ \A c \in Cors, k \in Keys : item[c][k].data \in Nat \X Nat /\ item[c][k].data[1] \in Nat
BY DEF Types, Copies

LEMMA CalmHistory ==
  ASSUME Types, Types', History, Calm
  PROVE  History'
<1>1. /\ \A k \in Keys : data[k][1] \in Nat /\ data'[k][1] \in Nat
      /\ \A c \in Cors, k \in Keys : item[c][k].data[1] \in Nat /\ item'[c][k].data[1] \in Nat
  <2>1. (\A k \in Keys : data[k][1] \in Nat) /\ \A c \in Cors, k \in Keys : item[c][k].data[1] \in Nat
    BY Versions
  <2>2. \A k \in Keys : data'[k][1] \in Nat
    BY DEF Types
  <2>3. \A c \in Cors, k \in Keys : item'[c][k].data \in Nat \X Nat
    <3>1. \A c \in Cors, k \in Keys : item'[c][k] \in Copies
      BY DEF Types
    <3> QED
      BY <3>1 DEF Copies
  <2> QED
    BY <2>1, <2>2, <2>3
<1>2. ASSUME NEW c \in Cors, NEW k \in Keys PROVE PastOf(c, k)'
  <2>1. PastOf(c, k)
    BY DEF History
  <2> QED
    BY <1>1, <2>1 DEF Calm, PastOf
<1>3. ASSUME NEW t \in done, NEW k \in Keys PROVE EntryOf(t, k)'
  <2>1. EntryOf(t, k) /\ data[k][1] <= data'[k][1]
    BY DEF History, Calm
  <2>2. ASSUME NEW c \in Cors, Owes(c, k), item[c][k].data[1] = t.r[k], t.r[k] \in Nat
        PROVE  t.r[k] < data'[k][1] \/ (Owes(c, k)' /\ item'[c][k].data[1] = t.r[k])
    BY <2>2, Zenon DEF Calm
  <2>3. k \in DOMAIN t.r => t.r[k] \in Nat /\ t.r[k] <= data'[k][1]
    BY <1>1, <2>1 DEF EntryOf
  <2>4. k \in DOMAIN t.r /\ k \in t.w =>
          t.r[k] < data'[k][1] \/ \E c \in Cors : Owes(c, k)' /\ item'[c][k].data[1] = t.r[k]
    <3>1. CASE t.r[k] < data[k][1]
      BY <1>1, <2>1, <2>3, <3>1
    <3>2. CASE ~(t.r[k] < data[k][1])
      BY <2>1, <2>2, <3>2 DEF EntryOf
    <3> QED
      BY <3>1, <3>2
  <2> QED
    BY <2>3, <2>4 DEF EntryOf
<1> QED
  BY <1>2, <1>3 DEF History, Calm

LEMMA CalmOrder ==
  ASSUME Ordered, Calm
  PROVE  Ordered'
<1> SUFFICES ASSUME ~split' PROVE Ordered'
  BY DEF Ordered
<1>0. done' = done /\ ~split
  BY DEF Calm
<1>1. PICK f \in [done -> Nat], s \in [Cors -> Nat], n \in Nat : Order(f, s, n)
  BY <1>0 DEF Ordered
<1>2. ASSUME NEW c \in Cors, NEW t \in done, NEW k \in Keys, pc'[c] = "validate"
      PROVE  After(f, s, c, t, k)'
  <2>1. /\ pc[c] = "validate" /\ rset'[c] = rset[c] /\ wset'[c] = wset[c] /\ item'[c] = item[c]
        /\ Validated(c)' \subseteq Validated(c)
    BY <1>2 DEF Calm
  <2>2. After(f, s, c, t, k)
    BY <1>1, <2>1 DEF Order
  <2> QED
    BY <2>1, <2>2 DEF After
<1>3. ASSUME NEW c \in Cors, NEW d \in Cors, NEW k \in Keys, c # d, k \in Validated(d)',
             pc'[c] = "validate", k \in wset'[c]
      PROVE  s[d] < s[c]
  <2>1. pc[c] = "validate" /\ k \in wset[c] /\ k \in Validated(d)
    BY <1>3 DEF Calm
  <2> QED
    BY <1>1, <1>3, <2>1 DEF Order
<1>4. Order(f, s, n)'
  BY <1>0, <1>1, <1>2, <1>3 DEF Order, Before
<1> QED
  BY <1>0, <1>4 DEF Ordered

LEMMA CalmKeeps ==
  ASSUME Types, Types', History, Ordered, Calm
  PROVE  History' /\ Ordered'
BY CalmHistory, CalmOrder

\* A step of one coroutine that leaves the records alone.
LEMMA OwnCalm ==
  ASSUME Types, Types', NEW c \in Cors, OthersSame(c), done' = done, split => split', data' = data,
         \A k \in Keys :
           /\ \/ item'[c][k].data[1] = item[c][k].data[1]
              \/ item'[c][k].data[1] <= data[k][1]
           /\ Owes(c, k) => /\ Owes(c, k)' \/ item[c][k].data[1] < data[k][1]
                            /\ item'[c][k].data[1] = item[c][k].data[1],
         pc'[c] = "validate" =>
           /\ pc[c] = "validate"
           /\ rset'[c] = rset[c] /\ wset'[c] = wset[c] /\ item'[c] = item[c],
         Validated(c)' \subseteq Validated(c)
  PROVE  Calm
<1>1. \A k \in Keys : data[k][1] <= data'[k][1]
  BY Versions
<1>2. ASSUME NEW d \in Cors, d # c
      PROVE  /\ \A k \in Keys : Owes(d, k)' <=> Owes(d, k)
             /\ Validated(d)' = Validated(d)
             /\ pc'[d] = pc[d] /\ rset'[d] = rset[d] /\ wset'[d] = wset[d] /\ item'[d] = item[d]
  BY <1>2 DEF OthersSame, Owes, Validated
<1>3. ASSUME NEW d \in Cors, NEW k \in Keys
      PROVE  /\ \/ item'[d][k].data[1] = item[d][k].data[1]
                \/ item'[d][k].data[1] <= data'[k][1]
             /\ Owes(d, k) => \/ item[d][k].data[1] < data'[k][1]
                              \/ Owes(d, k)' /\ item'[d][k].data[1] = item[d][k].data[1]
  BY <1>2
<1>4. ASSUME NEW d \in Cors
      PROVE  /\ pc'[d] = "validate" =>
                  /\ pc[d] = "validate"
                  /\ rset'[d] = rset[d] /\ wset'[d] = wset[d] /\ item'[d] = item[d]
             /\ Validated(d)' \subseteq Validated(d)
  BY <1>2
<1> QED
  BY <1>1, <1>3, <1>4, Zenon DEF Calm
-----------------------------------------------------------------------------
(* Every step is a step of one coroutine                                   *)
-----------------------------------------------------------------------------
\* What a batch that moves on changes.
Batch(c) ==
  \A d \in Cors : d # c => pend'[d] = pend[d] /\ at'[d] = at[d] /\ okay'[d] = okay[d]

LEMMA BatchMoves ==
  ASSUME Types, NEW c \in Cors, NEW k \in Keys
  PROVE  /\ Step(c, k) /\ UNCHANGED okay => Batch(c)
         /\ Served(c, k) /\ UNCHANGED okay => Batch(c)
         /\ Failed(c, k) => Batch(c)
BY DEF Types, Step, Served, Failed, Batch

LEMMA OthersRead ==
  ASSUME Types, NEW c \in Cors, NEW k \in Keys,
         \/ ReadRecord(c, k) \/ ReadPart(c, k) \/ ReadDone(c, k)
         \/ GetSeq(c, k) \/ GetHalf(c, k) \/ GetRecheck(c, k)
  PROVE  OthersSame(c)
<1> USE DEF Types, OthersSame, Batch, sets, replica
<1>1. ASSUME ReadRecord(c, k) PROVE OthersSame(c)
  BY <1>1, BatchMoves DEF ReadRecord, SetBufferedLock
<1>2. ASSUME GetSeq(c, k) PROVE OthersSame(c)
  BY <1>2, BatchMoves DEF GetSeq
<1>3. ASSUME GetHalf(c, k) PROVE OthersSame(c)
  BY <1>3, BatchMoves DEF GetHalf
<1>4. ASSUME GetRecheck(c, k) PROVE OthersSame(c)
  BY <1>4, BatchMoves DEF GetRecheck, SetBufferedLock
<1>5. ASSUME ReadPart(c, k) PROVE OthersSame(c)
  BY <1>5 DEF ReadPart, SetBufferedLock
<1>6. ASSUME ReadDone(c, k) PROVE OthersSame(c)
  BY <1>6, BatchMoves DEF ReadDone, buffers
<1> QED
  BY <1>1, <1>2, <1>3, <1>4, <1>5, <1>6

LEMMA OthersLock ==
  ASSUME Types, NEW c \in Cors, NEW k \in Keys,
         \/ LockItem(c, k) \/ LockLost(c, k) \/ CheckLocked(c, k) \/ ReleaseItem(c, k)
         \/ ValidateRecord(c, k) \/ ValidateSeq(c, k) \/ ValidateLock(c, k)
  PROVE  OthersSame(c)
<1> USE DEF Types, OthersSame, Batch, sets, buffers, replica
<1>1. ASSUME LockItem(c, k) PROVE OthersSame(c)
  BY <1>1, BatchMoves DEF LockItem, MarkLocked
<1>2. ASSUME LockLost(c, k) PROVE OthersSame(c)
  BY <1>2, BatchMoves DEF LockLost, MarkLocked
<1>3. ASSUME CheckLocked(c, k) PROVE OthersSame(c)
  BY <1>3, BatchMoves DEF CheckLocked
<1>4. ASSUME ValidateRecord(c, k) PROVE OthersSame(c)
  BY <1>4, BatchMoves DEF ValidateRecord
<1>5. ASSUME ValidateSeq(c, k) PROVE OthersSame(c)
  BY <1>5, BatchMoves DEF ValidateSeq
<1>6. ASSUME ValidateLock(c, k) PROVE OthersSame(c)
  BY <1>6, BatchMoves DEF ValidateLock
<1>7. ASSUME ReleaseItem(c, k) PROVE OthersSame(c)
  BY <1>7, BatchMoves DEF ReleaseItem
<1> QED
  BY <1>1, <1>2, <1>3, <1>4, <1>5, <1>6, <1>7

LEMMA OthersWrite ==
  ASSUME Types, NEW c \in Cors, NEW k \in Keys,
         \/ WriteRecord(c, k) \/ WriteUnlock(c, k)
         \/ FlagSeq(c, k) \/ WriteHalf(c, k) \/ BumpSeq(c, k) \/ ZeroLock(c, k)
  PROVE  OthersSame(c)
<1> USE DEF Types, OthersSame, Batch, sets, buffers, replica
<1>1. ASSUME WriteRecord(c, k) \/ WriteUnlock(c, k) PROVE OthersSame(c)
  BY <1>1, BatchMoves DEF WriteRecord, WriteUnlock
<1>2. ASSUME FlagSeq(c, k) PROVE OthersSame(c)
  BY <1>2, BatchMoves DEF FlagSeq
<1>3. ASSUME WriteHalf(c, k) PROVE OthersSame(c)
  BY <1>3, BatchMoves DEF WriteHalf
<1>4. ASSUME BumpSeq(c, k) \/ ZeroLock(c, k) PROVE OthersSame(c)
  BY <1>4, BatchMoves DEF BumpSeq, ZeroLock
<1> QED
  BY <1>1, <1>2, <1>3, <1>4

LEMMA OthersStage ==
  ASSUME Types, NEW c \in Cors,
         \/ Begin(c) \/ Commit(c) \/ LockDone(c) \/ ValidateDone(c) \/ LogAck(c) \/ LogDone(c)
         \/ Abort(c) \/ Over(c) \/ \E m \in Macs : Log(c, m) \/ CleanLog(c, m)
  PROVE  OthersSame(c)
<1> USE DEF Types, OthersSame, Stage, sets, buffers, replica
<1>1. ASSUME Begin(c) PROVE OthersSame(c)
  BY <1>1 DEF Begin
<1>2. ASSUME Commit(c) PROVE OthersSame(c)
  BY <1>2 DEF Commit
<1>3. ASSUME LockDone(c) PROVE OthersSame(c)
  BY <1>3 DEF LockDone
<1>4. ASSUME ValidateDone(c) PROVE OthersSame(c)
  BY <1>4 DEF ValidateDone, Broadcast
<1>5. ASSUME LogAck(c) PROVE OthersSame(c)
  BY <1>5 DEF LogAck, Broadcast
<1>6. ASSUME LogDone(c) PROVE OthersSame(c)
  BY <1>6 DEF LogDone
<1>7. ASSUME Abort(c) PROVE OthersSame(c)
  BY <1>7 DEF Abort
<1>8. ASSUME Over(c) PROVE OthersSame(c)
  BY <1>8 DEF Over
<1>9. ASSUME NEW m \in Macs, Log(c, m) \/ CleanLog(c, m) PROVE OthersSame(c)
  BY <1>9 DEF Log, CleanLog, LogEntry, clean_log, Answer
<1> QED
  BY <1>1, <1>2, <1>3, <1>4, <1>5, <1>6, <1>7, <1>8, <1>9
-----------------------------------------------------------------------------
(* The calm steps                                                          *)
-----------------------------------------------------------------------------
\* A step outside the validation stage, while the transaction owes nothing.
LEMMA EarlyCalm ==
  ASSUME Inv, Inv', NEW c \in Cors, OthersSame(c), UNCHANGED << done, split, data >>,
         pc[c] \in {"idle", "read", "lock", "release"} \/ (pc[c] = "commit" /\ pend[c] = {}) \/ ~okay'[c],
         pc'[c] # "validate",
         \A k \in Keys : ~Owes(c, k),
         \A k \in Keys : \/ item'[c][k].data[1] = item[c][k].data[1]
                         \/ item'[c][k].data[1] <= data[k][1]
  PROVE  Calm
<1>1. Validated(c)' = {}
  BY DEF Validated
<1> QED
  BY <1>1, OwnCalm DEF Inv

LEMMA ReadCalm ==
  ASSUME Inv, Inv', NEW c \in Cors, NEW k \in Keys,
         \/ ReadRecord(c, k) \/ ReadPart(c, k) \/ ReadDone(c, k)
         \/ GetSeq(c, k) \/ GetHalf(c, k) \/ GetRecheck(c, k)
  PROVE  Calm
<1>1. pc[c] = "read" /\ pc' = pc /\ UNCHANGED << done, split, data >>
  BY DEF ReadRecord, ReadPart, ReadDone, GetSeq, GetHalf, GetRecheck, Serving, record, ghost
<1>2. item \in [Cors -> [Keys -> Copies]] /\ \A j \in Keys : item[c][j] \in Copies
  BY DEF Inv, Types
<1>3. \A j \in Keys : data[j] \in Nat \X Nat /\ data[j][1] \in Nat
  BY Versions DEF Inv
<1>4. ASSUME NEW j \in Keys
      PROVE  \/ item'[c][j].data[1] = item[c][j].data[1]
             \/ item'[c][j].data[1] <= data[j][1]
  <2>1. CASE ReadRecord(c, k)
    BY <1>2, <1>3, <2>1 DEF ReadRecord
  <2>2. CASE GetSeq(c, k)
    BY <1>2, <2>2 DEF GetSeq, Copies
  <2>3. ASSUME \E n \in 1 .. 2 : item' = [item EXCEPT ![c][k].data[n] = data[k][n]]
        PROVE  \/ item'[c][j].data[1] = item[c][j].data[1]
               \/ item'[c][j].data[1] <= data[j][1]
    <3>1. PICK n \in 1 .. 2 : item' = [item EXCEPT ![c][k].data[n] = data[k][n]]
      BY <2>3
    <3>2. CASE j # k
      BY <1>2, <3>1, <3>2
    <3>3. CASE j = k
      <4>1. item[c][k].data \in Nat \X Nat /\ data[k][n] \in Nat
        BY <1>2, <1>3 DEF Copies
      <4>2. item'[c][k].data = [item[c][k].data EXCEPT ![n] = data[k][n]]
        BY <1>2, <3>1 DEF Copies
      <4>3. item'[c][k].data[1] = IF n = 1 THEN data[k][n] ELSE item[c][k].data[1]
        BY <4>1, <4>2, HalfSet
      <4> QED
        BY <1>3, <3>3, <4>3
    <3> QED
      BY <3>2, <3>3
  <2>4. CASE GetRecheck(c, k) \/ ReadDone(c, k)
    BY <2>4 DEF GetRecheck, ReadDone, buffers
  <2>5. CASE GetHalf(c, k)
    BY <2>3, <2>5 DEF GetHalf
  <2>6. CASE ReadPart(c, k)
    <3>1. CASE item' = [item EXCEPT ![c][k].seq = seq[k]]
      BY <1>2, <3>1 DEF Copies
    <3> QED
      BY <2>3, <2>6, <3>1 DEF ReadPart
  <2> QED
    BY <2>1, <2>2, <2>4, <2>5, <2>6
<1>5. OthersSame(c) /\ \A j \in Keys : ~Owes(c, j)
  BY <1>1, OthersRead DEF Inv, Owes
<1> QED
  BY <1>1, <1>4, <1>5, EarlyCalm

LEMMA LockCalm ==
  ASSUME Inv, Inv', NEW c \in Cors, NEW k \in Keys,
         \/ LockItem(c, k) \/ LockLost(c, k) \/ CheckLocked(c, k) \/ ReleaseItem(c, k)
  PROVE  Calm
<1>1. pc[c] \in {"lock", "release"} /\ UNCHANGED << pc, done, split, data, item >>
  BY DEF LockItem, LockLost, CheckLocked, ReleaseItem, Serving, record, buffers, ghost
<1>2. OthersSame(c) /\ \A j \in Keys : ~Owes(c, j)
  BY <1>1, OthersLock DEF Inv, Owes
<1> QED
  BY <1>1, <1>2, EarlyCalm

LEMMA StageCalm ==
  ASSUME Inv, Inv', NEW c \in Cors, Begin(c) \/ Commit(c) \/ Abort(c)
  PROVE  Calm
<1>1. /\ pc[c] \in {"idle", "read", "lock", "validate"} /\ (pc[c] = "validate" => ~okay'[c])
      /\ UNCHANGED << done, split, data, item >>
  BY DEF Begin, Commit, Abort, record, buffers, ghost
<1>2. OthersSame(c) /\ \A j \in Keys : ~Owes(c, j)
  BY <1>1, OthersStage DEF Inv, Owes
<1>3. pc'[c] # "validate"
  BY DEF Begin, Commit, Abort, Stage, Inv, Types
<1> QED
  BY <1>1, <1>2, <1>3, EarlyCalm

LEMMA OverCalm ==
  ASSUME Inv, Inv', NEW c \in Cors, pc[c] \in {"commit", "release"}, pend[c] = {}, Over(c)
  PROVE  Calm
<1>1. UNCHANGED << done, split, data >>
  BY DEF Over, record, ghost
<1>2. OthersSame(c) /\ \A j \in Keys : ~Owes(c, j)
  BY OthersStage DEF Inv, Owes
<1>3. pc'[c] = "idle" /\ \A j \in Keys : item'[c][j].data[1] = 0
  BY DEF Over, Stage, Blank, Inv, Types
<1>4. \A j \in Keys : item'[c][j].data[1] <= data[j][1]
  BY <1>3, Versions DEF Inv
<1> QED
  BY <1>1, <1>2, <1>3, <1>4, EarlyCalm

LEMMA LogCalm ==
  ASSUME Inv, Inv', NEW c \in Cors,
         LogAck(c) \/ LogDone(c) \/ \E m \in Macs : Log(c, m) \/ CleanLog(c, m)
  PROVE  Calm
<1>1. pc[c] \in {"log", "ack"} /\ UNCHANGED << wset, done, split, data, item >>
  BY DEF LogAck, LogDone, Log, CleanLog, record, sets, buffers, ghost
<1>2. OthersSame(c)
  BY OthersStage DEF Inv
<1>3. pc'[c] \in {"log", "ack"} \/ (pc'[c] = "commit" /\ pend'[c] = wset[c])
  BY DEF LogAck, LogDone, Log, CleanLog, Stage, Inv, Types
<1>4. \A k \in Keys : Owes(c, k) => Owes(c, k)'
  BY <1>1, <1>3 DEF Owes
<1>5. pc'[c] # "validate" /\ Validated(c)' = {}
  BY <1>3 DEF Validated
<1> QED
  BY <1>1, <1>2, <1>4, <1>5, OwnCalm DEF Inv

\* A validation step that fails, or that has not seen the lock word yet.
LEMMA ValidateCalm ==
  ASSUME Inv, Inv', NEW c \in Cors, OthersSame(c), pc[c] = "validate", done' = done, split => split',
         UNCHANGED << data, pc, rset, wset, item >>, ~okay'[c] \/ (okay' = okay /\ pend' = pend)
  PROVE  Calm
<1>1. Validated(c)' \subseteq Validated(c)
  BY DEF Validated
<1>2. \A k \in Keys : ~Owes(c, k)
  BY DEF Owes
<1> QED
  BY <1>1, <1>2, OwnCalm DEF Inv
-----------------------------------------------------------------------------
(* Write back                                                              *)
-----------------------------------------------------------------------------
LEMMA UnlockCalm ==
  ASSUME Inv, Inv', NEW c \in Cors, NEW k \in Keys, WriteUnlock(c, k) \/ ZeroLock(c, k)
  PROVE  Calm
<1>1. /\ pc[c] = "commit" /\ k \in pend[c] /\ at[c][k] > 0
      /\ Served(c, k) /\ UNCHANGED << data, pc, rset, wset, item, done, split >>
  BY DEF WriteUnlock, ZeroLock, Serving, sets, buffers, ghost
<1>2. OthersSame(c) /\ pend'[c] = pend[c] \ {k}
  BY <1>1, OthersWrite, ServedMoves DEF Inv
<1>3. data[k][1] = item[c][k].data[1] + 1
  <2>1. CASE WriteUnlock(c, k)
    <3>1. k \in wset[c]
      BY <1>1 DEF Inv, BatchOK, BatchOf
    <3>2. data[k] = << item[c][k].data[1] + 1, item[c][k].data[2] + 1 >>
      BY <2>1, <3>1, NewContents DEF WriteUnlock, Inv
    <3> QED
      BY <3>2
  <2>2. CASE ZeroLock(c, k)
    BY <1>1, <2>2 DEF ZeroLock, Serving, OneSided, Inv, RecordOK, WrittenOf, Writing
  <2> QED
    BY <2>1, <2>2
<1>4. item[c][k].data[1] < data[k][1]
  BY <1>3, Versions DEF Inv
<1>5. \A j \in Keys : Owes(c, j) => Owes(c, j)' \/ item[c][j].data[1] < data[j][1]
  BY <1>1, <1>2, <1>4 DEF Owes
<1>6. pc'[c] # "validate" /\ Validated(c)' = {}
  BY <1>1 DEF Validated
<1> QED
  BY <1>1, <1>2, <1>5, <1>6, OwnCalm DEF Inv

\* The record goes from its version to the next, half by half.
LEMMA WriteCalm ==
  ASSUME Inv, Inv', ~torn, NEW c \in Cors, NEW k \in Keys,
         WriteRecord(c, k) \/ FlagSeq(c, k) \/ WriteHalf(c, k) \/ BumpSeq(c, k)
  PROVE  Calm
<1>1. pc[c] = "commit" /\ k \in pend[c] /\ UNCHANGED << pc, rset, wset, done, split >>
  BY DEF WriteRecord, FlagSeq, WriteHalf, BumpSeq, Serving, sets, ghost
<1>2. OthersSame(c) /\ pend' = pend
  BY OthersWrite DEF Inv, WriteRecord, FlagSeq, WriteHalf, BumpSeq, Step
<1>3. \A j \in Keys : item'[c][j].data = item[c][j].data
  <2>1. item \in [Cors -> [Keys -> Copies]]
    BY DEF Inv, Types
  <2>2. CASE FlagSeq(c, k)
    BY <2>1, <2>2 DEF FlagSeq, Copies
  <2>3. CASE ~FlagSeq(c, k)
    BY <2>3 DEF WriteRecord, WriteHalf, BumpSeq, buffers
  <2> QED
    BY <2>2, <2>3
<1>4. \A j \in Keys : j # k => data'[j] = data[j]
  BY DEF WriteRecord, FlagSeq, WriteHalf, BumpSeq, Inv, Types
<1>5. data[k][1] <= data'[k][1]
  <2>1. k \in wset[c] /\ item[c][k].data[1] \in Nat /\ data[k] \in Nat \X Nat
    BY <1>1, Versions DEF Inv, BatchOK, BatchOf
  <2>2. NewData(c)[k] = << item[c][k].data[1] + 1, item[c][k].data[2] + 1 >>
    BY <2>1, NewContents DEF Inv
  <2>3. CASE WriteRecord(c, k)
    <3>0. at[c][k] \in 0 .. 4
      BY DEF Inv, Types
    <3>1. "commit" \in sided /\ at[c][k] \in Nat
      BY <2>3, <3>0 DEF WriteRecord, OneSided
    <3>2. data[k][1] \in {item[c][k].data[1], item[c][k].data[1] + 1}
      <4>1. CASE at[c][k] = 0
        BY <1>1, <4>1, WriterWhole
      <4>2. CASE at[c][k] # 0
        <5>1. Writing(c, k)
          BY <1>1, <3>1, <4>2 DEF Writing
        <5> QED
          BY <3>1, <5>1 DEF Inv, RecordOK, WrittenOf, Landing
      <4> QED
        BY <4>1, <4>2
    <3>3. data' = data \/ \E n \in 1 .. 2 : data' = [data EXCEPT ![k][n] = NewData(c)[k][n]]
      BY <2>3 DEF WriteRecord
    <3>4. ASSUME NEW n \in 1 .. 2, data' = [data EXCEPT ![k][n] = NewData(c)[k][n]]
          PROVE  data'[k][1] = IF n = 1 THEN item[c][k].data[1] + 1 ELSE data[k][1]
      <4>1. data'[k] = [data[k] EXCEPT ![n] = NewData(c)[k][n]]
        BY <3>4 DEF Inv, Types
      <4> QED
        BY <2>1, <2>2, <4>1
    <3> QED
      BY <2>1, <3>2, <3>3, <3>4
  <2>4. CASE WriteHalf(c, k)
    <3>1. PICK n \in 1 .. 2 : /\ Serving(c, k, "commit", n)
                              /\ data' = [data EXCEPT ![k][n] = NewData(c)[k][n]]
      BY <2>4 DEF WriteHalf
    <3>2. data'[k] = [data[k] EXCEPT ![n] = NewData(c)[k][n]]
      BY <3>1 DEF Inv, Types
    <3>3. CASE n = 2
      BY <2>1, <3>2, <3>3
    <3>4. CASE n = 1
      <4>1. Writing(c, k) /\ at[c][k] = 1 /\ "commit" \notin sided
        BY <1>1, <2>4, <3>1, <3>4 DEF Writing, Serving, WriteHalf, OneSided
      <4>2. data[k][1] = item[c][k].data[1]
        BY <4>1 DEF Inv, RecordOK, WrittenOf, InPlace
      <4>3. data'[k][1] = item[c][k].data[1] + 1
        BY <2>1, <2>2, <3>2, <3>4
      <4> QED
        BY <2>1, <4>2, <4>3
    <3> QED
      BY <3>3, <3>4
  <2>5. CASE FlagSeq(c, k) \/ BumpSeq(c, k)
    BY <2>1, <2>5 DEF FlagSeq, BumpSeq
  <2> QED
    BY <2>3, <2>4, <2>5
<1>6. \A j \in Keys : data[j][1] <= data'[j][1]
  BY <1>4, <1>5, Versions DEF Inv
<1>7. ASSUME NEW d \in Cors
      PROVE  /\ \A j \in Keys : (Owes(d, j)' <=> Owes(d, j)) /\ item'[d][j].data = item[d][j].data
             /\ Validated(d)' = Validated(d)
             /\ pc'[d] = "validate" => d # c /\ pc[d] = "validate"
             /\ rset'[d] = rset[d] /\ wset'[d] = wset[d] /\ (d # c => item'[d] = item[d])
  BY <1>1, <1>2, <1>3 DEF OthersSame, Owes, Validated
<1> QED
  BY <1>1, <1>6, <1>7 DEF Calm
-----------------------------------------------------------------------------
(* The lock point, the validation and the commit                           *)
-----------------------------------------------------------------------------
\* A transaction that owes a write of a record, or that is validating with
\* the record in its write set, has the lock.
LEMMA LockHeld ==
  ASSUME Inv, NEW c \in Cors, NEW k \in Keys,
         Owes(c, k) \/ (pc[c] = "validate" /\ k \in wset[c])
  PROVE  lock[k] = Word(c)
BY DEF Inv, HoldsOK, MustHold, Owes

LEMMA HistoryKept ==
  ASSUME History, UNCHANGED << data, item, done >>,
         \A c \in Cors, k \in Keys : Owes(c, k) => Owes(c, k)'
  PROVE  History'
<1>1. ASSUME NEW t \in done, NEW k \in Keys PROVE EntryOf(t, k)'
  <2>1. EntryOf(t, k)
    BY DEF History
  <2> QED
    BY <2>1 DEF EntryOf
<1>2. ASSUME NEW c \in Cors, NEW k \in Keys PROVE PastOf(c, k)'
  BY DEF History, PastOf
<1> QED
  BY <1>1, <1>2 DEF History

\* With its last lock a transaction gets its place: behind all the others.
LEMMA LockDoneOrders ==
  ASSUME Inv, NEW c \in Cors, History, Ordered, LockDone(c)
  PROVE  History' /\ Ordered'
<1>0. /\ pc[c] = "lock" /\ pc'[c] = "validate" /\ pend'[c] = rset[c]
      /\ UNCHANGED << rset, wset, item, data, okay, done, split >> /\ OthersSame(c)
  BY OthersStage DEF LockDone, Stage, record, sets, buffers, ghost, Inv, Types
<1>1. \A d \in Cors, k \in Keys : Owes(d, k)' <=> Owes(d, k)
  BY <1>0 DEF Owes, OthersSame
<1>2. History'
  BY <1>0, <1>1, HistoryKept
<1>3. Validated(c)' = {} /\ \A d \in Cors : d # c => Validated(d)' = Validated(d)
  BY <1>0 DEF Validated, OthersSame
<1>4. CASE split
  BY <1>0, <1>2, <1>4 DEF Ordered
<1>5. CASE ~split
  <2>1. PICK f \in [done -> Nat], s \in [Cors -> Nat], n \in Nat : Order(f, s, n)
    BY <1>5 DEF Ordered
  <2> DEFINE s1 == [s EXCEPT ![c] = n]
  <2>2. s1 \in [Cors -> Nat] /\ n + 1 \in Nat /\ s1[c] = n /\ \A d \in Cors : d # c => s1[d] = s[d]
    OBVIOUS
  <2> HIDE DEF s1
  <2>3. (\A t \in done : f[t] < n /\ f[t] < n + 1) /\ \A d \in Cors : s[d] < n /\ s1[d] < n + 1
    BY <2>1, <2>2 DEF Order
  <2>4. ASSUME NEW d \in Cors, NEW t \in done, NEW k \in Keys, pc'[d] = "validate"
        PROVE  After(f, s1, d, t, k)'
    <3>1. CASE d = c
      BY <1>3, <2>2, <2>3, <3>1 DEF After
    <3>2. CASE d # c
      <4>1. After(f, s, d, t, k)
        BY <1>0, <2>1, <2>4, <3>2 DEF Order, OthersSame
      <4> QED
        BY <1>0, <1>3, <2>2, <3>2, <4>1 DEF After
    <3> QED
      BY <3>1, <3>2
  <2>5. ASSUME NEW d \in Cors, NEW e \in Cors, NEW k \in Keys, d # e, k \in Validated(e)',
               pc'[d] = "validate", k \in wset'[d]
        PROVE  s1[e] < s1[d]
    <3>1. e # c /\ k \in Validated(e)
      BY <1>3, <2>5
    <3>2. CASE d = c
      BY <2>2, <2>3, <3>1, <3>2
    <3>3. CASE d # c
      BY <1>0, <2>1, <2>2, <2>5, <3>1, <3>3 DEF Order, OthersSame
    <3> QED
      BY <3>2, <3>3
  <2>6. Order(f, s1, n + 1)'
    BY <1>0, <2>1, <2>2, <2>3, <2>4, <2>5 DEF Order, Before
  <2> QED
    BY <1>0, <1>2, <2>2, <2>6 DEF Ordered
<1> QED
  BY <1>4, <1>5

\* A read is validated while nobody has the lock: whoever overwrites it gets
\* its last lock, and so its place, later.
LEMMA ValidationOrders ==
  ASSUME Inv, ~torn, NEW c \in Cors, NEW k \in Keys, History, Ordered, OthersSame(c),
         pc[c] = "validate", k \in pend[c], lock[k] = 0, pend'[c] = pend[c] \ {k},
         UNCHANGED << data, pc, rset, wset, item, okay, done >>,
         split' <=> (split \/ seq[k] # item[c][k].seq)
  PROVE  History' /\ Ordered'
<1>1. \A d \in Cors, j \in Keys : Owes(d, j)' <=> Owes(d, j)
  BY DEF Owes, OthersSame
<1>2. History'
  BY <1>1, HistoryKept
<1>3. Validated(c)' \subseteq Validated(c) \cup {k} /\ \A d \in Cors : d # c => Validated(d)' = Validated(d)
  BY DEF Validated, OthersSame
<1>6. k \in Validated(c)' => Whole(item[c][k])
  BY DEF Validated
<1>4. CASE split'
  BY <1>2, <1>4 DEF Ordered
<1>5. CASE ~split'
  <2>0. ~split /\ seq[k] = item[c][k].seq
    BY <1>5
  <2>1. PICK f \in [done -> Nat], s \in [Cors -> Nat], n \in Nat : Order(f, s, n)
    BY <2>0 DEF Ordered
  <2>2. (Whole(item[c][k]) => item[c][k].data[1] = data[k][1]) /\ data[k][1] \in Nat
    BY <2>0, CopyCurrent, Versions DEF Inv
  <2>3. \A d \in Cors : ~Owes(d, k) /\ ~(pc[d] = "validate" /\ k \in wset[d])
    BY LockHeld, WordFacts
  <2>4. ASSUME NEW t \in done, k \in DOMAIN t.r, k \in t.w, item[c][k].data[1] <= t.r[k],
               Whole(item[c][k])
        PROVE  FALSE
    <3>1. EntryOf(t, k)
      BY DEF History
    <3>2. t.r[k] \in Nat /\ t.r[k] < data[k][1]
      BY <2>3, <2>4, <3>1 DEF EntryOf
    <3> QED
      BY <2>2, <2>4, <3>2
  <2>5. ASSUME NEW d \in Cors, NEW t \in done, NEW j \in Keys, pc'[d] = "validate"
        PROVE  After(f, s, d, t, j)'
    <3>1. After(f, s, d, t, j)
      BY <2>1, <2>5 DEF Order
    <3>2. CASE d = c /\ j = k
      BY <1>6, <2>4, <3>1, <3>2 DEF After
    <3>3. CASE d # c \/ j # k
      <4>1. j \in Validated(d)' => j \in Validated(d)
        BY <1>3, <3>3
      <4> QED
        BY <3>1, <4>1 DEF After
    <3> QED
      BY <3>2, <3>3
  <2>6. ASSUME NEW d \in Cors, NEW e \in Cors, NEW j \in Keys, d # e, j \in Validated(e)',
               pc'[d] = "validate", j \in wset'[d]
        PROVE  s[e] < s[d]
    <3>1. pc[d] = "validate" /\ j \in wset[d] /\ j # k
      BY <2>3, <2>6
    <3>2. j \in Validated(e)
      BY <1>3, <2>6, <3>1
    <3> QED
      BY <2>1, <2>6, <3>1, <3>2 DEF Order
  <2>7. Order(f, s, n)'
    BY <2>1, <2>5, <2>6 DEF Order, Before
  <2> QED
    BY <1>2, <2>7 DEF Ordered
<1> QED
  BY <1>4, <1>5

LEMMA ValidateOrders ==
  ASSUME Inv, Inv', ~torn, NEW c \in Cors, NEW k \in Keys, History, Ordered,
         ValidateRecord(c, k) \/ ValidateSeq(c, k) \/ ValidateLock(c, k)
  PROVE  History' /\ Ordered'
<1>1. /\ pc[c] = "validate" /\ k \in pend[c] /\ OthersSame(c)
      /\ UNCHANGED << data, pc, rset, wset, item, done >> /\ (split => split')
  BY OthersLock DEF Inv, ValidateRecord, ValidateSeq, ValidateLock, Serving, record, sets, buffers, ghost
<1>2. CASE ~okay'[c] \/ (okay' = okay /\ pend' = pend)
  BY <1>1, <1>2, ValidateCalm, CalmKeeps DEF Inv
<1>3. CASE ~(~okay'[c] \/ (okay' = okay /\ pend' = pend))
  <2>1. ~Failed(c, k) /\ ~(Step(c, k) /\ okay' = okay)
    BY <1>3 DEF Failed, Step, Inv, Types
  <2>2. /\ Served(c, k) /\ okay' = okay /\ lock[k] = 0
        /\ split' <=> (split \/ seq[k] # item[c][k].seq)
    <3>1. CASE ValidateRecord(c, k)
      BY <2>1, <3>1 DEF ValidateRecord, ghost
    <3>2. CASE ValidateSeq(c, k)
      BY <2>1, <3>2 DEF ValidateSeq
    <3>3. CASE ValidateLock(c, k)
      BY <2>1, <3>3 DEF ValidateLock
    <3> QED
      BY <3>1, <3>2, <3>3
  <2>3. pend'[c] = pend[c] \ {k}
    BY <2>2, ServedMoves DEF Inv
  <2> QED
    BY <1>1, <2>2, <2>3, ValidationOrders
<1> QED
  BY <1>2, <1>3

\* What a transaction that has validated everything knows of its write set.
LEMMA WriteSetCurrent ==
  ASSUME Inv, ~torn, History, NEW c \in Cors, NEW k \in Keys, pc[c] = "validate", k \in wset[c],
         Whole(item[c][k])
  PROVE  /\ item[c][k].data[1] = data[k][1]
         /\ \A d \in Cors : d # c => ~Owes(d, k) /\ ~(pc[d] = "validate" /\ k \in wset[d])
         /\ \A t \in done : k \in DOMAIN t.r =>
              /\ t.r[k] \in Nat /\ t.r[k] <= item[c][k].data[1]
              /\ k \in t.w => t.r[k] < item[c][k].data[1]
<1>1. item[c][k].data[1] = data[k][1]
  <2>1. seq[k] = item[c][k].seq /\ lock[k] = Word(c) /\ ~Writing(c, k)
    BY LockHeld DEF Inv, CheckedOK, CheckedOf, Checked, Writing
  <2> QED
    BY <2>1, CopyCurrent
<1>2. \A d \in Cors : d # c => ~Owes(d, k) /\ ~(pc[d] = "validate" /\ k \in wset[d])
  BY LockHeld, WordFacts
<1>3. ~Owes(c, k)
  BY DEF Owes
<1>4. ASSUME NEW t \in done, k \in DOMAIN t.r
      PROVE  /\ t.r[k] \in Nat /\ t.r[k] <= item[c][k].data[1]
             /\ k \in t.w => t.r[k] < item[c][k].data[1]
  <2>1. EntryOf(t, k)
    BY DEF History
  <2> QED
    BY <1>1, <1>2, <1>3, <1>4, <2>1 DEF EntryOf
<1> QED
  BY <1>1, <1>2, <1>4

LEMMA CommitFacts ==
  ASSUME Inv, ~torn', NEW c \in Cors, ValidateDone(c)
  PROVE  /\ pc[c] = "validate" /\ pend[c] = {} /\ okay[c] /\ pc'[c] # "validate" /\ OthersSame(c)
         /\ done' = done \cup {Committed(c)}
         /\ UNCHANGED << data, item, rset, wset, split >>
         /\ Validated(c)' = {} /\ \A d \in Cors : d # c => Validated(d)' = Validated(d)
         /\ Validated(c) = rset[c]
         /\ \A k \in rset[c] \cup wset[c] : Whole(item[c][k])
         /\ \A d \in Cors, k \in Keys : Owes(d, k)' <=> Owes(d, k) \/ (d = c /\ k \in wset[c])
<1>1. /\ pc[c] = "validate" /\ pend[c] = {} /\ okay[c]
      /\ pc'[c] = "log" \/ (pc'[c] = "commit" /\ pend'[c] = wset[c])
      /\ done' = done \cup {Committed(c)}
      /\ UNCHANGED << data, item, rset, wset, split >>
      /\ \A k \in rset[c] \cup wset[c] : Whole(item[c][k])
  BY DEF ValidateDone, Stage, record, sets, buffers, Inv, Types
<1>2. OthersSame(c)
  BY OthersStage DEF Inv
<1>3. Validated(c)' = {} /\ (\A d \in Cors : d # c => Validated(d)' = Validated(d)) /\ Validated(c) = rset[c]
  BY <1>1, <1>2 DEF Validated, OthersSame
<1>4. \A d \in Cors, k \in Keys : Owes(d, k)' <=> Owes(d, k) \/ (d = c /\ k \in wset[c])
  BY <1>1, <1>2 DEF Owes, OthersSame
<1> QED
  BY <1>1, <1>2, <1>3, <1>4

\* The new entry of the history.
LEMMA NewEntry ==
  ASSUME Types, NEW c \in Cors
  PROVE  /\ Committed(c).w = wset[c]
         /\ DOMAIN Committed(c).r = rset[c] \cup wset[c] /\ rset[c] \cup wset[c] \subseteq Keys
         /\ \A k \in rset[c] \cup wset[c] : Committed(c).r[k] = item[c][k].data[1]
BY DEF Committed, Types

LEMMA CommitHistory ==
  ASSUME Inv, ~torn', NEW c \in Cors, History, ValidateDone(c)
  PROVE  History'
<1> USE CommitFacts
<1>1. ASSUME NEW t \in done, NEW k \in Keys PROVE EntryOf(t, k)'
  <2>1. EntryOf(t, k)
    BY DEF History
  <2> QED
    BY <2>1 DEF EntryOf
<1>2. ASSUME NEW t, t = Committed(c), NEW k \in Keys PROVE EntryOf(t, k)'
  <2>1. /\ t.w = wset[c] /\ DOMAIN t.r = rset[c] \cup wset[c]
        /\ k \in rset[c] \cup wset[c] => t.r[k] = item[c][k].data[1]
    BY <1>2, NewEntry DEF Inv
  <2>2. item[c][k].data[1] \in Nat /\ item[c][k].data[1] <= data[k][1]
    BY Versions DEF Inv, History, PastOf
  <2> QED
    BY <2>1, <2>2 DEF EntryOf
<1>3. ASSUME NEW d \in Cors, NEW k \in Keys PROVE PastOf(d, k)'
  BY DEF History, PastOf
<1>4. ASSUME NEW t \in done' PROVE DOMAIN t.r \subseteq Keys /\ \A k \in Keys : EntryOf(t, k)'
  <2>1. CASE t \in done
    BY <1>1, <2>1 DEF History
  <2>2. CASE t = Committed(c)
    BY <1>2, <2>2, NewEntry DEF Inv
  <2> QED
    BY <2>1, <2>2
<1> QED
  BY <1>3, <1>4 DEF History

\* The transaction enters the history at the place it got with its last lock:
\* after all it saw or overwrites, before all that overwrote what it saw.
LEMMA CommitOrder ==
  ASSUME Inv, ~torn, ~torn', NEW c \in Cors, History, ValidateDone(c),
         NEW f \in [done -> Nat], NEW s \in [Cors -> Nat], NEW n \in Nat, Order(f, s, n)
  PROVE  \E g \in [done' -> Nat] : Order(g, s, n)'
<1>0. PICK x : x = Committed(c)
  OBVIOUS
<1>1. /\ pc[c] = "validate" /\ pend[c] = {} /\ okay[c] /\ pc'[c] # "validate" /\ OthersSame(c)
      /\ done' = done \cup {x}
      /\ UNCHANGED << data, item, rset, wset, split >>
      /\ Validated(c)' = {} /\ \A d \in Cors : d # c => Validated(d)' = Validated(d)
      /\ \A k \in rset[c] \cup wset[c] : Whole(item[c][k])
  BY <1>0, CommitFacts
<1>2. /\ x.w = wset[c] /\ DOMAIN x.r = rset[c] \cup wset[c] /\ rset[c] \cup wset[c] \subseteq Keys
      /\ \A k \in rset[c] \cup wset[c] : x.r[k] = item[c][k].data[1]
      /\ Validated(c) = rset[c]
  BY <1>0, NewEntry, CommitFacts DEF Inv
<1>3. ASSUME NEW d \in Cors, NEW e \in Cors, NEW k \in Keys, d # e, k \in Validated(e)',
             pc'[d] = "validate", k \in wset'[d]
      PROVE  s[e] < s[d]
  <2>1. d # c /\ e # c
    BY <1>1, <1>3
  <2> QED
    BY <1>1, <1>3, <2>1 DEF Order, OthersSame
<1>4. ASSUME NEW g \in [done' -> Nat], NEW d \in Cors, NEW t \in done, NEW k \in Keys,
             pc'[d] = "validate", g[t] = f[t]
      PROVE  After(g, s, d, t, k)'
  <2>1. d # c /\ pc[d] = "validate"
    BY <1>1, <1>4 DEF OthersSame
  <2>2. After(f, s, d, t, k) /\ Validated(d)' = Validated(d)
    BY <1>1, <2>1 DEF Order
  <2> QED
    BY <1>1, <1>4, <2>2 DEF After
<1>5. CASE x \in done
  <2>1. done' = done
    BY <1>1, <1>5
  <2>2. Order(f, s, n)'
    BY <1>3, <1>4, <2>1 DEF Order, Before
  <2> QED
    BY <2>1, <2>2
<1>6. CASE x \notin done
  <2>1. PICK g : g = [t \in done \cup {x} |-> IF t = x THEN s[c] ELSE f[t]]
    OBVIOUS
  <2>2. g \in [done' -> Nat] /\ g[x] = s[c] /\ \A t \in done : t # x /\ g[t] = f[t]
    BY <1>1, <1>6, <2>1
  <2>3. \A t \in done' : g[t] < n
    BY <1>1, <2>2 DEF Order
  <2>4. ASSUME NEW k \in Keys, k \in wset[c]
        PROVE  /\ item[c][k].data[1] = data[k][1]
               /\ \A d \in Cors : d # c => ~(pc[d] = "validate" /\ k \in wset[d])
               /\ \A t \in done : k \in DOMAIN t.r =>
                    /\ t.r[k] \in Nat /\ t.r[k] <= item[c][k].data[1]
                    /\ k \in t.w => t.r[k] < item[c][k].data[1]
    BY <1>1, <2>4, WriteSetCurrent
  <2>5. ASSUME NEW u \in done, Before(u, x) PROVE f[u] < s[c]
    <3>1. PICK k \in DOMAIN u.r \cap DOMAIN x.r :
            (k \in u.w /\ u.r[k] < x.r[k]) \/ (k \in x.w /\ u.r[k] <= x.r[k])
      BY <2>5 DEF Before
    <3>2. k \in Keys /\ After(f, s, c, u, k)
      BY <1>1, <1>2, <3>1 DEF Order
    <3> QED
      BY <1>2, <3>1, <3>2 DEF After
  <2>6. ASSUME NEW u \in done, Before(x, u) PROVE s[c] < f[u]
    <3>1. PICK k \in DOMAIN x.r \cap DOMAIN u.r :
            (k \in x.w /\ x.r[k] < u.r[k]) \/ (k \in u.w /\ x.r[k] <= u.r[k])
      BY <2>6 DEF Before
    <3>2. k \in Keys /\ After(f, s, c, u, k) /\ x.r[k] = item[c][k].data[1]
      BY <1>1, <1>2, <3>1 DEF Order
    <3>3. item[c][k].data[1] \in Nat
      BY <3>2, Versions DEF Inv
    <3>4. k \notin wset[c]
      <4>1. ASSUME k \in wset[c] PROVE FALSE
        BY <1>2, <2>4, <3>1, <3>2, <3>3, <4>1
      <4> QED
        BY <4>1
    <3> QED
      BY <1>2, <3>1, <3>2, <3>4 DEF After
  <2>7. ASSUME NEW t \in done', NEW u \in done', u # t, Before(u, t) PROVE g[u] < g[t]
    <3>1. CASE t = x
      BY <1>1, <2>2, <2>5, <2>7, <3>1
    <3>2. CASE u = x
      BY <1>1, <2>2, <2>6, <2>7, <3>2
    <3>3. CASE t # x /\ u # x
      BY <1>1, <2>2, <2>7, <3>3 DEF Order
    <3> QED
      BY <3>1, <3>2, <3>3
  <2>8. ASSUME NEW d \in Cors, NEW k \in Keys, pc'[d] = "validate" PROVE After(g, s, d, x, k)'
    <3>1. /\ d # c /\ pc[d] = "validate" /\ Validated(d)' = Validated(d)
          /\ rset'[d] = rset[d] /\ wset'[d] = wset[d] /\ item'[d] = item[d]
      BY <1>1, <2>8 DEF OthersSame
    <3>2. SUFFICES ASSUME k \in DOMAIN x.r, k \in rset[d] \cup wset[d]
                   PROVE  /\ k \in x.w /\ x.r[k] < item[d][k].data[1] => s[c] < s[d]
                          /\ k \in wset[d] => s[c] < s[d]
                          /\ k \in Validated(d) /\ k \in x.w /\ item[d][k].data[1] <= x.r[k] => s[d] < s[c]
      BY <2>2, <3>1 DEF After
    <3>3. x.r[k] = item[c][k].data[1] /\ x.r[k] \in Nat /\ item[d][k].data[1] \in Nat
      BY <1>2, <3>2, Versions DEF Inv
    <3>4. ASSUME k \in x.w, x.r[k] < item[d][k].data[1] PROVE FALSE
      <4>1. PastOf(d, k)
        BY DEF History
      <4>2. data[k][1] \in Nat /\ item[c][k].data[1] = data[k][1]
        BY <1>2, <2>4, <3>4, Versions DEF Inv
      <4> QED
        BY <3>3, <3>4, <4>1, <4>2 DEF PastOf
    <3>5. ASSUME k \in wset[d] PROVE s[c] < s[d]
      <4>1. k \in Validated(c)
        BY <1>2, <2>4, <3>1, <3>2, <3>5
      <4> QED
        BY <3>1, <3>5, <4>1 DEF Order
    <3>6. ASSUME k \in Validated(d), k \in x.w PROVE s[d] < s[c]
      BY <1>1, <1>2, <3>1, <3>6 DEF Order
    <3> QED
      BY <3>4, <3>5, <3>6
  <2>9. ASSUME NEW d \in Cors, NEW t \in done', NEW k \in Keys, pc'[d] = "validate"
        PROVE  After(g, s, d, t, k)'
    BY <1>1, <1>4, <2>2, <2>8, <2>9
  <2>10. Order(g, s, n)'
    <3>1. \A d \in Cors : s[d] < n
      BY DEF Order
    <3>2. \A t, u \in done' : u # t /\ Before(u, t)' => g[u] < g[t]
      BY <2>7 DEF Before
    <3> QED
      BY <1>3, <2>2, <2>3, <2>9, <3>1, <3>2, Zenon DEF Order
  <2> QED
    BY <2>2, <2>10
<1> QED
  BY <1>5, <1>6

LEMMA CommitOrders ==
  ASSUME Inv, ~torn, ~torn', NEW c \in Cors, History, Ordered, ValidateDone(c)
  PROVE  History' /\ Ordered'
<1>1. History'
  BY CommitHistory
<1>2. split' = split
  BY CommitFacts
<1>3. CASE split
  BY <1>1, <1>2, <1>3 DEF Ordered
<1>4. CASE ~split
  <2>1. PICK f \in [done -> Nat], s \in [Cors -> Nat], n \in Nat : Order(f, s, n)
    BY <1>4 DEF Ordered
  <2>2. \E g \in [done' -> Nat] : Order(g, s, n)'
    BY <2>1, CommitOrder
  <2> QED
    BY <1>1, <2>2 DEF Ordered
<1> QED
  BY <1>3, <1>4
-----------------------------------------------------------------------------
(* The theorem                                                             *)
-----------------------------------------------------------------------------
LEMMA SerialInit == Init => History /\ Ordered
<1> SUFFICES ASSUME Init PROVE History /\ Ordered
  OBVIOUS
<1>1. done = {}
  BY DEF Init
<1>2. History
  BY <1>1 DEF Init, History, PastOf, Blank
<1>3. PICK f : f = [t \in {} |-> 0]
  OBVIOUS
<1>4. PICK s : s = [c \in Cors |-> 0]
  OBVIOUS
<1>5. Order(f, s, 1)
  BY <1>1, <1>3, <1>4 DEF Order, Init, Validated
<1>6. f \in [done -> Nat] /\ s \in [Cors -> Nat]
  BY <1>1, <1>3, <1>4
<1> QED
  BY <1>2, <1>5, <1>6 DEF Ordered

LEMMA SerialNext ==
  ASSUME Inv, Inv', ~torn, ~torn', History, Ordered, [Next]_vars
  PROVE  History' /\ Ordered'
<1>1. ASSUME Calm PROVE History' /\ Ordered'
  BY <1>1, CalmKeeps DEF Inv
<1>2. ASSUME NEW c \in Cors, Begin(c) \/ Advance(c) PROVE History' /\ Ordered'
  <2>1. ASSUME NEW k \in Keys,
               \/ ReadRecord(c, k) \/ ReadPart(c, k) \/ ReadDone(c, k)
               \/ GetSeq(c, k) \/ GetHalf(c, k) \/ GetRecheck(c, k)
               \/ LockItem(c, k) \/ LockLost(c, k) \/ CheckLocked(c, k) \/ ReleaseItem(c, k)
        PROVE  History' /\ Ordered'
    BY <1>1, <2>1, ReadCalm, LockCalm
  <2>2. ASSUME NEW k \in Keys,
               \/ WriteRecord(c, k) \/ WriteUnlock(c, k)
               \/ FlagSeq(c, k) \/ WriteHalf(c, k) \/ BumpSeq(c, k) \/ ZeroLock(c, k)
        PROVE  History' /\ Ordered'
    BY <1>1, <2>2, WriteCalm, UnlockCalm
  <2>3. ASSUME NEW k \in Keys, ValidateRecord(c, k) \/ ValidateSeq(c, k) \/ ValidateLock(c, k)
        PROVE  History' /\ Ordered'
    BY <2>3, ValidateOrders
  <2>4. ASSUME LogAck(c) \/ LogDone(c) \/ \E m \in Macs : Log(c, m) \/ CleanLog(c, m)
        PROVE  History' /\ Ordered'
    BY <1>1, <2>4, LogCalm
  <2>5. ASSUME Begin(c) \/ Commit(c) \/ Abort(c) PROVE History' /\ Ordered'
    BY <1>1, <2>5, StageCalm
  <2>6. ASSUME End(c) \/ ReleaseDone(c) PROVE History' /\ Ordered'
    BY <1>1, <2>6, OverCalm DEF End, ReleaseDone
  <2>7. ASSUME LockDone(c) \/ ValidateDone(c) PROVE History' /\ Ordered'
    BY <2>7, LockDoneOrders, CommitOrders
  <2> QED
    BY <1>2, <2>1, <2>2, <2>3, <2>4, <2>5, <2>6, <2>7 DEF Advance
<1>3. ASSUME UNCHANGED vars PROVE History' /\ Ordered'
  <2>1. Calm
    <3>1. \A k \in Keys : data[k][1] <= data'[k][1]
      BY <1>3, Versions DEF Inv, vars
    <3> QED
      BY <1>3, <3>1 DEF Calm, vars, Owes, Validated
  <2> QED
    BY <1>1, <2>1
<1> QED
  BY <1>2, <1>3 DEF Next, Exhausted

\* What went wrong stays on record.
LEMMA TornStays == torn /\ [Next]_vars => torn'
<1> SUFFICES ASSUME torn, [Next]_vars PROVE torn'
  OBVIOUS
<1>1. ASSUME NEW c \in Cors, NEW k \in Keys,
             \/ ReadRecord(c, k) \/ ReadPart(c, k) \/ ReadDone(c, k)
             \/ GetSeq(c, k) \/ GetHalf(c, k) \/ GetRecheck(c, k)
             \/ LockItem(c, k) \/ LockLost(c, k) \/ CheckLocked(c, k)
             \/ ValidateRecord(c, k) \/ ValidateSeq(c, k) \/ ValidateLock(c, k)
      PROVE  torn'
  BY <1>1 DEF ReadRecord, ReadPart, ReadDone, GetSeq, GetHalf, GetRecheck, LockItem, LockLost,
              CheckLocked, ValidateRecord, ValidateSeq, ValidateLock, ghost
<1>2. ASSUME NEW c \in Cors, NEW k \in Keys,
             \/ WriteRecord(c, k) \/ WriteUnlock(c, k) \/ ReleaseItem(c, k)
             \/ FlagSeq(c, k) \/ WriteHalf(c, k) \/ BumpSeq(c, k) \/ ZeroLock(c, k)
      PROVE  torn'
  BY <1>2 DEF WriteRecord, WriteUnlock, ReleaseItem, FlagSeq, WriteHalf, BumpSeq, ZeroLock, ghost
<1>3. ASSUME NEW c \in Cors,
             \/ Begin(c) \/ Commit(c) \/ LockDone(c) \/ ValidateDone(c) \/ LogAck(c) \/ LogDone(c)
             \/ End(c) \/ Abort(c) \/ ReleaseDone(c) \/ \E m \in Macs : Log(c, m) \/ CleanLog(c, m)
      PROVE  torn'
  BY <1>3 DEF Begin, Commit, LockDone, ValidateDone, LogAck, LogDone, End, Abort, ReleaseDone, Over,
              Log, CleanLog, ghost
<1> QED
  BY <1>1, <1>2, <1>3 DEF Next, Advance, Exhausted, vars

\* The committed transactions are serializable, unless a validation over RPC
\* saw the sequence word before and the lock word after a write, or a copy that
\* is no version was committed, which takes one-sided reads or write-backs.
THEOREM OCCSerializable == ASSUME ReleaseWithLock PROVE Spec => []Serializable
<1> DEFINE Serial == torn \/ (History /\ Ordered)
<1>1. Init => Serial
  BY SerialInit
<1>2. Inv /\ Inv' /\ Serial /\ [Next]_vars => Serial'
  BY SerialNext, TornStays
<1>3. Serial => Serializable
  BY OrderedSerializable DEF Serializable
<1>4. Spec => []Inv
  BY Invariance
<1> HIDE DEF Serial
<1> QED
  BY <1>1, <1>2, <1>3, <1>4, PTL DEF Spec
=============================================================================
