---------------------------- MODULE TwoPLProofs ----------------------------
(***************************************************************************)
(* Theorems about TwoPL for every set of coroutines, records and contents, *)
(* every width of the lock word, both protocols and both transports.       *)
(***************************************************************************)
EXTENDS TwoPL, TLAPS, WellFoundedInduction

-----------------------------------------------------------------------------
(* Arithmetic of lock words                                                *)
-----------------------------------------------------------------------------
\* The word w holds the id i above its 9 low bits.
HoldsId(w, i) == w \in Nat /\ \E m \in Int : w = m * 524288 + i * 512

\* A start time shifted into the lock word (R_LEASE, rwlock.hpp:13) keeps its
\* id bits whatever the word drops of the clock.
LEMMA LeaseKeepsId ==
  ASSUME NEW s \in Nat, NEW t \in Nat, NEW i \in 1 .. 1023, s = t * 1024 + i
  PROVE  HoldsId(R_LEASE(s), i)
<1> DEFINE x == s * 512
           y == x % WordSpace
           q == x \div WordSpace
           n == WordSpace \div 524288
<1>1. x \in Nat /\ WordSpace \in Nat /\ WordSpace > 0 /\ WordSpace % 524288 = 0
  BY SMT, TwoPLAssumption
<1>2. q \in Int /\ n \in Int /\ y \in Nat
  BY SMT, <1>1
<1>3. WordSpace = 524288 * n
  BY SMT, <1>1
<1>4. x = WordSpace * q + y
  BY SMT, <1>1
<1>5. R_LEASE(s) = y
  BY DEF R_LEASE
<1> HIDE DEF q, n, y
<1>6. PICK r \in Int : WordSpace * q = 524288 * r
  <2>1. WordSpace * q = (524288 * n) * q
    BY <1>3
  <2>2. n * q \in Int /\ (524288 * n) * q = 524288 * (n * q)
    BY SMT, <1>2
  <2> QED
    BY SMT, <2>1, <2>2
<1>7. x = 524288 * r + y
  BY SMT, <1>4, <1>6
<1>8. y = (t - r) * 524288 + i * 512
  BY SMT, <1>7, <1>2
<1>9. t - r \in Int
  BY SMT
<1>10. HoldsId(y, i)
  BY SMT, <1>2, <1>8, <1>9 DEF HoldsId
<1> HIDE DEF x
<1> QED
  BY <1>5, <1>10

\* A word that holds an id is a number other than the free word 0.
LEMMA WordNotFree ==
  ASSUME NEW w, NEW i \in 1 .. 1023, HoldsId(w, i)
  PROVE  w \in Nat /\ w # 0
<1>1. w \in Nat /\ \E m \in Int : w = m * 524288 + i * 512
  BY DEF HoldsId
<1>2. PICK m \in Int : w = m * 524288 + i * 512
  BY <1>1
<1> QED
  BY SMT, <1>1, <1>2
-----------------------------------------------------------------------------
(* Type correctness                                                        *)
-----------------------------------------------------------------------------
\* The parts of the assumption on the constants that the steps below use.
LEMMA ConstantFacts ==
  /\ \A c \in Cors : Id[c] \in 1 .. 1023
  /\ Clocks \subseteq Nat
  /\ OneSided => Local = {}
  /\ Zero \in Values
BY SMT, TwoPLAssumption DEF Zero

\* A lease is a number.
LEMMA LeaseType == \A s \in Nat : R_LEASE(s) \in Nat
<1>1. WordSpace \in Nat /\ WordSpace > 0
  BY SMT, TwoPLAssumption
<1> QED
  BY SMT, <1>1 DEF R_LEASE

\* So is a lock word.
LEMMA LockWordType ==
  ASSUME TypeOK, NEW c \in Cors, NEW k \in Keys
  PROVE  LockWord(c, k) \in Nat
<1>1. R_LEASE(ts[c]) \in Nat
  BY LeaseType DEF TypeOK
<1> QED
  BY <1>1 DEF LockWord

\* Every step of every operation keeps every variable in its type.
THEOREM TypeCorrect == Spec => []TypeOK
<1>1. Init => TypeOK
  BY ConstantFacts DEF Init, TypeOK
<1>2. TypeOK /\ [Next]_vars => TypeOK'
  <2> SUFFICES ASSUME TypeOK, [Next]_vars PROVE TypeOK'
    OBVIOUS
  <2>1. CASE UNCHANGED vars
    BY <2>1 DEF TypeOK, vars
  <2>2. ASSUME NEW c \in Cors, Begin(c) PROVE TypeOK'
    <3>1. PICK t \in Clocks : ts' = [ts EXCEPT ![c] = t * 1024 + Id[c]]
      BY <2>2 DEF Begin
    <3>2. t \in Nat /\ Id[c] \in Nat
      BY ConstantFacts, SMTT(20)
    <3>3. t * 1024 + Id[c] \in Nat
      BY SMT, <3>2
    <3> QED
      BY <2>2, <3>1, <3>3 DEF TypeOK, Begin, Goto
  <2>3. ASSUME NEW c \in Cors, NEW k \in Keys, Read(c, k) PROVE TypeOK'
    BY <2>3 DEF TypeOK, Read, Append, Goto
  <2>4. ASSUME NEW c \in Cors, NEW k \in Keys, Write(c, k) PROVE TypeOK'
    BY <2>4 DEF TypeOK, Write, Append, Goto
  <2>5. ASSUME NEW c \in Cors, NEW k \in Keys, LockGranted(c, k) PROVE TypeOK'
    BY <2>5, LockWordType DEF TypeOK, LockGranted, Return, Goto
  <2>6. ASSUME NEW c \in Cors, NEW k \in Keys, LockFailed(c, k) PROVE TypeOK'
    BY <2>6 DEF TypeOK, LockFailed, Fail, Goto
  <2>7. ASSUME NEW c \in Cors, NEW k \in Keys, LockParked(c, k) PROVE TypeOK'
    BY <2>7 DEF TypeOK, LockParked, Goto, store, sets
  <2>8. ASSUME NEW c \in Cors, NEW k \in Keys,
               LockRetried(c, k) \/ NotifyLater(c, k)
        PROVE  TypeOK'
    BY <2>8 DEF TypeOK, LockRetried, NotifyLater, vars
  <2>9. ASSUME NEW c \in Cors, NEW k \in Keys, CopyRecord(c, k) PROVE TypeOK'
    BY <2>9 DEF TypeOK, CopyRecord, Return, Goto, store
  <2>10. ASSUME NEW c \in Cors, NEW k \in Keys, NotifyGranted(c, k) PROVE TypeOK'
    BY <2>10, LockWordType DEF TypeOK, NotifyGranted, Return, Goto
  <2>11. ASSUME NEW c \in Cors, NEW k \in Keys, NotifyFailed(c, k) PROVE TypeOK'
    BY <2>11 DEF TypeOK, NotifyFailed, Fail, Goto
  <2>12. ASSUME NEW c \in Cors, NEW k \in Keys, ReleaseItem(c, k) PROVE TypeOK'
    BY <2>12 DEF TypeOK, ReleaseItem, Freed, sets
  <2>13. ASSUME NEW c \in Cors, NEW k \in Keys, WriteItem(c, k) PROVE TypeOK'
    BY <2>13 DEF TypeOK, WriteItem, sets
  <2>14. ASSUME NEW c \in Cors, NEW k \in Keys, UnlockItem(c, k) PROVE TypeOK'
    BY <2>14 DEF TypeOK, UnlockItem, sets
  <2>15. ASSUME NEW c \in Cors, ReleaseReadsDone(c) PROVE TypeOK'
    BY <2>15 DEF TypeOK, ReleaseReadsDone, Goto, store, sets
  <2>16. ASSUME NEW c \in Cors, End(c) PROVE TypeOK'
    BY <2>16, ConstantFacts DEF TypeOK, End, Goto
  <2>17. ASSUME NEW c \in Cors, Commit(c) PROVE TypeOK'
    <3>1. PICK new \in [wset[c] -> Values] :
            buf' = [buf EXCEPT ![c] =
                      [k \in Keys |-> IF k \in wset[c] THEN new[k] ELSE @[k]]]
      BY <2>17 DEF Commit
    <3>2. buf' \in [Cors -> [Keys -> Values]]
      BY <3>1 DEF TypeOK
    <3> QED
      BY <2>17, <3>2 DEF TypeOK, Commit, Goto, store, sets
  <2>18. ASSUME NEW c \in Cors, WriteBackDone(c) PROVE TypeOK'
    BY <2>18 DEF TypeOK, WriteBackDone, Goto, store, sets
  <2> QED
    BY <2>1, <2>2, <2>3, <2>4, <2>5, <2>6, <2>7, <2>8, <2>9, <2>10, <2>11,
       <2>12, <2>13, <2>14, <2>15, <2>16, <2>17, <2>18 DEF Next, Step
<1> QED
  BY <1>1, <1>2, PTL DEF Spec
-----------------------------------------------------------------------------
(* The strengthening: stamps and phases                                    *)
-----------------------------------------------------------------------------
(* What keeps LockOwnership inductive: words are never 0 (StampOK), and     *)
(* what a transaction still has to release follows from where it is        *)
(* (PhaseOK).                                                              *)

\* A step of one coroutine leaves the transaction of every other one alone.
LEMMA OthersUntouched ==
  ASSUME TypeOK, NEW c \in Cors, Begin(c) \/ Step(c), NEW d \in Cors, d # c
  PROVE  /\ pc'[d] = pc[d] /\ ts'[d] = ts[d]
         /\ rset'[d] = rset[d] /\ wset'[d] = wset[d] /\ last'[d] = last[d]
         /\ buf'[d] = buf[d] /\ pend'[d] = pend[d] /\ wrote'[d] = wrote[d]
<1> DEFINE Same == /\ pc'[d] = pc[d] /\ ts'[d] = ts[d]
                   /\ rset'[d] = rset[d] /\ wset'[d] = wset[d]
                   /\ last'[d] = last[d] /\ buf'[d] = buf[d]
                   /\ pend'[d] = pend[d] /\ wrote'[d] = wrote[d]
<1>1. CASE Begin(c)
  BY <1>1 DEF TypeOK, Begin, Goto
<1>2. ASSUME NEW k \in Keys, Read(c, k) PROVE Same
  BY <1>2 DEF TypeOK, Read, Append, Goto
<1>3. ASSUME NEW k \in Keys, Write(c, k) PROVE Same
  BY <1>3 DEF TypeOK, Write, Append, Goto
<1>4. ASSUME NEW k \in Keys, LockGranted(c, k) PROVE Same
  BY <1>4 DEF TypeOK, LockGranted, Return, Goto
<1>5. ASSUME NEW k \in Keys, LockFailed(c, k) PROVE Same
  BY <1>5 DEF TypeOK, LockFailed, Fail, Goto
<1>6. ASSUME NEW k \in Keys, LockParked(c, k) PROVE Same
  BY <1>6 DEF TypeOK, LockParked, Goto, store, sets
<1>7. ASSUME NEW k \in Keys, LockRetried(c, k) PROVE Same
  BY <1>7 DEF TypeOK, LockRetried, vars
<1>8. ASSUME NEW k \in Keys, CopyRecord(c, k) PROVE Same
  BY <1>8 DEF TypeOK, CopyRecord, Return, Goto, store
<1>9. ASSUME NEW k \in Keys, NotifyGranted(c, k) PROVE Same
  BY <1>9 DEF TypeOK, NotifyGranted, Return, Goto
<1>10. ASSUME NEW k \in Keys, NotifyFailed(c, k) PROVE Same
  BY <1>10 DEF TypeOK, NotifyFailed, Fail, Goto
<1>11. ASSUME NEW k \in Keys, NotifyLater(c, k) PROVE Same
  BY <1>11 DEF TypeOK, NotifyLater, vars
<1>12. ASSUME NEW k \in Keys, ReleaseItem(c, k) PROVE Same
  BY <1>12 DEF TypeOK, ReleaseItem, sets
<1>13. ASSUME NEW k \in Keys, WriteItem(c, k) PROVE Same
  BY <1>13 DEF TypeOK, WriteItem, sets
<1>14. ASSUME NEW k \in Keys, UnlockItem(c, k) PROVE Same
  BY <1>14 DEF TypeOK, UnlockItem, sets
<1>15. CASE ReleaseReadsDone(c)
  BY <1>15 DEF TypeOK, ReleaseReadsDone, Goto, store, sets
<1>16. CASE End(c)
  BY <1>16 DEF TypeOK, End, Goto
<1>17. CASE Commit(c)
  BY <1>17 DEF TypeOK, Commit, Goto, store, sets
<1>18. CASE WriteBackDone(c)
  BY <1>18 DEF TypeOK, WriteBackDone, Goto, store, sets
<1> QED
  BY <1>1, <1>2, <1>3, <1>4, <1>5, <1>6, <1>7, <1>8, <1>9,
     <1>10, <1>11, <1>12, <1>13, <1>14, <1>15, <1>16, <1>17, <1>18 DEF Step

\* begin() stamps the transaction, and nothing else touches its stamp.
LEMMA StampStep == TypeOK /\ StampOK /\ [Next]_vars => StampOK'
<1> SUFFICES ASSUME TypeOK, StampOK, [Next]_vars PROVE StampOK'
  OBVIOUS
<1>1. CASE UNCHANGED vars
  BY <1>1 DEF StampOK, vars
<1>2. ASSUME NEW c \in Cors, Begin(c) PROVE StampOK'
  BY <1>2 DEF StampOK, Begin, Goto, TypeOK
<1>3. ASSUME NEW c \in Cors, Step(c) PROVE StampOK'
  <2>1. ts' = ts
    BY <1>3 DEF Step, Read, Write, Append, LockGranted, LockFailed, LockParked,
       LockRetried, CopyRecord, NotifyGranted, NotifyFailed, NotifyLater, Fail,
       ReleaseItem, WriteItem, UnlockItem, ReleaseReadsDone, End, Commit,
       WriteBackDone, store, sets, vars
  <2>2. pc[c] # "idle"
    BY <1>3 DEF Step, Read, Write, Fresh, LockGranted, LockFailed, LockParked,
       LockRetried, CopyRecord, NotifyGranted, NotifyFailed, NotifyLater,
       ReleaseItem, WriteItem, UnlockItem, ReleaseReadsDone, End, Commit,
       WriteBackDone
  <2>3. \A d \in Cors : d # c => pc'[d] = pc[d]
    BY <1>3, OthersUntouched
  <2> QED
    BY <2>1, <2>2, <2>3 DEF StampOK
<1> QED
  BY <1>1, <1>2, <1>3 DEF Next

\* The lease of a running transaction holds the id of its coroutine.
LEMMA LeaseHoldsId ==
  ASSUME TypeOK, StampOK, NEW c \in Cors, pc[c] # "idle"
  PROVE  HoldsId(R_LEASE(ts[c]), Id[c])
<1>1. PICK t \in Clocks : ts[c] = t * 1024 + Id[c]
  BY DEF StampOK
<1> DEFINE s == ts[c]
           i == Id[c]
<1>2. s \in Nat /\ t \in Nat /\ i \in 1 .. 1023 /\ s = t * 1024 + i
  BY <1>1, ConstantFacts DEF TypeOK
<1>3. HoldsId(R_LEASE(s), i)
  <2> HIDE DEF s, i
  <2> QED
    BY SMTT(20), <1>2, LeaseKeepsId
<1> QED
  BY <1>3

\* The word a running transaction installs is a number other than 0.
LEMMA LockWordNotFree ==
  ASSUME TypeOK, StampOK, NEW c \in Cors, pc[c] # "idle", NEW k \in Keys
  PROVE  LockWord(c, k) \in Nat /\ LockWord(c, k) # 0
<1> DEFINE i == Id[c]
           w == R_LEASE(ts[c])
           a == IF k \in wset[c] THEN 1 ELSE 0
<1>1. i \in 1 .. 1023
  BY ConstantFacts
<1>2. a \in {0, 1} /\ LockWord(c, k) = w + a
  BY DEF LockWord
<1>3. HoldsId(w, i)
  BY LeaseHoldsId
<1> HIDE DEF a, i, w
<1>4. w \in Nat /\ w # 0
  BY ZenonT(40), <1>1, <1>3, WordNotFree
<1> QED
  BY SMT, <1>2, <1>4

\* Every operation takes a transaction from one phase to the next in order.
LEMMA PhaseStep == TypeOK /\ PhaseOK /\ [Next]_vars => PhaseOK'
<1> SUFFICES ASSUME TypeOK, PhaseOK, [Next]_vars PROVE PhaseOK'
  OBVIOUS
<1>1. CASE UNCHANGED vars
  BY <1>1 DEF PhaseOK, PhaseOf, Active, vars
<1>2. ASSUME NEW c \in Cors, Begin(c) \/ Step(c) PROVE PhaseOK'
  <2> USE DEF PhaseOf, Active, TypeOK
  <2>0. PhaseOf(c)
    BY DEF PhaseOK
  <2>1. ASSUME Begin(c) PROVE PhaseOf(c)'
    BY <2>0, <2>1 DEF Begin, Goto
  <2>2. ASSUME NEW k \in Keys, Read(c, k) PROVE PhaseOf(c)'
    BY <2>0, <2>2 DEF Read, Append, Goto, Fresh
  <2>3. ASSUME NEW k \in Keys, Write(c, k) PROVE PhaseOf(c)'
    BY <2>0, <2>3 DEF Write, Append, Goto, Fresh
  <2>4. ASSUME NEW k \in Keys, LockGranted(c, k) PROVE PhaseOf(c)'
    BY <2>0, <2>4 DEF LockGranted, Return, Goto
  <2>5. ASSUME NEW k \in Keys, LockFailed(c, k) PROVE PhaseOf(c)'
    BY <2>0, <2>5 DEF LockFailed, Fail, Goto
  <2>6. ASSUME NEW k \in Keys, LockParked(c, k) PROVE PhaseOf(c)'
    BY <2>0, <2>6 DEF LockParked, Goto, store, sets, MustWait
  <2>7. ASSUME NEW k \in Keys, LockRetried(c, k) PROVE PhaseOf(c)'
    BY <2>0, <2>7 DEF LockRetried, vars
  <2>8. ASSUME NEW k \in Keys, CopyRecord(c, k) PROVE PhaseOf(c)'
    BY <2>0, <2>8 DEF CopyRecord, Return, Goto, store
  <2>9. ASSUME NEW k \in Keys, NotifyGranted(c, k) PROVE PhaseOf(c)'
    BY <2>0, <2>9 DEF NotifyGranted, Return, Goto
  <2>10. ASSUME NEW k \in Keys, NotifyFailed(c, k) PROVE PhaseOf(c)'
    BY <2>0, <2>10 DEF NotifyFailed, Fail, Goto
  <2>11. ASSUME NEW k \in Keys, NotifyLater(c, k) PROVE PhaseOf(c)'
    BY <2>0, <2>11 DEF NotifyLater, vars
  <2>12. ASSUME NEW k \in Keys, ReleaseItem(c, k) PROVE PhaseOf(c)'
    BY <2>0, <2>12 DEF ReleaseItem, sets
  <2>13. ASSUME NEW k \in Keys, WriteItem(c, k) PROVE PhaseOf(c)'
    BY <2>0, <2>13 DEF WriteItem, sets
  <2>14. ASSUME NEW k \in Keys, UnlockItem(c, k) PROVE PhaseOf(c)'
    BY <2>0, <2>14 DEF UnlockItem, sets
  <2>15. ASSUME ReleaseReadsDone(c) PROVE PhaseOf(c)'
    BY <2>0, <2>15 DEF ReleaseReadsDone, Goto, store, sets
  <2>16. ASSUME End(c) PROVE PhaseOf(c)'
    BY <2>0, <2>16 DEF End, Goto
  <2>17. ASSUME Commit(c) PROVE PhaseOf(c)'
    BY <2>0, <2>17 DEF Commit, Goto, store, sets
  <2>18. ASSUME WriteBackDone(c) PROVE PhaseOf(c)'
    BY <2>0, <2>18 DEF WriteBackDone, Goto, store, sets
  <2>19. PhaseOf(c)'
    BY <1>2, <2>1, <2>2, <2>3, <2>4, <2>5, <2>6, <2>7, <2>8,
       <2>9, <2>10, <2>11, <2>12, <2>13, <2>14, <2>15, <2>16, <2>17, <2>18 DEF Step
  <2>20. ASSUME NEW d \in Cors, d # c PROVE PhaseOf(d)'
    <3>1. PhaseOf(d)
      BY DEF PhaseOK
    <3> QED
      BY <1>2, <2>20, <3>1, OthersUntouched
  <2> QED
    BY <2>19, <2>20 DEF PhaseOK
<1> QED
  BY <1>1, <1>2 DEF Next
-----------------------------------------------------------------------------
(* Lock ownership                                                          *)
-----------------------------------------------------------------------------
\* What a coroutine holds depends on its own transaction alone.
LEMMA OthersHeld ==
  ASSUME TypeOK, NEW c \in Cors, Begin(c) \/ Step(c), NEW d \in Cors, d # c
  PROVE  Held(d)' = Held(d) /\ \A k \in Keys : LockWord(d, k)' = LockWord(d, k)
<1>1. /\ pc'[d] = pc[d] /\ ts'[d] = ts[d] /\ rset'[d] = rset[d]
      /\ wset'[d] = wset[d] /\ last'[d] = last[d] /\ pend'[d] = pend[d]
  BY OthersUntouched
<1>2. Held(d)' = Held(d)
  BY <1>1 DEF Held, Locked
<1>3. \A k \in Keys : LockWord(d, k)' = LockWord(d, k)
  BY <1>1 DEF LockWord, R_LEASE
<1> QED
  BY <1>2, <1>3

\* A step that takes and gives no lock keeps ownership.
LEMMA OwnershipKept ==
  ASSUME LockOwnership, lock' = lock,
         \A d \in Cors : Held(d)' = Held(d),
         \A d \in Cors : \A k \in Held(d) : LockWord(d, k)' = LockWord(d, k)
  PROVE  LockOwnership'
BY DEF LockOwnership

\* A step that takes one free lock keeps ownership.
LEMMA OwnershipTaken ==
  ASSUME TypeOK, LockOwnership, NEW c \in Cors, NEW k \in Keys,
         lock[k] = 0, lock' = [lock EXCEPT ![k] = LockWord(c, k)],
         LockWord(c, k) # 0,
         Held(c)' = Held(c) \cup {k},
         \A d \in Cors \ {c} : Held(d)' = Held(d),
         \A d \in Cors : \A j \in Keys : LockWord(d, j)' = LockWord(d, j)
  PROVE  LockOwnership'
<1>1. \A d \in Cors : k \notin Held(d)
  BY DEF LockOwnership
<1>2. lock'[k] = LockWord(c, k) /\ \A j \in Keys \ {k} : lock'[j] = lock[j]
  BY DEF TypeOK
<1>3. ASSUME NEW j \in Keys, j # k
      PROVE  \A d \in Cors : j \in Held(d)' <=> j \in Held(d)
  BY <1>3
<1>4. \A d \in Cors : k \in Held(d)' => d = c
  BY <1>1
<1> QED
  BY <1>2, <1>3, <1>4 DEF LockOwnership

\* A step that frees one lock its transaction holds keeps ownership.
LEMMA OwnershipGiven ==
  ASSUME TypeOK, LockOwnership, NEW c \in Cors, NEW k \in Keys,
         k \in Held(c), lock' = [lock EXCEPT ![k] = 0],
         Held(c)' = Held(c) \ {k},
         \A d \in Cors \ {c} : Held(d)' = Held(d),
         \A d \in Cors : \A j \in Keys : LockWord(d, j)' = LockWord(d, j)
  PROVE  LockOwnership'
<1>1. \A d \in Cors : k \in Held(d) => d = c
  BY DEF LockOwnership
<1>2. lock'[k] = 0 /\ \A j \in Keys \ {k} : lock'[j] = lock[j]
  BY DEF TypeOK
<1>3. ASSUME NEW j \in Keys, j # k
      PROVE  \A d \in Cors : j \in Held(d)' <=> j \in Held(d)
  BY <1>3
<1>4. \A d \in Cors : k \notin Held(d)'
  BY <1>1
<1> QED
  BY <1>2, <1>3, <1>4 DEF LockOwnership

\* No operation disturbs the ownership of lock words.
LEMMA OwnershipStep ==
  TypeOK /\ StampOK /\ PhaseOK /\ LockOwnership /\ [Next]_vars => LockOwnership'
<1> SUFFICES ASSUME TypeOK, StampOK, PhaseOK, LockOwnership, [Next]_vars
             PROVE  LockOwnership'
  OBVIOUS
<1>1. CASE UNCHANGED vars
  BY <1>1 DEF LockOwnership, Held, Locked, LockWord, R_LEASE, vars
<1>2. ASSUME NEW c \in Cors, Begin(c) \/ Step(c) PROVE LockOwnership'
  <2>1. PhaseOf(c)
    BY DEF PhaseOK
  <2>2. \A d \in Cors : d # c =>
          /\ Held(d)' = Held(d)
          /\ \A k \in Keys : LockWord(d, k)' = LockWord(d, k)
    BY <1>2, OthersHeld
  <2>3. ASSUME lock' = lock, Held(c)' = Held(c),
               \A k \in Held(c) : LockWord(c, k)' = LockWord(c, k)
        PROVE  LockOwnership'
    <3>1. \A d \in Cors : Held(d)' = Held(d)
      BY <2>2, <2>3
    <3>2. \A d \in Cors : \A k \in Held(d) : LockWord(d, k)' = LockWord(d, k)
      BY <2>2, <2>3 DEF Held
    <3> QED
      BY <2>3, <3>1, <3>2, OwnershipKept
  <2>4. CASE Begin(c)
    <3>1. Held(c) = {} /\ Held(c)' = {} /\ lock' = lock
      BY <2>1, <2>4 DEF Held, Locked, Begin, Goto, PhaseOf, Active, TypeOK
    <3> QED
      BY <2>3, <3>1
  <2>5. ASSUME NEW k \in Keys, Read(c, k) PROVE LockOwnership'
    <3>1. Held(c)' = Held(c)
      BY <2>1, <2>5 DEF Held, Locked, Read, Append, Goto, Fresh, PhaseOf, Active, TypeOK
    <3>2. lock' = lock /\ \A j \in Held(c) : LockWord(c, j)' = LockWord(c, j)
      BY <2>1, <2>5 DEF Held, Locked, LockWord, R_LEASE, Read, Append, Goto, Fresh, PhaseOf,
         Active, TypeOK
    <3> QED
      BY <2>3, <3>1, <3>2
  <2>6. ASSUME NEW k \in Keys, Write(c, k) PROVE LockOwnership'
    <3>1. Held(c)' = Held(c)
      BY <2>1, <2>6 DEF Held, Locked, Write, Append, Goto, Fresh, PhaseOf, Active, TypeOK
    <3>2. lock' = lock /\ \A j \in Held(c) : LockWord(c, j)' = LockWord(c, j)
      BY <2>1, <2>6 DEF Held, Locked, LockWord, R_LEASE, Write, Append, Goto, Fresh, PhaseOf,
         Active, TypeOK
    <3> QED
      BY <2>3, <3>1, <3>2
  <2>7. ASSUME NEW k \in Keys, LockFailed(c, k) PROVE LockOwnership'
    <3>1. Held(c)' = Held(c)
      BY <2>1, <2>7 DEF Held, Locked, LockFailed, Fail, Goto, PhaseOf, Active, TypeOK
    <3>2. lock' = lock /\ \A j \in Held(c) : LockWord(c, j)' = LockWord(c, j)
      BY <2>1, <2>7 DEF Held, Locked, LockWord, R_LEASE, LockFailed, Fail, Goto, PhaseOf,
         Active, TypeOK
    <3> QED
      BY <2>3, <3>1, <3>2
  <2>8. ASSUME NEW k \in Keys, LockParked(c, k) PROVE LockOwnership'
    <3>1. Held(c)' = Held(c)
      BY <2>1, <2>8 DEF Held, Locked, LockParked, Goto, store, sets, PhaseOf, Active, TypeOK
    <3>2. lock' = lock /\ \A j \in Held(c) : LockWord(c, j)' = LockWord(c, j)
      BY <2>1, <2>8 DEF Held, Locked, LockWord, R_LEASE, LockParked, Goto, store, sets, PhaseOf,
         Active, TypeOK
    <3> QED
      BY <2>3, <3>1, <3>2
  <2>9. ASSUME NEW k \in Keys, LockRetried(c, k) PROVE LockOwnership'
    <3>1. Held(c)' = Held(c)
      BY <2>1, <2>9 DEF Held, Locked, LockRetried, vars, PhaseOf, Active, TypeOK
    <3>2. lock' = lock /\ \A j \in Held(c) : LockWord(c, j)' = LockWord(c, j)
      BY <2>1, <2>9 DEF Held, Locked, LockWord, R_LEASE, LockRetried, vars, PhaseOf,
         Active, TypeOK
    <3> QED
      BY <2>3, <3>1, <3>2
  <2>10. ASSUME NEW k \in Keys, CopyRecord(c, k) PROVE LockOwnership'
    <3>1. Held(c)' = Held(c)
      BY <2>1, <2>10 DEF Held, Locked, CopyRecord, Return, Goto, store, PhaseOf, Active, TypeOK
    <3>2. lock' = lock /\ \A j \in Held(c) : LockWord(c, j)' = LockWord(c, j)
      BY <2>1, <2>10 DEF Held, Locked, LockWord, R_LEASE, CopyRecord, Return, Goto, store, PhaseOf,
         Active, TypeOK
    <3> QED
      BY <2>3, <3>1, <3>2
  <2>11. ASSUME NEW k \in Keys, NotifyFailed(c, k) PROVE LockOwnership'
    <3>1. Held(c)' = Held(c)
      BY <2>1, <2>11 DEF Held, Locked, NotifyFailed, Fail, Goto, PhaseOf, Active, TypeOK
    <3>2. lock' = lock /\ \A j \in Held(c) : LockWord(c, j)' = LockWord(c, j)
      BY <2>1, <2>11 DEF Held, Locked, LockWord, R_LEASE, NotifyFailed, Fail, Goto, PhaseOf,
         Active, TypeOK
    <3> QED
      BY <2>3, <3>1, <3>2
  <2>12. ASSUME NEW k \in Keys, NotifyLater(c, k) PROVE LockOwnership'
    <3>1. Held(c)' = Held(c)
      BY <2>1, <2>12 DEF Held, Locked, NotifyLater, vars, PhaseOf, Active, TypeOK
    <3>2. lock' = lock /\ \A j \in Held(c) : LockWord(c, j)' = LockWord(c, j)
      BY <2>1, <2>12 DEF Held, Locked, LockWord, R_LEASE, NotifyLater, vars, PhaseOf,
         Active, TypeOK
    <3> QED
      BY <2>3, <3>1, <3>2
  <2>13. ASSUME NEW k \in Keys, WriteItem(c, k) PROVE LockOwnership'
    <3>1. Held(c)' = Held(c)
      BY <2>1, <2>13 DEF Held, Locked, WriteItem, sets, PhaseOf, Active, TypeOK
    <3>2. lock' = lock /\ \A j \in Held(c) : LockWord(c, j)' = LockWord(c, j)
      BY <2>1, <2>13 DEF Held, Locked, LockWord, R_LEASE, WriteItem, sets, PhaseOf,
         Active, TypeOK
    <3> QED
      BY <2>3, <3>1, <3>2
  <2>14. ASSUME ReleaseReadsDone(c) PROVE LockOwnership'
    <3>1. Held(c)' = Held(c)
      BY <2>1, <2>14 DEF Held, Locked, ReleaseReadsDone, Goto, store, sets, PhaseOf, Active, TypeOK
    <3>2. lock' = lock /\ \A j \in Held(c) : LockWord(c, j)' = LockWord(c, j)
      BY <2>1, <2>14 DEF Held, Locked, LockWord, R_LEASE, ReleaseReadsDone, Goto, store, sets, PhaseOf,
         Active, TypeOK
    <3> QED
      BY <2>3, <3>1, <3>2
  <2>15. ASSUME End(c) PROVE LockOwnership'
    <3>1. Held(c)' = Held(c)
      BY <2>1, <2>15 DEF Held, Locked, End, Goto, PhaseOf, Active, TypeOK
    <3>2. lock' = lock /\ \A j \in Held(c) : LockWord(c, j)' = LockWord(c, j)
      BY <2>1, <2>15 DEF Held, Locked, LockWord, R_LEASE, End, Goto, PhaseOf,
         Active, TypeOK
    <3> QED
      BY <2>3, <3>1, <3>2
  <2>16. ASSUME Commit(c) PROVE LockOwnership'
    <3>1. Held(c)' = Held(c)
      BY <2>1, <2>16 DEF Held, Locked, Commit, Goto, store, sets, PhaseOf, Active, TypeOK
    <3>2. lock' = lock /\ \A j \in Held(c) : LockWord(c, j)' = LockWord(c, j)
      BY <2>1, <2>16 DEF Held, Locked, LockWord, R_LEASE, Commit, Goto, store, sets, PhaseOf,
         Active, TypeOK
    <3> QED
      BY <2>3, <3>1, <3>2
  <2>17. ASSUME WriteBackDone(c) PROVE LockOwnership'
    <3>1. Held(c)' = Held(c)
      BY <2>1, <2>17 DEF Held, Locked, WriteBackDone, Goto, store, sets, PhaseOf, Active, TypeOK
    <3>2. lock' = lock /\ \A j \in Held(c) : LockWord(c, j)' = LockWord(c, j)
      BY <2>1, <2>17 DEF Held, Locked, LockWord, R_LEASE, WriteBackDone, Goto, store, sets, PhaseOf,
         Active, TypeOK
    <3> QED
      BY <2>3, <3>1, <3>2
  <2>18. ASSUME NEW k \in Keys, LockGranted(c, k) PROVE LockOwnership'
    <3>1. Held(c)' = Held(c) \cup {k}
      BY <2>1, <2>18 DEF Held, Locked, LockGranted, Return, Goto, PhaseOf, Active, TypeOK
    <3>2. \A j \in Keys : LockWord(c, j)' = LockWord(c, j)
      BY <2>18 DEF LockWord, R_LEASE, LockGranted
    <3>3. LockWord(c, k) # 0
      BY <2>18, LockWordNotFree DEF LockGranted
    <3>4. lock[k] = 0 /\ lock' = [lock EXCEPT ![k] = LockWord(c, k)]
      BY <2>18 DEF LockGranted
    <3> QED
      BY <2>2, <3>1, <3>2, <3>3, <3>4, OwnershipTaken
  <2>19. ASSUME NEW k \in Keys, NotifyGranted(c, k) PROVE LockOwnership'
    <3>1. Held(c)' = Held(c) \cup {k}
      BY <2>1, <2>19 DEF Held, Locked, NotifyGranted, Return, Goto, PhaseOf, Active, TypeOK
    <3>2. \A j \in Keys : LockWord(c, j)' = LockWord(c, j)
      BY <2>19 DEF LockWord, R_LEASE, NotifyGranted
    <3>3. LockWord(c, k) # 0
      BY <2>19, LockWordNotFree DEF NotifyGranted
    <3>4. lock[k] = 0 /\ lock' = [lock EXCEPT ![k] = LockWord(c, k)]
      BY <2>19 DEF NotifyGranted
    <3> QED
      BY <2>2, <3>1, <3>2, <3>3, <3>4, OwnershipTaken
  <2>20. ASSUME NEW k \in Keys, ReleaseItem(c, k) PROVE LockOwnership'
    <3>1. k \in Held(c) /\ Held(c)' = Held(c) \ {k}
      BY <2>1, <2>20 DEF Held, Locked, ReleaseItem, sets, PhaseOf, Active, TypeOK
    <3>2. \A j \in Keys : LockWord(c, j)' = LockWord(c, j)
      BY <2>20 DEF LockWord, R_LEASE, ReleaseItem, sets
    <3>3. lock' = [lock EXCEPT ![k] = 0]
      <4>1. lock[k] = LockWord(c, k)
        BY <3>1 DEF LockOwnership
      <4> QED
        BY <2>20, <4>1 DEF ReleaseItem, Freed
    <3> QED
      BY <2>2, <3>1, <3>2, <3>3, OwnershipGiven
  <2>21. ASSUME NEW k \in Keys, UnlockItem(c, k) PROVE LockOwnership'
    <3>1. k \in Held(c) /\ Held(c)' = Held(c) \ {k}
      BY <2>1, <2>21 DEF Held, Locked, UnlockItem, sets, PhaseOf, Active, TypeOK
    <3>2. \A j \in Keys : LockWord(c, j)' = LockWord(c, j)
      BY <2>21 DEF LockWord, R_LEASE, UnlockItem, sets
    <3>3. lock' = [lock EXCEPT ![k] = 0]
      BY <2>21 DEF UnlockItem
    <3> QED
      BY <2>2, <3>1, <3>2, <3>3, OwnershipGiven
  <2> QED
    BY <1>2, <2>4, <2>5, <2>6, <2>7, <2>8, <2>9, <2>10, <2>11,
       <2>12, <2>13, <2>14, <2>15, <2>16, <2>17, <2>18, <2>19, <2>20, <2>21 DEF Step
<1> QED
  BY <1>1, <1>2 DEF Next

\* The inductive invariant.
Base == TypeOK /\ StampOK /\ PhaseOK /\ LockOwnership

\* It holds initially and every step keeps it.
LEMMA BaseInvariant == Spec => []Base
<1>1. Init => StampOK /\ PhaseOK /\ LockOwnership
  BY DEF Init, StampOK, PhaseOK, PhaseOf, Active, LockOwnership, Held, Locked
<1>2. TypeOK /\ StampOK /\ PhaseOK /\ LockOwnership /\ [Next]_vars
        => StampOK' /\ PhaseOK' /\ LockOwnership'
  BY StampStep, PhaseStep, OwnershipStep
<1> QED
  BY <1>1, <1>2, TypeCorrect, PTL DEF Spec, Base

\* NOWAIT and WAITDIE, over RPC and over one-sided verbs, with or without
\* local records, keep every lock word owned by exactly the transaction whose
\* word it is, for any number of coroutines and records.
THEOREM LocksOwned == Spec => []LockOwnership
BY BaseInvariant, PTL DEF Base
-----------------------------------------------------------------------------
(* The lock protocol implements the serial store: NOWAIT over RPC and both *)
(* protocols over one-sided verbs are strictly serializable as long as     *)
(* every record is accessed remotely.  (The excluded cases are the two in  *)
(* which the code hands out contents it did not read under the lock.)      *)
-----------------------------------------------------------------------------
\* Every grant of a lock is followed by a read of the record.
Exact == Local = {} /\ (WaitDie => OneSided)

\* A write-back only touches a record its own transaction holds.
LEMMA WriterHolds ==
  ASSUME Base, NEW c \in Cors, NEW k \in Keys, WriteItem(c, k)
  PROVE  k \in Held(c) /\ \A d \in Cors : k \in Held(d) => d = c
BY DEF Base, TypeOK, PhaseOK, PhaseOf, Held, WriteItem, LockOwnership

\* What an active transaction has been handed it holds.
LEMMA LockedHeld ==
  ASSUME Base, NEW c \in Cors, Active(c)
  PROVE  Locked(c) \subseteq Held(c)
BY DEF Base, TypeOK, Active, Locked, Held

\* No step of another coroutine changes a record under a transaction's lock.
LEMMA ReadsStep ==
  ASSUME Exact
  PROVE  Base /\ LockedReadsCurrent /\ [Next]_vars => LockedReadsCurrent'
<1> SUFFICES ASSUME Base, LockedReadsCurrent, [Next]_vars
             PROVE  LockedReadsCurrent'
  OBVIOUS
<1>1. CASE UNCHANGED vars
  BY <1>1 DEF LockedReadsCurrent, Active, Locked, vars
<1>2. ASSUME NEW c \in Cors, Begin(c) \/ Step(c) PROVE LockedReadsCurrent'
  <2>1. TypeOK /\ PhaseOf(c)
    BY DEF Base, PhaseOK
  <2>2. ASSUME NEW d \in Cors, d # c, Active(d)', NEW j \in Locked(d)'
        PROVE  buf'[d][j] = value'[j]
    <3>1. /\ Active(d) /\ j \in Locked(d) /\ buf'[d] = buf[d]
      BY <1>2, <2>1, <2>2, OthersUntouched DEF Active, Locked
    <3>2. buf[d][j] = value[j]
      BY <3>1 DEF LockedReadsCurrent
    <3>3. j \in Held(d) /\ j \in Keys
      BY <3>1, LockedHeld DEF Held
    <3>4. value'[j] = value[j]
      <4>1. CASE \E k \in Keys : WriteItem(c, k)
        <5>1. PICK k \in Keys : WriteItem(c, k)
          BY <4>1
        <5>2. j # k
          BY <5>1, <3>3, <2>2, WriterHolds
        <5> QED
          BY <5>1, <5>2, <2>1 DEF WriteItem, TypeOK
      <4>2. CASE ~\E k \in Keys : WriteItem(c, k)
        <5>1. value' = value
          BY <1>2, <4>2, ZenonT(40) DEF Begin, Step, Read, Write, Append, LockGranted,
             LockFailed, LockParked, LockRetried, CopyRecord, NotifyGranted,
             NotifyFailed, NotifyLater, Fail, ReleaseItem, UnlockItem,
             ReleaseReadsDone, End, Commit, WriteBackDone, store, sets, vars
        <5> QED
          BY <5>1
      <4> QED
        BY <4>1, <4>2
    <3> QED
      BY <3>1, <3>2, <3>4
  <2>3. ASSUME Active(c)', NEW j \in Locked(c)' PROVE buf'[c][j] = value'[j]
    <3> USE <2>1, <2>3 DEF PhaseOf, TypeOK, Active, Locked, LockedReadsCurrent
    <3>1. ASSUME Begin(c) PROVE buf'[c][j] = value'[j]
      BY <3>1 DEF Begin, Goto
    <3>2. ASSUME NEW k \in Keys, Read(c, k) PROVE buf'[c][j] = value'[j]
      BY <3>2 DEF Read, Append, Goto, Fresh, Exact
    <3>3. ASSUME NEW k \in Keys, Write(c, k) PROVE buf'[c][j] = value'[j]
      BY <3>3 DEF Write, Append, Goto, Fresh, Exact
    <3>4. ASSUME NEW k \in Keys, LockGranted(c, k) PROVE buf'[c][j] = value'[j]
      BY <3>4 DEF LockGranted, Return, Goto, Exact
    <3>5. ASSUME NEW k \in Keys, LockFailed(c, k) PROVE buf'[c][j] = value'[j]
      BY <3>5 DEF LockFailed, Fail, Goto
    <3>6. ASSUME NEW k \in Keys, LockParked(c, k) PROVE buf'[c][j] = value'[j]
      BY <3>6 DEF LockParked, Goto, store, sets
    <3>7. ASSUME NEW k \in Keys, LockRetried(c, k) PROVE buf'[c][j] = value'[j]
      BY <3>7 DEF LockRetried, vars
    <3>8. ASSUME NEW k \in Keys, CopyRecord(c, k) PROVE buf'[c][j] = value'[j]
      BY <3>8 DEF CopyRecord, Return, Goto, store
    <3>9. ASSUME NEW k \in Keys, NotifyGranted(c, k) PROVE buf'[c][j] = value'[j]
      BY <3>9 DEF NotifyGranted, Return, Goto, Exact
    <3>10. ASSUME NEW k \in Keys, NotifyFailed(c, k) PROVE buf'[c][j] = value'[j]
      BY <3>10 DEF NotifyFailed, Fail, Goto
    <3>11. ASSUME NEW k \in Keys, NotifyLater(c, k) PROVE buf'[c][j] = value'[j]
      BY <3>11 DEF NotifyLater, vars
    <3>12. ASSUME NEW k \in Keys, ReleaseItem(c, k) PROVE buf'[c][j] = value'[j]
      BY <3>12 DEF ReleaseItem, sets
    <3>13. ASSUME NEW k \in Keys, WriteItem(c, k) PROVE buf'[c][j] = value'[j]
      BY <3>13 DEF WriteItem, sets
    <3>14. ASSUME NEW k \in Keys, UnlockItem(c, k) PROVE buf'[c][j] = value'[j]
      BY <3>14 DEF UnlockItem, sets
    <3>15. ASSUME ReleaseReadsDone(c) PROVE buf'[c][j] = value'[j]
      BY <3>15 DEF ReleaseReadsDone, Goto, store, sets
    <3>16. ASSUME End(c) PROVE buf'[c][j] = value'[j]
      BY <3>16 DEF End, Goto
    <3>17. ASSUME Commit(c) PROVE buf'[c][j] = value'[j]
      BY <3>17 DEF Commit, Goto, store, sets
    <3>18. ASSUME WriteBackDone(c) PROVE buf'[c][j] = value'[j]
      BY <3>18 DEF WriteBackDone, Goto, store, sets
    <3> QED
      BY <1>2, <3>1, <3>2, <3>3, <3>4, <3>5, <3>6, <3>7, <3>8,
         <3>9, <3>10, <3>11, <3>12, <3>13, <3>14, <3>15, <3>16, <3>17, <3>18 DEF Step
  <2> QED
    BY <2>2, <2>3 DEF LockedReadsCurrent
<1> QED
  BY <1>1, <1>2 DEF Next

\* What a read or write call hands out stays the contents of the record for
\* as long as the transaction runs (nowait_rdma.h:444), provided the lock is
\* never granted without a read of the record behind it.
THEOREM ReadsCurrent ==
  ASSUME Exact
  PROVE  Spec => []LockedReadsCurrent
<1>1. Init => LockedReadsCurrent
  BY DEF Init, LockedReadsCurrent, Active
<1>2. Base /\ LockedReadsCurrent /\ [Next]_vars => LockedReadsCurrent'
  BY ReadsStep
<1> QED
  BY <1>1, <1>2, BaseInvariant, PTL DEF Spec
-----------------------------------------------------------------------------
(* The refinement                                                          *)
-----------------------------------------------------------------------------
\* A record to be written back has its new contents in the abstract store,
\* every other record the contents it has.
StoreFacts ==
  /\ \A c \in Cors : \A k \in Pending(c) : AbsStore[k] = buf[c][k]
  /\ \A k \in Keys : (\A c \in Cors : k \notin Pending(c)) => AbsStore[k] = value[k]

\* A record to be written back is held by the transaction that writes it.
LEMMA PendingHeld == Base => \A c \in Cors : Pending(c) \subseteq Held(c)
BY DEF Base, TypeOK, PhaseOK, PhaseOf, Pending, Held

\* The choice in AbsStore is determined: one transaction at most has the
\* record still to write.
LEMMA StoreMapped == Base => StoreFacts
<1> SUFFICES ASSUME Base PROVE StoreFacts
  OBVIOUS
<1>1. ASSUME NEW c \in Cors, NEW k \in Pending(c) PROVE AbsStore[k] = buf[c][k]
  <2>1. k \in Keys /\ k \in Held(c)
    BY <1>1, PendingHeld DEF Held
  <2>2. \A d \in Cors : k \in Pending(d) => d = c
    BY <2>1, PendingHeld DEF Base, LockOwnership
  <2>3. (CHOOSE d \in Cors : k \in Pending(d)) = c
    BY <1>1, <2>2
  <2> QED
    BY <1>1, <2>1, <2>3 DEF AbsStore
<1>2. ASSUME NEW k \in Keys, \A c \in Cors : k \notin Pending(c)
      PROVE  AbsStore[k] = value[k]
  BY <1>2 DEF AbsStore
<1> QED
  BY <1>1, <1>2 DEF StoreFacts

\* A step that leaves the write-backs and the records alone leaves the
\* abstract store alone.
LEMMA StoreKept ==
  ASSUME StoreFacts, StoreFacts', value' = value,
         \A d \in Cors : Pending(d)' = Pending(d),
         \A d \in Cors : \A k \in Pending(d) : buf'[d][k] = buf[d][k]
  PROVE  AbsStore' = AbsStore
<1>1. \A k \in Keys : AbsStore'[k] = AbsStore[k]
  BY DEF StoreFacts
<1>2. /\ AbsStore = [k \in Keys |-> AbsStore[k]]
      /\ AbsStore' = [k \in Keys |-> AbsStore'[k]]
  BY DEF AbsStore
<1> QED
  BY <1>1, <1>2

\* What c has seen and where it stands, in the serial store's terms.
SeenBy(c) == [k \in (IF Active(c) THEN Locked(c) ELSE {}) |-> buf[c][k]]
StatusOf(c) ==
  IF Active(c) THEN "active"
  ELSE IF pc[c] \in {"relr", "relw"} THEN "aborted"
  ELSE IF pc[c] \in {"wb", "relc"} THEN "committed"
  ELSE "idle"

\* The mapping, transaction by transaction.
LEMMA MapByTxn ==
  /\ AbsSeen = [c \in Cors |-> SeenBy(c)]
  /\ AbsStatus = [c \in Cors |-> StatusOf(c)]
BY DEF AbsSeen, AbsStatus, SeenBy, StatusOf

\* A step of c changes the abstract state of c only, and nobody else's
\* write-back.
LEMMA OnlyOwnTxn ==
  ASSUME TypeOK, NEW c \in Cors, Begin(c) \/ Step(c)
  PROVE  /\ \A d \in Cors \ {c} : SeenBy(d)' = SeenBy(d)
         /\ \A d \in Cors \ {c} : StatusOf(d)' = StatusOf(d)
         /\ \A d \in Cors \ {c} : Pending(d)' = Pending(d)
         /\ \A d \in Cors \ {c} : buf'[d] = buf[d]
<1> SUFFICES ASSUME NEW d \in Cors, d # c
             PROVE  /\ SeenBy(d)' = SeenBy(d) /\ StatusOf(d)' = StatusOf(d)
                    /\ Pending(d)' = Pending(d) /\ buf'[d] = buf[d]
  OBVIOUS
<1>1. /\ pc'[d] = pc[d] /\ rset'[d] = rset[d] /\ wset'[d] = wset[d]
      /\ last'[d] = last[d] /\ buf'[d] = buf[d]
      /\ pend'[d] = pend[d] /\ wrote'[d] = wrote[d]
  BY OthersUntouched
<1> QED
  BY <1>1 DEF SeenBy, StatusOf, Pending, Active, Locked

\* So the abstract step is known from what happens to c.
LEMMA AbsStep ==
  ASSUME TypeOK, NEW c \in Cors, Begin(c) \/ Step(c),
         NEW sn, NEW st, SeenBy(c)' = sn, StatusOf(c)' = st
  PROVE  /\ AbsSeen' = [AbsSeen EXCEPT ![c] = sn]
         /\ AbsStatus' = [AbsStatus EXCEPT ![c] = st]
         /\ AbsSeen[c] = SeenBy(c) /\ AbsStatus[c] = StatusOf(c)
<1>1. /\ AbsSeen = [d \in Cors |-> SeenBy(d)]
      /\ AbsStatus = [d \in Cors |-> StatusOf(d)]
  BY MapByTxn
<1>2. /\ AbsSeen' = [d \in Cors |-> SeenBy(d)']
      /\ AbsStatus' = [d \in Cors |-> StatusOf(d)']
  BY DEF AbsSeen, AbsStatus, SeenBy, StatusOf
<1>3. /\ \A d \in Cors \ {c} : SeenBy(d)' = SeenBy(d)
      /\ \A d \in Cors \ {c} : StatusOf(d)' = StatusOf(d)
  BY OnlyOwnTxn
<1> QED
  BY <1>1, <1>2, <1>3

\* A step of c that is not a Commit or a WriteItem leaves the abstract store
\* alone, if it leaves c's own write-back alone.
LEMMA AbsStoreKept ==
  ASSUME Base, Base', NEW c \in Cors, Begin(c) \/ Step(c), value' = value,
         Pending(c)' = Pending(c), pc[c] = "wb" => buf' = buf
  PROVE  AbsStore' = AbsStore
<1>1. StoreFacts
  BY StoreMapped
<1>2. StoreFacts'
  BY StoreMapped, PTL
<1>3. TypeOK
  BY DEF Base
<1>4. /\ \A d \in Cors \ {c} : Pending(d)' = Pending(d)
      /\ \A d \in Cors \ {c} : buf'[d] = buf[d]
  BY <1>3, OnlyOwnTxn
<1>5. \A k \in Pending(c) : buf'[c][k] = buf[c][k]
  BY DEF Pending
<1>6. /\ \A d \in Cors : Pending(d)' = Pending(d)
      /\ \A d \in Cors : \A k \in Pending(d) : buf'[d][k] = buf[d][k]
  BY <1>4, <1>5
<1> QED
  BY <1>1, <1>2, <1>6, StoreKept

\* A step that changes nothing of c that the serial store knows of.
LEMMA AbsStutter ==
  ASSUME Base, Base', NEW c \in Cors, Begin(c) \/ Step(c), value' = value,
         Pending(c)' = Pending(c), pc[c] = "wb" => buf' = buf,
         SeenBy(c)' = SeenBy(c), StatusOf(c)' = StatusOf(c)
  PROVE  UNCHANGED Serial!vars
<1>1. AbsStore' = AbsStore
  BY AbsStoreKept
<1>2. TypeOK
  BY DEF Base
<1>3. /\ AbsSeen' = [AbsSeen EXCEPT ![c] = SeenBy(c)]
      /\ AbsStatus' = [AbsStatus EXCEPT ![c] = StatusOf(c)]
  BY <1>2, AbsStep
<1>4. /\ AbsSeen' = AbsSeen
      /\ AbsStatus' = AbsStatus
  BY <1>3, MapByTxn
<1> QED
  BY <1>1, <1>4 DEF Serial!vars

\* Bookkeeping steps: appending an item, taking, releasing or waiting for a
\* lock, and the ends of the batches.
LEMMA QuietSteps ==
  ASSUME Exact, Base, Base', NEW c \in Cors,
         \/ \E k \in Keys :
              \/ Read(c, k) \/ Write(c, k) \/ LockGranted(c, k)
              \/ LockParked(c, k) \/ LockRetried(c, k) \/ NotifyLater(c, k)
              \/ ReleaseItem(c, k) \/ UnlockItem(c, k)
         \/ ReleaseReadsDone(c) \/ WriteBackDone(c)
  PROVE  UNCHANGED Serial!vars
<1> DEFINE Quiet == /\ value' = value /\ Pending(c)' = Pending(c)
                    /\ pc[c] = "wb" => buf' = buf
                    /\ SeenBy(c)' = SeenBy(c) /\ StatusOf(c)' = StatusOf(c)
<1>1. TypeOK /\ PhaseOf(c)
  BY DEF Base, PhaseOK
<1>2. Begin(c) \/ Step(c)
  BY DEF Step
<1>q. Quiet
  <2> USE <1>1 DEF TypeOK, PhaseOf, Pending, SeenBy, StatusOf, Active, Locked
  <2>1. ASSUME NEW k \in Keys, Read(c, k) PROVE Quiet
    BY <2>1 DEF Read, Append, Goto, Fresh, Exact
  <2>2. ASSUME NEW k \in Keys, Write(c, k) PROVE Quiet
    BY <2>2 DEF Write, Append, Goto, Fresh, Exact
  <2>3. ASSUME NEW k \in Keys, LockGranted(c, k) PROVE Quiet
    BY <2>3 DEF LockGranted, Return, Goto, Exact
  <2>4. ASSUME NEW k \in Keys, LockParked(c, k) PROVE Quiet
    BY <2>4 DEF LockParked, Goto, store, sets
  <2>5. ASSUME NEW k \in Keys, LockRetried(c, k) PROVE Quiet
    BY <2>5 DEF LockRetried, vars
  <2>6. ASSUME NEW k \in Keys, NotifyLater(c, k) PROVE Quiet
    BY <2>6 DEF NotifyLater, vars
  <2>7. ASSUME NEW k \in Keys, ReleaseItem(c, k) PROVE Quiet
    BY <2>7 DEF ReleaseItem, sets
  <2>8. ASSUME NEW k \in Keys, UnlockItem(c, k) PROVE Quiet
    BY <2>8 DEF UnlockItem, sets
  <2>9. ASSUME ReleaseReadsDone(c) PROVE Quiet
    BY <2>9 DEF ReleaseReadsDone, Goto, store, sets
  <2>10. ASSUME WriteBackDone(c) PROVE Quiet
    BY <2>10 DEF WriteBackDone, Goto, store, sets
  <2> QED
    BY <2>1, <2>2, <2>3, <2>4, <2>5, <2>6, <2>7, <2>8, <2>9, <2>10
<1> QED
  BY <1>2, <1>q, AbsStutter

\* begin() starts the abstract transaction.
LEMMA BeginStarts ==
  ASSUME Base, Base', NEW c \in Cors, Begin(c)
  PROVE  Serial!Start(c)
<1>1. TypeOK /\ PhaseOf(c)
  BY DEF Base, PhaseOK
<1>2. /\ value' = value /\ Pending(c)' = Pending(c) /\ pc[c] # "wb"
      /\ SeenBy(c)' = SeenBy(c)
      /\ StatusOf(c) = "idle" /\ StatusOf(c)' = "active"
  BY <1>1 DEF TypeOK, PhaseOf, Begin, Goto, Pending, SeenBy, StatusOf, Active, Locked
<1>3. AbsStore' = AbsStore
  BY <1>2, AbsStoreKept
<1>4. /\ AbsSeen' = [AbsSeen EXCEPT ![c] = SeenBy(c)]
      /\ AbsStatus' = [AbsStatus EXCEPT ![c] = "active"]
      /\ AbsSeen[c] = SeenBy(c) /\ AbsStatus[c] = "idle"
  BY <1>1, <1>2, AbsStep
<1>5. AbsSeen' = AbsSeen
  BY <1>4, MapByTxn
<1> QED
  BY <1>3, <1>4, <1>5 DEF Serial!Start

\* Releasing the last lock ends it.
LEMMA EndFinishes ==
  ASSUME Base, Base', NEW c \in Cors, End(c)
  PROVE  Serial!Finish(c)
<1>1. TypeOK /\ PhaseOf(c)
  BY DEF Base, PhaseOK
<1>2. /\ value' = value /\ Pending(c)' = Pending(c) /\ pc[c] # "wb"
      /\ SeenBy(c)' = SeenBy(c)
      /\ StatusOf(c) \in {"committed", "aborted"} /\ StatusOf(c)' = "idle"
  BY <1>1 DEF TypeOK, PhaseOf, End, Goto, Pending, SeenBy, StatusOf, Active, Locked
<1>3. Begin(c) \/ Step(c)
  BY DEF Step
<1>4. AbsStore' = AbsStore
  BY <1>2, <1>3, AbsStoreKept
<1>5. /\ AbsSeen' = [AbsSeen EXCEPT ![c] = SeenBy(c)]
      /\ AbsStatus' = [AbsStatus EXCEPT ![c] = "idle"]
      /\ AbsSeen[c] = SeenBy(c) /\ AbsStatus[c] = StatusOf(c)
  BY <1>1, <1>2, <1>3, AbsStep
<1>6. AbsSeen' = AbsSeen
  BY <1>5, MapByTxn
<1> QED
  BY <1>2, <1>4, <1>5, <1>6 DEF Serial!Finish

\* A refused lock aborts it.
LEMMA RefusalAborts ==
  ASSUME Base, Base', NEW c \in Cors, NEW k \in Keys,
         LockFailed(c, k) \/ NotifyFailed(c, k)
  PROVE  Serial!Abort(c)
<1>1. TypeOK /\ PhaseOf(c)
  BY DEF Base, PhaseOK
<1>2. /\ value' = value /\ Pending(c)' = Pending(c) /\ pc[c] # "wb"
      /\ SeenBy(c)' = [j \in {} |-> j]
      /\ StatusOf(c) = "active" /\ StatusOf(c)' = "aborted"
  BY <1>1 DEF TypeOK, PhaseOf, LockFailed, NotifyFailed, Fail, Goto, Pending,
              SeenBy, StatusOf, Active, Locked
<1>3. Begin(c) \/ Step(c)
  BY DEF Step
<1>4. AbsStore' = AbsStore
  BY <1>2, <1>3, AbsStoreKept
<1>5. /\ AbsSeen' = [AbsSeen EXCEPT ![c] = [j \in {} |-> j]]
      /\ AbsStatus' = [AbsStatus EXCEPT ![c] = "aborted"]
      /\ AbsStatus[c] = StatusOf(c)
  BY <1>1, <1>2, <1>3, AbsStep
<1> QED
  BY <1>2, <1>4, <1>5 DEF Serial!Abort, Serial!Nothing

\* The record that comes back with a lock is one more observation.
LEMMA CopyObserves ==
  ASSUME Base, Base', NEW c \in Cors, NEW k \in Keys, CopyRecord(c, k)
  PROVE  Serial!Observe(c)
<1> DEFINE sn == [j \in Locked(c) \cup {k} |->
                    IF j = k THEN value[k] ELSE SeenBy(c)[j]]
<1>1. TypeOK /\ PhaseOf(c)
  BY DEF Base, PhaseOK
<1>2. /\ value' = value /\ Pending(c)' = Pending(c) /\ pc[c] # "wb"
      /\ StatusOf(c) = "active" /\ StatusOf(c)' = "active"
  BY <1>1 DEF TypeOK, PhaseOf, CopyRecord, Return, Goto, store, Pending,
              StatusOf, Active
<1>3. /\ Active(c) /\ Active(c)' /\ k \notin Locked(c)
      /\ Locked(c)' = Locked(c) \cup {k}
      /\ buf' = [buf EXCEPT ![c][k] = value[k]]
      /\ value[k] \in Values
  BY <1>1 DEF TypeOK, PhaseOf, CopyRecord, Return, Goto, store, Active, Locked
<1>4. SeenBy(c) = [j \in Locked(c) |-> buf[c][j]]
  BY <1>3 DEF SeenBy
<1>5. SeenBy(c)' = [j \in Locked(c) \cup {k} |-> buf'[c][j]]
  BY <1>3 DEF SeenBy
<1>6. \A j \in Locked(c) \cup {k} : buf'[c][j] = sn[j]
  BY <1>1, <1>3, <1>4 DEF TypeOK, Locked
<1>7. SeenBy(c)' = sn
  BY <1>5, <1>6
<1>8. Begin(c) \/ Step(c)
  BY DEF Step
<1>9. AbsStore' = AbsStore
  BY <1>2, <1>8, AbsStoreKept
<1> HIDE DEF sn
<1>10. /\ AbsSeen' = [AbsSeen EXCEPT ![c] = sn]
       /\ AbsStatus' = [AbsStatus EXCEPT ![c] = "active"]
       /\ AbsSeen[c] = SeenBy(c) /\ AbsStatus[c] = StatusOf(c)
  BY <1>1, <1>2, <1>7, <1>8, AbsStep
<1>11. AbsStatus' = AbsStatus
  BY <1>2, <1>10, MapByTxn
<1>12. DOMAIN AbsSeen[c] = Locked(c)
  BY <1>4, <1>10
<1>13. AbsSeen' = [AbsSeen EXCEPT ![c] =
                     [j \in DOMAIN AbsSeen[c] \cup {k} |->
                        IF j = k THEN value[k] ELSE AbsSeen[c][j]]]
  BY <1>10, <1>12 DEF sn
<1>14. k \in Keys \ DOMAIN AbsSeen[c] /\ value[k] \in Values
  BY <1>3, <1>12
<1>15. \E i \in Keys \ DOMAIN AbsSeen[c], v \in Values :
         AbsSeen' = [AbsSeen EXCEPT ![c] =
                       [j \in DOMAIN AbsSeen[c] \cup {i} |->
                          IF j = i THEN v ELSE AbsSeen[c][j]]]
  BY <1>13, <1>14, Zenon
<1>16. AbsStatus[c] = "active"
  BY <1>2, <1>10
<1> QED
  BY <1>9, <1>11, <1>15, <1>16, Zenon DEF Serial!Observe

\* Writing one record back is invisible: the abstract store has it already.
LEMMA WriteBackHidden ==
  ASSUME Base, Base', NEW c \in Cors, NEW k \in Keys, WriteItem(c, k)
  PROVE  UNCHANGED Serial!vars
<1>1. TypeOK /\ PhaseOf(c) /\ StoreFacts
  BY StoreMapped DEF Base, PhaseOK
<1>2. StoreFacts'
  BY StoreMapped, PTL
<1>3. Begin(c) \/ Step(c)
  BY DEF Step
<1>4. /\ \A d \in Cors \ {c} : Pending(d)' = Pending(d)
      /\ buf' = buf
  BY <1>1, <1>3, OnlyOwnTxn DEF WriteItem
<1>5. /\ k \in Pending(c) /\ Pending(c)' = Pending(c) \ {k}
      /\ value' = [value EXCEPT ![k] = buf[c][k]]
      /\ SeenBy(c)' = SeenBy(c) /\ StatusOf(c)' = StatusOf(c)
  BY <1>1 DEF TypeOK, PhaseOf, WriteItem, sets, Pending, SeenBy, StatusOf, Active, Locked
<1>6. \A d \in Cors : k \notin Pending(d)'
  <2>1. \A d \in Cors : k \in Held(d) => d = c
    BY WriterHolds
  <2> QED
    BY <2>1, <1>4, <1>5, PendingHeld
<1>7. AbsStore'[k] = AbsStore[k]
  BY <1>1, <1>2, <1>5, <1>6 DEF StoreFacts, TypeOK
<1>8. ASSUME NEW j \in Keys, j # k PROVE AbsStore'[j] = AbsStore[j]
  <2>1. \A d \in Cors : j \in Pending(d)' <=> j \in Pending(d)
    BY <1>4, <1>5, <1>8
  <2>2. value'[j] = value[j]
    BY <1>1, <1>5, <1>8 DEF TypeOK
  <2> QED
    BY <1>1, <1>2, <1>4, <2>1, <2>2 DEF StoreFacts
<1>9. AbsStore' = AbsStore
  <2>1. \A j \in Keys : AbsStore'[j] = AbsStore[j]
    BY <1>7, <1>8
  <2>2. /\ AbsStore = [j \in Keys |-> AbsStore[j]]
        /\ AbsStore' = [j \in Keys |-> AbsStore'[j]]
    BY DEF AbsStore
  <2> QED
    BY <2>1, <2>2
<1>10. /\ AbsSeen' = [AbsSeen EXCEPT ![c] = SeenBy(c)]
       /\ AbsStatus' = [AbsStatus EXCEPT ![c] = StatusOf(c)]
  BY <1>1, <1>3, <1>5, AbsStep
<1>11. AbsSeen' = AbsSeen /\ AbsStatus' = AbsStatus
  BY <1>10, MapByTxn
<1> QED
  BY <1>9, <1>11 DEF Serial!vars

\* Sending the write-back is the moment the transaction takes effect: all it
\* was handed is still current, because it holds the locks.
LEMMA CommitCommits ==
  ASSUME Base, Base', LockedReadsCurrent, NEW c \in Cors, Commit(c)
  PROVE  Serial!Commit(c)
<1>1. TypeOK /\ PhaseOf(c) /\ StoreFacts
  BY StoreMapped DEF Base, PhaseOK
<1>2. StoreFacts'
  BY StoreMapped, PTL
<1>3. Begin(c) \/ Step(c)
  BY DEF Step
<1>4. /\ \A d \in Cors \ {c} : Pending(d)' = Pending(d)
      /\ \A d \in Cors \ {c} : buf'[d] = buf[d]
  BY <1>1, <1>3, OnlyOwnTxn
<1>5. PICK new \in [wset[c] -> Values] :
        buf' = [buf EXCEPT ![c] =
                  [k \in Keys |-> IF k \in wset[c] THEN new[k] ELSE @[k]]]
  BY DEF Commit
<1>6. /\ value' = value /\ Pending(c) = {} /\ Pending(c)' = wset[c]
      /\ wset[c] \subseteq Locked(c) /\ wset[c] \subseteq Keys
      /\ Active(c) /\ ~Active(c)'
      /\ StatusOf(c) = "active" /\ StatusOf(c)' = "committed"
  BY <1>1 DEF TypeOK, PhaseOf, Commit, Goto, store, sets, Pending, StatusOf,
              Active, Locked
<1>7. SeenBy(c) = [k \in Locked(c) |-> buf[c][k]] /\ SeenBy(c)' = [k \in {} |-> k]
  BY <1>6 DEF SeenBy
<1>8. ASSUME NEW k \in Locked(c) PROVE \A d \in Cors : k \notin Pending(d)
  <2>1. k \in Held(c) /\ k \in Keys
    BY <1>6, <1>8, LockedHeld DEF Held
  <2>2. \A d \in Cors : k \in Held(d) => d = c
    BY <2>1 DEF Base, LockOwnership
  <2> QED
    BY <1>6, <2>2, PendingHeld
<1>9. \A k \in Locked(c) : k \in Keys /\ AbsStore[k] = value[k] /\ value[k] = buf[c][k]
  BY <1>1, <1>6, <1>8 DEF StoreFacts, LockedReadsCurrent, TypeOK, Locked
<1>10. /\ AbsSeen' = [AbsSeen EXCEPT ![c] = [k \in {} |-> k]]
       /\ AbsStatus' = [AbsStatus EXCEPT ![c] = "committed"]
       /\ AbsSeen[c] = SeenBy(c) /\ AbsStatus[c] = StatusOf(c)
  BY <1>1, <1>3, <1>6, <1>7, AbsStep
<1>11. /\ DOMAIN AbsSeen[c] = Locked(c)
       /\ \A k \in DOMAIN AbsSeen[c] : AbsStore[k] = AbsSeen[c][k]
  BY <1>7, <1>9, <1>10
<1>12. \A k \in wset[c] : AbsStore'[k] = new[k]
  BY <1>1, <1>2, <1>5, <1>6 DEF StoreFacts, TypeOK
<1>13. ASSUME NEW k \in Keys, k \notin wset[c] PROVE AbsStore'[k] = AbsStore[k]
  <2>1. CASE \E d \in Cors : k \in Pending(d)
    <3>1. PICK d \in Cors : k \in Pending(d)
      BY <2>1
    <3>2. d # c
      BY <3>1, <1>6
    <3> QED
      BY <3>1, <3>2, <1>1, <1>2, <1>4 DEF StoreFacts
  <2>2. CASE \A d \in Cors : k \notin Pending(d)
    <3>1. \A d \in Cors : k \notin Pending(d)'
      BY <2>2, <1>4, <1>6, <1>13
    <3> QED
      BY <3>1, <2>2, <1>1, <1>2, <1>6 DEF StoreFacts
  <2> QED
    BY <2>1, <2>2
<1>14. AbsStore' = [k \in Keys |-> IF k \in wset[c] THEN new[k] ELSE AbsStore[k]]
  <2>1. AbsStore' = [k \in Keys |-> AbsStore'[k]]
    BY DEF AbsStore
  <2> QED
    BY <2>1, <1>12, <1>13
<1>15. wset[c] \in SUBSET DOMAIN AbsSeen[c]
  BY <1>6, <1>11
<1>16. \E W \in SUBSET DOMAIN AbsSeen[c] : \E f \in [W -> Values] :
         AbsStore' = [k \in Keys |-> IF k \in W THEN f[k] ELSE AbsStore[k]]
  BY <1>14, <1>15, Zenon
<1>17. AbsStatus[c] = "active"
  BY <1>6, <1>10
<1> QED
  BY <1>10, <1>11, <1>16, <1>17, Zenon DEF Serial!Commit, Serial!Nothing

\* Every step of the lock protocol is a step of the serial store or none.
LEMMA Simulation ==
  ASSUME Exact
  PROVE  Base /\ Base' /\ LockedReadsCurrent /\ [Next]_vars
           => [Serial!Next]_Serial!vars
<1> SUFFICES ASSUME Base, Base', LockedReadsCurrent, [Next]_vars
             PROVE  [Serial!Next]_Serial!vars
  OBVIOUS
<1>1. CASE UNCHANGED vars
  BY <1>1 DEF vars, Serial!vars, AbsStore, AbsSeen, AbsStatus, Pending, Active,
              Locked
<1>2. ASSUME NEW c \in Cors, Begin(c) \/ Step(c)
      PROVE  [Serial!Next]_Serial!vars
  <2>1. CASE Begin(c)
    BY <2>1, BeginStarts DEF Serial!Next
  <2>2. CASE End(c)
    BY <2>2, EndFinishes DEF Serial!Next
  <2>3. CASE Commit(c)
    BY <2>3, CommitCommits DEF Serial!Next
  <2>4. ASSUME NEW k \in Keys, LockFailed(c, k) \/ NotifyFailed(c, k)
        PROVE  [Serial!Next]_Serial!vars
    BY <2>4, RefusalAborts DEF Serial!Next
  <2>5. ASSUME NEW k \in Keys, CopyRecord(c, k)
        PROVE  [Serial!Next]_Serial!vars
    BY <2>5, CopyObserves DEF Serial!Next
  <2>6. ASSUME NEW k \in Keys, WriteItem(c, k)
        PROVE  [Serial!Next]_Serial!vars
    BY <2>6, WriteBackHidden
  <2>7. ASSUME NEW k \in Keys, NotifyGranted(c, k) PROVE FALSE
    BY <2>7 DEF NotifyGranted, Base, PhaseOK, PhaseOf, Exact
  <2>8. ASSUME \/ \E k \in Keys :
                    \/ Read(c, k) \/ Write(c, k) \/ LockGranted(c, k)
                    \/ LockParked(c, k) \/ LockRetried(c, k)
                    \/ NotifyLater(c, k)
                    \/ ReleaseItem(c, k) \/ UnlockItem(c, k)
               \/ ReleaseReadsDone(c) \/ WriteBackDone(c)
        PROVE  [Serial!Next]_Serial!vars
    BY <2>8, QuietSteps
  <2> QED
    BY <1>2, <2>1, <2>2, <2>3, <2>4, <2>5, <2>6, <2>7, <2>8 DEF Step
<1> QED
  BY <1>1, <1>2 DEF Next

\* Strict serializability: for any coroutines, records and contents, whatever
\* the interleaving of their compare-and-swaps, copies, write-backs and
\* releases, the transactions that commit behave as if each had run alone at
\* the moment its write-back was sent.
THEOREM TwoPLSerializable ==
  ASSUME Exact
  PROVE  Spec => Serializable
<1>1. Init => Serial!Init
  <2> SUFFICES ASSUME Init PROVE Serial!Init
    OBVIOUS
  <2>1. AbsStore = value
    <3>1. \A c \in Cors : Pending(c) = {}
      BY DEF Init, Pending
    <3>2. AbsStore = [k \in Keys |-> value[k]]
      BY <3>1 DEF AbsStore
    <3> QED
      BY <3>2 DEF Init
  <2>2. AbsSeen = [c \in Cors |-> [k \in {} |-> k]]
    <3>1. \A c \in Cors : SeenBy(c) = [k \in {} |-> k]
      BY DEF Init, SeenBy, Active
    <3> QED
      BY <3>1, MapByTxn
  <2>3. AbsStatus = [c \in Cors |-> "idle"]
    BY DEF Init, AbsStatus, Active
  <2> QED
    BY <2>1, <2>2, <2>3 DEF Serial!Init, Serial!Nothing, Init
<1>2. Base /\ Base' /\ LockedReadsCurrent /\ [Next]_vars
        => [Serial!Next]_Serial!vars
  BY Simulation
<1> QED
  BY <1>1, <1>2, BaseInvariant, ReadsCurrent, PTL
     DEF Spec, Serializable, Serial!Spec
-----------------------------------------------------------------------------
(* Waiting follows the order of the leases, so it closes no cycle          *)
-----------------------------------------------------------------------------
\* The id formula node * 80 + worker * 10 + coroutine + 1 gives every
\* coroutine an id of its own (up to 8 workers and 10 coroutines).
DistinctIds == \A c, d \in Cors : Id[c] = Id[d] => c = d

\* The lease of a running transaction.
Lease(c) == R_LEASE(ts[c])

\* The order in which transactions wait.
Older(c, d) == Lease(c) < Lease(d)

\* The ids assigned to coroutines.
IsId(i) == i \in 1 .. 1023

\* The id bits of a word.
IdBits(w) == (w \div 512) % 1024

\* The id a word holds can be read off the word.
LEMMA IdOfWord ==
  ASSUME NEW w, NEW i, IsId(i), HoldsId(w, i)
  PROVE  IdBits(w) = i
<1> USE DEF IsId
<1>1. \E m \in Int : w = m * 524288 + i * 512
  BY SMT DEF HoldsId
<1>2. PICK m \in Int : w = m * 524288 + i * 512
  BY SMT, <1>1
<1>3. w = (m * 1024 + i) * 512
  BY SMT, <1>2
<1>4. w \div 512 = m * 1024 + i
  BY SMT, <1>3
<1>5. (m * 1024 + i) % 1024 = i
  BY SMT
<1> QED
  BY SMT, <1>4, <1>5 DEF IdBits

\* The lease of a running transaction is below the word space and holds the id.
LEMMA LeaseFacts ==
  ASSUME TypeOK, StampOK, NEW c \in Cors
  PROVE  /\ Lease(c) \in Nat /\ Lease(c) < WordSpace
         /\ pc[c] # "idle" => HoldsId(Lease(c), Id[c])
<1>1. WordSpace \in Nat /\ WordSpace > 0
  BY SMT, TwoPLAssumption
<1>2. PICK s : s = ts[c]
  OBVIOUS
<1>3. s \in Nat
  BY <1>2 DEF TypeOK
<1>4. R_LEASE(s) \in Nat /\ R_LEASE(s) < WordSpace
  BY SMT, <1>1, <1>3 DEF R_LEASE
<1> QED
  BY <1>2, <1>4, LeaseHoldsId DEF Lease

\* Two transactions under way never have the same lease.
LEMMA LeasesDiffer ==
  ASSUME DistinctIds, TypeOK, StampOK, NEW c \in Cors, NEW d \in Cors, c # d,
         pc[c] # "idle", pc[d] # "idle"
  PROVE  Lease(c) # Lease(d)
<1> SUFFICES ASSUME Lease(c) = Lease(d) PROVE FALSE
  OBVIOUS
<1>1. PICK w, i, j : w = Lease(c) /\ i = Id[c] /\ j = Id[d]
  OBVIOUS
<1>2. HoldsId(w, i) /\ HoldsId(w, j)
  BY <1>1, LeaseFacts
<1>3. IsId(i) /\ IsId(j)
  BY <1>1, ConstantFacts DEF IsId
<1>4. IdBits(w) = i /\ IdBits(w) = j
  BY <1>2, <1>3, IdOfWord, Zenon
<1> QED
  BY <1>1, <1>4 DEF DistinctIds

\* The word of a transaction is its lease or one more.
LEMMA WordAndLease ==
  ASSUME TypeOK, NEW c \in Cors, NEW k
  PROVE  LockWord(c, k) \in {Lease(c), Lease(c) + 1}
<1>1. Lease(c) \in Nat
  BY LeaseType DEF Lease, TypeOK
<1>2. LockWord(c, k) = Lease(c) + (IF k \in wset[c] THEN 1 ELSE 0)
  BY DEF LockWord, Lease
<1> QED
  BY <1>1, <1>2

\* A transaction only waits for one with a larger lease: the word of the
\* holder may be its lease plus the write bit, but equal leases are the same
\* transaction, and nobody waits for itself.
LEMMA WaitsInOrder ==
  ASSUME DistinctIds, Base, NEW c \in Cors, NEW d \in Cors, WaitsFor(c, d)
  PROVE  Older(c, d)
<1>1. PICK k \in last[c] :
        /\ k \in Held(d)
        /\ \/ pc[c] = "lock" /\ MustWait(c, k)
           \/ pc[c] = "wait" /\ StillWaits(c, k)
  BY DEF WaitsFor
<1>2. TypeOK /\ StampOK /\ k \in Keys
  BY <1>1 DEF Base, Held
<1>3. pc[c] \in {"lock", "wait"} /\ pc[c] # "idle" /\ k \notin Held(c)
  BY <1>1 DEF Held, Locked
<1>4. c # d
  BY <1>1, <1>3
<1>5. pc[d] # "idle"
  BY <1>1 DEF Held
<1>6. lock[k] = LockWord(d, k)
  BY <1>1, <1>2 DEF Base, LockOwnership
<1>7. Lease(c) < lock[k] \/ LockWord(c, k) < lock[k]
  BY <1>1 DEF MustWait, StillWaits, Lease
<1>8. Lease(c) # Lease(d)
  BY <1>2, <1>3, <1>4, <1>5, LeasesDiffer
<1>9. Lease(c) \in Nat /\ Lease(d) \in Nat
  BY <1>2, LeaseFacts
<1>10. LockWord(c, k) \in {Lease(c), Lease(c) + 1} /\ LockWord(d, k) \in {Lease(d), Lease(d) + 1}
  BY <1>2, WordAndLease
<1>11. Lease(c) < Lease(d)
  <2>1. PICK a, b, u, v : a = Lease(c) /\ b = Lease(d) /\ u = LockWord(c, k) /\ v = LockWord(d, k)
    OBVIOUS
  <2>2. a \in Nat /\ b \in Nat /\ a # b /\ u \in {a, a + 1} /\ v \in {b, b + 1} /\ (a < v \/ u < v)
    BY <1>6, <1>7, <1>8, <1>9, <1>10, <2>1, Zenon
  <2>3. a < b
    BY <2>2, SMT
  <2> QED
    BY <2>1, <2>3, Zenon
<1> QED
  BY <1>11 DEF Older

\* A non-empty set of numbers below a bound has a largest element.
LEMMA HasLargest ==
  ASSUME NEW S, S # {}, NEW b \in Nat, \A x \in S : x \in Nat /\ x < b
  PROVE  \E x \in S : \A y \in S : ~(x < y)
<1> DEFINE T == {b - x : x \in S}
           R == {ss \in Nat \X Nat : ss[1] < ss[2]}
<1>1. T \subseteq Nat /\ T # {}
  BY SMT
<1>2. PICK z \in T : \A y \in T : ~(<< y, z >> \in R)
  <2>1. IsWellFoundedOn(R, Nat)
    BY NatLessThanWellFounded, Zenon DEF OpToRel
  <2> HIDE DEF R, T
  <2> QED
    BY <1>1, <2>1, WFMin
<1>3. \A y \in T : ~(y < z)
  <2>1. ASSUME NEW y \in T, y < z PROVE FALSE
    <3>1. y \in Nat /\ z \in Nat
      BY <1>1
    <3>2. << y, z >> \in R
      BY <3>1, <2>1
    <3> QED
      BY <1>2, <3>2
  <2> QED
    BY <2>1
<1>4. PICK x \in S : z = b - x
  OBVIOUS
<1>5. ASSUME NEW y \in S PROVE ~(x < y)
  <2>1. ~(b - y < b - x)
    BY <1>3, <1>4
  <2>2. x \in Nat /\ y \in Nat
    OBVIOUS
  <2> QED
    BY <2>1, <2>2, SMT
<1> QED
  BY <1>5

\* In every set of coroutines the one with the largest lease waits for none.
LEMMA NewestWaitsForNone == DistinctIds /\ Base => NoWaitCycle
<1> SUFFICES ASSUME DistinctIds, Base, NEW D \in SUBSET Cors, D # {}
             PROVE  \E c \in D : \A d \in D : ~WaitsFor(c, d)
  BY DEF NoWaitCycle
<1>1. PICK S : S = {Lease(c) : c \in D}
  OBVIOUS
<1>2. TypeOK /\ StampOK
  BY DEF Base
<1>3. WordSpace \in Nat
  BY TwoPLAssumption
<1>4. \A c \in D : Lease(c) \in Nat /\ Lease(c) < WordSpace
  BY <1>2, LeaseFacts
<1>5. S # {} /\ \A x \in S : x \in Nat /\ x < WordSpace
  BY <1>1, <1>4, Zenon
<1>6. PICK x \in S : \A y \in S : ~(x < y)
  BY <1>3, <1>5, HasLargest
<1>7. PICK c \in D : x = Lease(c)
  BY <1>1
<1>8. ASSUME NEW d \in D, WaitsFor(c, d) PROVE FALSE
  <2>1. Older(c, d)
    BY <1>8, WaitsInOrder
  <2>2. Lease(d) \in S
    BY <1>1
  <2> QED
    BY <1>6, <1>7, <2>1, <2>2 DEF Older
<1> QED
  BY <1>8

\* WAITDIE cannot deadlock, for any number of coroutines and records, any
\* clock and any width of the lock word: a request that goes on waiting, on
\* the server's wait list (check_to_notify), in the local spin or in the
\* one-sided retry loop, is older than the holder, so waiting closes no cycle.
THEOREM WaitsAcyclic == ASSUME DistinctIds PROVE Spec => []NoWaitCycle
<1>1. Base => NoWaitCycle
  BY NewestWaitsForNone
<1> QED
  BY <1>1, BaseInvariant, PTL
=============================================================================
