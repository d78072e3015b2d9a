----------------------------- MODULE DSLRProofs -----------------------------
(***************************************************************************)
(* Theorems about DSLR for every finite set of coroutines, every COUNT_MAX *)
(* and every lane wide enough for them.                                    *)
(***************************************************************************)
EXTENDS DSLR, FiniteSetTheorems, TLAPS

-----------------------------------------------------------------------------
(* Arithmetic of the lock word                                             *)
-----------------------------------------------------------------------------
Space == Lane * Lane * Lane * Lane
Digits == 0 .. Lane - 1

\* The parts of the assumption on the constants that the steps below use.
LEMMA ConstantFacts ==
  /\ IsFiniteSet(Cors) /\ Cardinality(Cors) \in Nat
  /\ COUNT_MAX \in Nat /\ COUNT_MAX > 0
  /\ Lane \in Nat /\ Lane > 0 /\ COUNT_MAX + Cardinality(Cors) < Lane
  /\ Modes \subseteq {"SHARED", "EXCLUSIVE"}
  /\ MaxTries \in Nat
<1>1. IsFiniteSet(Cors) /\ Cardinality(Cors) \in Nat
  BY FS_CardinalityType, DSLRAssumption
<1> QED
  BY <1>1, DSLRAssumption, SMT

\* Taking a number apart and putting it together, one lane at a time.
LEMMA TakeApart ==
  ASSUME NEW w \in Nat
  PROVE  /\ w \div Lane \in Nat /\ w % Lane \in Digits
         /\ w = (w \div Lane) * Lane + (w % Lane)
BY ConstantFacts, SMT DEF Digits

LEMMA PutTogether ==
  ASSUME NEW a \in Nat, NEW b \in Digits
  PROVE  /\ a * Lane + b \in Nat
         /\ (a * Lane + b) \div Lane = a /\ (a * Lane + b) % Lane = b
BY ConstantFacts, SMT DEF Digits

LEMMA TwoLanes ==
  ASSUME NEW w \in Nat
  PROVE  /\ w \div (Lane * Lane) = (w \div Lane) \div Lane
         /\ w \div (Lane * Lane * Lane) = ((w \div Lane) \div Lane) \div Lane
<1>1. \A x \in Nat, y \in Nat : y > 0 => (x \div Lane) \div y = x \div (Lane * y)
  BY ConstantFacts, SMT
<1> QED
  BY ConstantFacts, SMT

\* The DECODE_ macros take out of a word what ENCODE_DSLR_LOCK_CONTENT put in.
LEMMA DecodeEncode ==
  ASSUME NEW nx \in Digits, NEW ns \in Digits, NEW maxx \in Digits, NEW maxs \in Digits
  PROVE  LET w == Encode(nx, ns, maxx, maxs) IN
           /\ w \in 0 .. Space - 1
           /\ NX(w) = nx /\ NS(w) = ns /\ MAXX(w) = maxx /\ MAXS(w) = maxs
<1> DEFINE u == nx * Lane + ns
           v == u * Lane + maxx
           w == v * Lane + maxs
<1>1. u \in Nat /\ u \div Lane = nx /\ u % Lane = ns
  BY PutTogether, ConstantFacts, SMT DEF Digits
<1> HIDE DEF u
<1>2. v \in Nat /\ v \div Lane = u /\ v % Lane = maxx
  BY <1>1, PutTogether
<1> HIDE DEF v
<1>3. w \in Nat /\ w \div Lane = v /\ w % Lane = maxs
  BY <1>2, PutTogether
<1>4. w < Space
  <2>1. u <= Lane * Lane - 1
    BY ConstantFacts, SMT DEF u, Digits
  <2>2. v <= Lane * Lane * Lane - 1
    BY <2>1, <1>1, ConstantFacts, SMT DEF v, Digits
  <2>3. w <= Lane * Lane * Lane * Lane - 1
    BY <2>2, <1>2, ConstantFacts, SMT DEF Digits
  <2> QED
    BY <2>3, <1>3, ConstantFacts, SMT DEF Space
<1>5. Encode(nx, ns, maxx, maxs) = w
  BY DEF Encode, u, v
<1> HIDE DEF w
<1>6. NX(w) = nx /\ NS(w) = ns /\ MAXX(w) = maxx /\ MAXS(w) = maxs
  BY <1>1, <1>2, <1>3, TwoLanes DEF NX, NS, MAXX, MAXS
<1>7. w \in 0 .. Space - 1
  BY <1>3, <1>4, ConstantFacts, SMT DEF Space
<1> QED
  BY <1>5, <1>6, <1>7

\* Every word consists of its four lanes.
LEMMA EncodeDecode ==
  ASSUME NEW w \in 0 .. Space - 1
  PROVE  /\ NX(w) \in Digits /\ NS(w) \in Digits /\ MAXX(w) \in Digits /\ MAXS(w) \in Digits
         /\ w = Encode(NX(w), NS(w), MAXX(w), MAXS(w))
<1> DEFINE v == w \div Lane
           u == v \div Lane
           t == u \div Lane
<1>0. w \in Nat
  BY ConstantFacts, SMT DEF Space
<1>1. v \in Nat /\ w % Lane \in Digits /\ w = v * Lane + (w % Lane)
  BY <1>0, TakeApart
<1>2. u \in Nat /\ v % Lane \in Digits /\ v = u * Lane + (v % Lane)
  BY <1>1, TakeApart
<1>3. t \in Nat /\ u % Lane \in Digits /\ u = t * Lane + (u % Lane)
  BY <1>2, TakeApart
<1>4. NX(w) = t /\ NS(w) = u % Lane /\ MAXX(w) = v % Lane /\ MAXS(w) = w % Lane
  BY <1>0, TwoLanes DEF NX, NS, MAXX, MAXS
<1>5. w < Lane * Lane * Lane * Lane
  BY ConstantFacts, SMT DEF Space
<1> HIDE DEF t, u, v
<1>6. t < Lane
  <2>1. v < Lane * Lane * Lane
    BY <1>1, <1>5, ConstantFacts, SMT DEF Digits
  <2>2. u < Lane * Lane
    BY <1>2, <2>1, ConstantFacts, SMT DEF Digits
  <2> QED
    BY <1>3, <2>2, ConstantFacts, SMT DEF Digits
<1>7. t \in Digits
  BY <1>3, <1>6, ConstantFacts, SMT DEF Digits
<1> QED
  BY <1>1, <1>2, <1>3, <1>4, <1>7 DEF Encode

\* A fetch-and-add changes one lane as long as that lane does not overflow.
LEMMA AddToLane ==
  ASSUME NEW w \in 0 .. Space - 1, NEW d \in {-1, 1}
  PROVE  /\ MAXS(w) + d \in Digits =>
              (w + d * Unit("MAXS")) % Space = Encode(NX(w), NS(w), MAXX(w), MAXS(w) + d)
         /\ MAXX(w) + d \in Digits =>
              (w + d * Unit("MAXX")) % Space = Encode(NX(w), NS(w), MAXX(w) + d, MAXS(w))
         /\ NS(w) + d \in Digits =>
              (w + d * Unit("NS")) % Space = Encode(NX(w), NS(w) + d, MAXX(w), MAXS(w))
         /\ NX(w) + d \in Digits =>
              (w + d * Unit("NX")) % Space = Encode(NX(w) + d, NS(w), MAXX(w), MAXS(w))
<1> DEFINE a == NX(w)  b == NS(w)  e == MAXX(w)  f == MAXS(w)
<1>1. a \in Digits /\ b \in Digits /\ e \in Digits /\ f \in Digits /\ w = Encode(a, b, e, f)
  BY EncodeDecode
<1>2. a \in Int /\ b \in Int /\ e \in Int /\ f \in Int /\ Lane \in Int /\ d \in Int
  BY <1>1, ConstantFacts DEF Digits
<1> HIDE DEF a, b, e, f
<1>3. Encode(a, b, e, f + d) = w + d * Unit("MAXS")
  BY <1>1, <1>2, SMT DEF Encode, Unit
<1>7. Encode(a, b, e + d, f) = w + d * Unit("MAXX")
  BY <1>1, <1>2, SMT DEF Encode, Unit
<1>4. Encode(a, b + d, e, f) = w + d * Unit("NS")
  BY <1>1, <1>2, SMT DEF Encode, Unit
<1>5. Encode(a + d, b, e, f) = w + d * Unit("NX")
  BY <1>1, <1>2, SMT DEF Encode, Unit
<1>6. \A x \in 0 .. Space - 1 : x % Space = x
  BY ConstantFacts, SMT DEF Space
<1> QED
  BY <1>1, <1>3, <1>4, <1>5, <1>6, <1>7, DecodeEncode DEF a, b, e, f
-----------------------------------------------------------------------------
(* The inductive invariant                                                 *)
-----------------------------------------------------------------------------
\* The tickets of a mode that were one too many and are about to be reverted,
\* those that hold the lock, and all that count.
Reverting(m) == { c \in Cors : pc[c] = "revert" /\ mode[c] = m }
Holding(m) == { c \in Cors : pc[c] = "held" /\ mode[c] = m }
HasTicket(c) == pc[c] \in {"wait", "held"}

\* The tickets given out since the last reset and not reverted.
GivenX == MAXX(word) - Cardinality(Reverting("EXCLUSIVE"))
GivenS == MAXS(word) - Cardinality(Reverting("SHARED"))

GivenOK == GivenX \in 0 .. COUNT_MAX /\ GivenS \in 0 .. COUNT_MAX

\* No more tickets are given out until the word is reset.
SoldOut == GivenX = COUNT_MAX \/ GivenS = COUNT_MAX

OnDuty(c) == pc[c] \in {"wait", "held", "reset"} /\ resetFrom[c] > 0

SoldOutOK ==
  /\ \A c \in Cors : pc[c] = "revert" \/ OnDuty(c) => SoldOut
  /\ \A c \in Cors : pc[c] \in {"revert", "backoff"} => Full(prev[c])

\* Only the last ticket has to reset the word, from the one that counts every
\* ticket as given back.
DutyOK ==
  /\ \A c \in Cors : pc[c] = "reset" => resetFrom[c] > 0
  /\ \A c \in Cors : OnDuty(c) => resetFrom[c] = Encode(GivenX, GivenS, GivenX, GivenS)
  /\ \A c, d \in Cors : OnDuty(c) /\ OnDuty(d) => c = d

\* Tickets are numbered by what was given out before them.
NumberedOK ==
  /\ \A c \in Cors : HasTicket(c) =>
       /\ MAXX(prev[c]) <= GivenX /\ MAXS(prev[c]) <= GivenS
       /\ mode[c] = "EXCLUSIVE" => MAXX(prev[c]) < GivenX
  /\ \A c, d \in Cors :
       /\ HasTicket(c) /\ HasTicket(d) /\ mode[c] = "EXCLUSIVE" /\ mode[d] = "EXCLUSIVE"
       /\ MAXX(prev[c]) = MAXX(prev[d])
       => c = d

\* The readers that have to leave before an exclusive ticket is next.
Ahead(c) ==
  { d \in Cors : HasTicket(d) /\ mode[d] = "SHARED" /\ MAXX(prev[d]) <= MAXX(prev[c]) }

\* Tickets are served in their order.
ServedOK ==
  /\ \A c \in Cors : pc[c] = "held" => Served(mode[c], prev[c], word)
  /\ \A c \in Cors : HasTicket(c) /\ mode[c] = "EXCLUSIVE" =>
       /\ NX(word) <= MAXX(prev[c])
       /\ Cardinality(Ahead(c)) <= MAXS(prev[c]) - NS(word)

\* After a forced reset the word is full for ever, and every ticket that was
\* waiting finds itself passed.
ForcedOK ==
  /\ SoldOut /\ GivenS < NS(word)
  /\ NX(word) + Cardinality(Holding("EXCLUSIVE")) <= COUNT_MAX + Cardinality(Cors)
  /\ NS(word) + Cardinality(Holding("SHARED")) <= COUNT_MAX + Cardinality(Cors)

Inv ==
  /\ TypeOK /\ GivenOK /\ SoldOutOK /\ DutyOK /\ NumberedOK /\ Exclusion
  /\ TicketsCounted
  /\ ~forced => ServedOK
  /\ forced => ForcedOK
-----------------------------------------------------------------------------
(* Counting                                                                *)
-----------------------------------------------------------------------------
LEMMA CardPlus ==
  ASSUME NEW S \in SUBSET Cors, NEW c \in Cors, c \notin S
  PROVE  Cardinality(S \cup {c}) = Cardinality(S) + 1
BY ConstantFacts, FS_Subset, FS_AddElement

LEMMA CardMinus ==
  ASSUME NEW S \in SUBSET Cors, NEW c \in S
  PROVE  Cardinality(S \ {c}) = Cardinality(S) - 1
BY ConstantFacts, FS_Subset, FS_RemoveElement

LEMMA CardOrder ==
  ASSUME NEW T \in SUBSET Cors, NEW S \in SUBSET T
  PROVE  /\ Cardinality(S) \in Nat /\ Cardinality(T) \in Nat
         /\ Cardinality(S) <= Cardinality(T)
<1>1. IsFiniteSet(T)
  BY ConstantFacts, FS_Subset
<1> QED
  BY <1>1, FS_Subset, FS_CardinalityType

LEMMA CardZero ==
  ASSUME NEW S \in SUBSET Cors
  PROVE  Cardinality(S) = 0 <=> S = {}
BY ConstantFacts, FS_Subset, FS_EmptySet

\* What the lanes are after a fetch-and-add that does not overflow.
LEMMA LanesAfter ==
  ASSUME word \in 0 .. Space - 1, NEW d \in {-1, 1}
  PROVE  /\ FetchAdd("MAXS", d) /\ MAXS(word) + d \in Digits =>
              /\ word' \in 0 .. Space - 1 /\ MAXS(word') = MAXS(word) + d
              /\ NX(word') = NX(word) /\ NS(word') = NS(word) /\ MAXX(word') = MAXX(word)
         /\ FetchAdd("MAXX", d) /\ MAXX(word) + d \in Digits =>
              /\ word' \in 0 .. Space - 1 /\ MAXX(word') = MAXX(word) + d
              /\ NX(word') = NX(word) /\ NS(word') = NS(word) /\ MAXS(word') = MAXS(word)
         /\ FetchAdd("NS", d) /\ NS(word) + d \in Digits =>
              /\ word' \in 0 .. Space - 1 /\ NS(word') = NS(word) + d
              /\ NX(word') = NX(word) /\ MAXX(word') = MAXX(word) /\ MAXS(word') = MAXS(word)
         /\ FetchAdd("NX", d) /\ NX(word) + d \in Digits =>
              /\ word' \in 0 .. Space - 1 /\ NX(word') = NX(word) + d
              /\ NS(word') = NS(word) /\ MAXX(word') = MAXX(word) /\ MAXS(word') = MAXS(word)
<1>1. /\ NX(word) \in Digits /\ NS(word) \in Digits
      /\ MAXX(word) \in Digits /\ MAXS(word) \in Digits
  BY EncodeDecode
<1>2. ASSUME NEW s, FetchAdd(s, d) PROVE word' = (word + d * Unit(s)) % Space
  BY <1>2 DEF FetchAdd, Space
<1> QED
  BY <1>1, <1>2, AddToLane, DecodeEncode

\* The lanes of the word in the invariant, as numbers.
LEMMA Lanes ==
  ASSUME TypeOK
  PROVE  /\ word \in 0 .. Space - 1
         /\ NX(word) \in Digits /\ NS(word) \in Digits
         /\ MAXX(word) \in Digits /\ MAXS(word) \in Digits
         /\ NX(word) \in Nat /\ NS(word) \in Nat /\ MAXX(word) \in Nat /\ MAXS(word) \in Nat
<1>1. word \in 0 .. Space - 1
  BY DEF TypeOK, Space
<1> QED
  BY <1>1, EncodeDecode DEF Digits

\* The other numbers of the invariant.
LEMMA Numbers ==
  ASSUME Inv
  PROVE  /\ GivenX \in Nat /\ GivenS \in Nat
         /\ \A c \in Cors : MAXX(prev[c]) \in Nat /\ MAXS(prev[c]) \in Nat
<1>1. \A c \in Cors : MAXX(prev[c]) \in Nat /\ MAXS(prev[c]) \in Nat
  BY TakeApart, ConstantFacts DEF Inv, TypeOK, MAXX, MAXS, Digits
<1> QED
  BY <1>1, ConstantFacts DEF Inv, GivenOK

\* Tickets that were too many exist only while the word is sold out.
LEMMA FullIsSoldOut ==
  ASSUME Inv
  PROVE  /\ Full(word) <=> SoldOut
         /\ ~SoldOut => \A m : Reverting(m) = {}
         /\ ~SoldOut => GivenX = MAXX(word) /\ GivenS = MAXS(word)
<1>1. ~SoldOut => \A m : Reverting(m) = {}
  BY DEF Inv, SoldOutOK, Reverting
<1>2. ~SoldOut => GivenX = MAXX(word) /\ GivenS = MAXS(word)
  BY <1>1, CardZero, Lanes DEF Inv, GivenX, GivenS
<1>3. \A m : Cardinality(Reverting(m)) \in Nat
  BY CardOrder DEF Reverting
<1>4. Full(word) <=> SoldOut
  BY <1>2, <1>3, Lanes, ConstantFacts DEF Inv, GivenOK, SoldOut, GivenX, GivenS, Full
<1> QED
  BY <1>1, <1>2, <1>4

\* An exclusive ticket that is next is the only one that is.
LEMMA Alone ==
  ASSUME TypeOK, NumberedOK, ServedOK
  PROVE  Exclusion
<1> SUFFICES ASSUME NEW c \in Cors, NEW d \in Cors, c # d, pc[c] = "held", pc[d] = "held",
                    mode[c] = "EXCLUSIVE"
             PROVE  FALSE
  BY ConstantFacts DEF TypeOK, Exclusion
<1>1. MAXX(prev[c]) = NX(word) /\ MAXS(prev[c]) = NS(word) /\ MAXX(prev[d]) = NX(word)
  BY DEF ServedOK, Served
<1>2. mode[d] # "EXCLUSIVE"
  BY <1>1 DEF NumberedOK, HasTicket
<1>3. d \in Ahead(c)
  <2>1. mode[d] = "SHARED"
    BY <1>2, ConstantFacts DEF TypeOK
  <2>2. MAXX(prev[d]) <= MAXX(prev[c])
    BY <1>1, Lanes
  <2> QED
    BY <2>1, <2>2 DEF Ahead, HasTicket
<1>4. Cardinality(Ahead(c)) <= 0
  BY <1>1, Lanes DEF ServedOK, HasTicket
<1>5. Cardinality(Ahead(c)) \in Nat
  BY CardOrder DEF Ahead
<1> QED
  BY <1>3, <1>4, <1>5, CardZero DEF Ahead
-----------------------------------------------------------------------------
(* Every step preserves the invariant                                      *)
-----------------------------------------------------------------------------
LEMMA PollStep ==
  ASSUME Inv, NEW c \in Cors, Poll(c)
  PROVE  Inv'
<1>1. TypeOK'
  BY DEF Inv, TypeOK, Poll, Goto
<1>2. \A m : Reverting(m)' = Reverting(m) /\ InHand(m)' = InHand(m)
  BY DEF Inv, TypeOK, Poll, Goto, Reverting, InHand
<1>3. GivenX' = GivenX /\ GivenS' = GivenS
  BY <1>2 DEF Poll, GivenX, GivenS
<1>4. ~forced
  <2>1. MAXS(prev[c]) <= GivenS
    BY DEF Inv, NumberedOK, HasTicket, Poll
  <2>2. forced => GivenS < NS(word)
    BY DEF Inv, ForcedOK
  <2> QED
    BY <2>1, <2>2, Lanes, Numbers DEF Inv, Poll
<1>5. GivenOK' /\ SoldOutOK' /\ DutyOK'
  BY <1>3 DEF Inv, TypeOK, Poll, Goto, GivenOK, SoldOutOK, DutyOK, SoldOut, OnDuty
<1>6. \A d \in Cors : HasTicket(d)' = HasTicket(d)
  BY DEF Inv, TypeOK, Poll, Goto, HasTicket
<1>7. NumberedOK'
  BY <1>3, <1>6 DEF Inv, Poll, NumberedOK
<1>8. TicketsCounted'
  BY <1>2 DEF Inv, Poll, TicketsCounted
<1>9. \A d \in Cors : Ahead(d)' = Ahead(d)
  BY <1>6 DEF Poll, Ahead
<1>10. ServedOK'
  BY <1>4, <1>6, <1>9 DEF Inv, TypeOK, Poll, Goto, ServedOK
<1>11. Exclusion'
  BY <1>1, <1>7, <1>10, Alone, PTL
<1> QED
  BY <1>1, <1>4, <1>5, <1>7, <1>8, <1>10, <1>11 DEF Inv, Poll

\* A coroutine drops its ticket: it goes from the tickets in hand to the lost.
LEMMA DropStep ==
  ASSUME Inv, NEW c \in Cors, PollPassed(c) \/ Expire(c)
  PROVE  Inv'
<1>0. /\ pc[c] \in {"wait", "held"} /\ pc' = [pc EXCEPT ![c] = "idle"]
      /\ leaked' = [leaked EXCEPT ![mode[c]] = @ + 1]
      /\ word' = word /\ mode' = mode /\ prev' = prev /\ resetFrom' = resetFrom /\ forced' = forced
  BY DEF PollPassed, Expire, Goto
<1>0a. mode[c] \in {"SHARED", "EXCLUSIVE"}
  BY ConstantFacts DEF Inv, TypeOK
<1>1. TypeOK'
  <2>1. last' \in [Cors -> Nat]
    BY DEF Inv, TypeOK, PollPassed, Expire
  <2>2. leaked' \in [{"SHARED", "EXCLUSIVE"} -> Nat]
    BY <1>0, <1>0a DEF Inv, TypeOK
  <2>3. pc' \in [Cors -> {"idle", "held", "wait", "revert", "backoff", "reset"}]
    BY <1>0 DEF Inv, TypeOK
  <2> QED
    BY <1>0, <2>1, <2>2, <2>3 DEF Inv, TypeOK
<1>2. /\ \A m : Reverting(m)' = Reverting(m)
      /\ \A m : InHand(m)' = InHand(m) \ {c}
      /\ \A m : Holding(m)' = Holding(m) \ {c}
  BY <1>0 DEF Inv, TypeOK, Reverting, InHand, Holding
<1>3. GivenX' = GivenX /\ GivenS' = GivenS
  BY <1>0, <1>2 DEF GivenX, GivenS
<1>4. \A d \in Cors : /\ HasTicket(d)' <=> HasTicket(d) /\ d # c
                      /\ OnDuty(d)' <=> OnDuty(d) /\ d # c
  BY <1>0 DEF Inv, TypeOK, HasTicket, OnDuty
<1>5. GivenOK' /\ SoldOutOK' /\ DutyOK'
  BY <1>0, <1>3, <1>4 DEF Inv, TypeOK, GivenOK, SoldOutOK, DutyOK, SoldOut
<1>6. NumberedOK'
  BY <1>0, <1>3, <1>4 DEF Inv, NumberedOK
<1>7. Exclusion'
  BY <1>0 DEF Inv, TypeOK, Exclusion
<1>8. TicketsCounted'
  <2>1. InHand(mode[c])' = InHand(mode[c]) \ {c} /\ c \in InHand(mode[c])
    BY <1>0, <1>2 DEF InHand
  <2>2. \A m : m # mode[c] => InHand(m)' = InHand(m)
    BY <1>2 DEF InHand
  <2>3. Cardinality(InHand(mode[c])') = Cardinality(InHand(mode[c])) - 1
    BY <2>1, CardMinus DEF InHand
  <2>4. \A m : Cardinality(InHand(m)) \in Nat
    BY CardOrder DEF InHand
  <2>5. leaked'[mode[c]] = leaked[mode[c]] + 1
         /\ \A m \in {"SHARED", "EXCLUSIVE"} : m # mode[c] => leaked'[m] = leaked[m]
    BY <1>0, <1>0a DEF Inv, TypeOK
  <2>6. leaked \in [{"SHARED", "EXCLUSIVE"} -> Nat]
    BY DEF Inv, TypeOK
  <2> QED
    BY <1>0, <1>0a, <2>2, <2>3, <2>4, <2>5, <2>6 DEF Inv, TicketsCounted
<1>9. ~forced => ServedOK'
  <2> SUFFICES ASSUME ~forced PROVE ServedOK'
    OBVIOUS
  <2>1. \A d \in Cors : Ahead(d)' = Ahead(d) \ {c}
    BY <1>0, <1>4 DEF Ahead
  <2>2. \A d \in Cors : /\ Cardinality(Ahead(d)') <= Cardinality(Ahead(d))
                        /\ Cardinality(Ahead(d)') \in Nat /\ Cardinality(Ahead(d)) \in Nat
    BY <2>1, CardOrder DEF Ahead
  <2>3. \A d \in Cors : HasTicket(d) /\ mode[d] = "EXCLUSIVE" =>
           Cardinality(Ahead(d)') <= MAXS(prev[d]) - NS(word)
    BY <2>2, Lanes, Numbers DEF Inv, ServedOK
  <2> QED
    BY <1>0, <1>4, <2>3 DEF Inv, TypeOK, ServedOK
<1>10. forced => ForcedOK'
  <2>1. \A m : /\ Cardinality(Holding(m)') <= Cardinality(Holding(m))
               /\ Cardinality(Holding(m)') \in Nat /\ Cardinality(Holding(m)) \in Nat
    BY <1>2, CardOrder DEF Holding
  <2>2. SoldOut' = SoldOut
    BY <1>3 DEF SoldOut
  <2> QED
    BY <1>0, <1>3, <2>1, <2>2, Lanes, ConstantFacts DEF Inv, ForcedOK
<1> QED
  BY <1>0, <1>1, <1>5, <1>6, <1>7, <1>8, <1>9, <1>10 DEF Inv

\* A reader that has backed off returns and leaves the word alone.
LEMMA BackoffStep ==
  ASSUME Inv, NEW c \in Cors, pc[c] = "backoff", pc' = [pc EXCEPT ![c] = "idle"],
         last' = [last EXCEPT ![c] = prev[c]],
         UNCHANGED << word, mode, prev, resetFrom, tries, leaked, forced >>
  PROVE  Inv'
<1>1. TypeOK'
  BY DEF Inv, TypeOK
<1>2. \A m : Reverting(m)' = Reverting(m) /\ InHand(m)' = InHand(m) /\ Holding(m)' = Holding(m)
  BY DEF Inv, TypeOK, Reverting, InHand, Holding
<1>3. GivenX' = GivenX /\ GivenS' = GivenS
  BY <1>2 DEF GivenX, GivenS
<1>4. \A d \in Cors : HasTicket(d)' = HasTicket(d) /\ OnDuty(d)' = OnDuty(d)
  BY DEF Inv, TypeOK, HasTicket, OnDuty
<1>5. \A d \in Cors : Ahead(d)' = Ahead(d)
  BY <1>4 DEF Ahead
<1>6. GivenOK' /\ SoldOutOK' /\ DutyOK'
  BY <1>3, <1>4 DEF Inv, TypeOK, GivenOK, SoldOutOK, DutyOK, SoldOut
<1>7. NumberedOK' /\ TicketsCounted'
  BY <1>2, <1>3, <1>4 DEF Inv, NumberedOK, TicketsCounted
<1>8. Exclusion'
  BY DEF Inv, TypeOK, Exclusion
<1>9. ~forced => ServedOK'
  BY <1>4, <1>5 DEF Inv, TypeOK, ServedOK
<1>10. forced => ForcedOK'
  BY <1>2, <1>3 DEF Inv, ForcedOK, SoldOut
<1> QED
  BY <1>1, <1>6, <1>7, <1>8, <1>9, <1>10 DEF Inv

\* A forced reset counts everything given out as given back, and one more.
LEMMA ForceResetStep ==
  ASSUME Inv, NEW c \in Cors, ForceReset(c)
  PROVE  Inv'
<1>1. CASE word # prev[c]
  BY <1>1, BackoffStep DEF ForceReset, Goto
<1>2. CASE word = prev[c]
  <2>0. /\ pc[c] = "backoff" /\ pc' = [pc EXCEPT ![c] = "idle"] /\ forced'
        /\ word' = Encode(MAXX(word), MAXS(word) + 1, MAXX(word), MAXS(word))
        /\ mode' = mode /\ prev' = prev /\ resetFrom' = resetFrom /\ leaked' = leaked
    BY <1>2 DEF ForceReset, Goto
  <2>1. SoldOut
    BY <1>2, <2>0, FullIsSoldOut DEF Inv, SoldOutOK
  <2>2. /\ word' \in 0 .. Space - 1 /\ NX(word') = MAXX(word) /\ NS(word') = MAXS(word) + 1
        /\ MAXX(word') = MAXX(word) /\ MAXS(word') = MAXS(word)
    <3>1. MAXS(word) + 1 \in Digits
      <4>1. MAXS(word) <= COUNT_MAX + Cardinality(Cors)
        BY DEF Inv, TypeOK
      <4>2. \A m : Cardinality(Reverting(m)) \in Nat /\ Cardinality(Reverting(m) \cup {c}) <= Cardinality(Cors)
        BY CardOrder DEF Reverting
      <4>3. Cardinality(Reverting("SHARED") \cup {c}) = Cardinality(Reverting("SHARED")) + 1
        BY <2>0, CardPlus DEF Reverting
      <4> QED
        BY <4>2, <4>3, Lanes, ConstantFacts DEF Inv, GivenOK, GivenS, Digits
    <3> QED
      BY <2>0, <3>1, Lanes, DecodeEncode DEF Inv
  <2>3. \A m : Reverting(m)' = Reverting(m) /\ InHand(m)' = InHand(m) /\ Holding(m)' = Holding(m)
    BY <2>0 DEF Inv, TypeOK, Reverting, InHand, Holding
  <2>4. GivenX' = GivenX /\ GivenS' = GivenS
    BY <2>2, <2>3 DEF GivenX, GivenS
  <2>5. \A d \in Cors : HasTicket(d)' = HasTicket(d) /\ OnDuty(d)' = OnDuty(d)
    BY <2>0 DEF Inv, TypeOK, HasTicket, OnDuty
  <2>6. TypeOK'
    <3>1. last' \in [Cors -> Nat]
      BY DEF Inv, TypeOK, ForceReset
    <3> QED
      BY <2>0, <2>2, <3>1 DEF Inv, TypeOK, Space
  <2>7. GivenOK' /\ SoldOutOK' /\ DutyOK'
    BY <2>0, <2>4, <2>5 DEF Inv, TypeOK, GivenOK, SoldOutOK, DutyOK, SoldOut
  <2>8. NumberedOK'
    BY <2>0, <2>4, <2>5 DEF Inv, NumberedOK
  <2>9. Exclusion'
    BY <2>0 DEF Inv, TypeOK, Exclusion
  <2>10. ForcedOK'
    <3>1. \A m : Cardinality(Reverting(m)) + Cardinality(Holding(m)) + 1 <= Cardinality(Cors)
      <4> TAKE m
      <4> DEFINE U == Reverting(m) \cup Holding(m)
      <4>1. Reverting(m) \cap Holding(m) = {} /\ c \notin U /\ U \subseteq Cors
        BY <2>0 DEF Reverting, Holding
      <4>2. IsFiniteSet(Reverting(m)) /\ IsFiniteSet(Holding(m))
        BY ConstantFacts, FS_Subset DEF Reverting, Holding
      <4>3. Cardinality(U) = Cardinality(Reverting(m)) + Cardinality(Holding(m)) - 0
        BY <4>1, <4>2, FS_Union, FS_EmptySet
      <4>4. Cardinality(U \cup {c}) = Cardinality(U) + 1
        BY <4>1, CardPlus
      <4>5. Cardinality(U \cup {c}) <= Cardinality(Cors)
        BY <4>1, CardOrder
      <4>6. Cardinality(Reverting(m)) \in Nat /\ Cardinality(Holding(m)) \in Nat
        BY CardOrder DEF Reverting, Holding
      <4> QED
        BY <4>3, <4>4, <4>5, <4>6
    <3>2. \A m : Cardinality(Reverting(m)) \in Nat /\ Cardinality(Holding(m)) \in Nat
      BY CardOrder DEF Reverting, Holding
    <3>3. SoldOut' /\ GivenS' < NS(word')
      BY <2>1, <2>2, <2>4, <3>2, Lanes DEF SoldOut, Inv, GivenS
    <3>4. MAXX(word) = GivenX + Cardinality(Reverting("EXCLUSIVE"))
          /\ MAXS(word) = GivenS + Cardinality(Reverting("SHARED"))
      BY <3>2, Lanes DEF Inv, GivenX, GivenS
    <3>5. GivenX <= COUNT_MAX /\ GivenS <= COUNT_MAX /\ GivenX \in Nat /\ GivenS \in Nat
      BY Numbers, ConstantFacts DEF Inv, GivenOK
    <3>6. /\ MAXX(word) + Cardinality(Holding("EXCLUSIVE")) <= COUNT_MAX + Cardinality(Cors)
          /\ MAXS(word) + 1 + Cardinality(Holding("SHARED")) <= COUNT_MAX + Cardinality(Cors)
      BY <3>1, <3>2, <3>4, <3>5, ConstantFacts
    <3> QED
      BY <2>2, <2>3, <3>3, <3>6 DEF ForcedOK
  <2> QED
    BY <2>0, <2>6, <2>7, <2>8, <2>9, <2>10 DEF Inv, TicketsCounted
<1> QED
  BY <1>1, <1>2

\* A revert takes back what the fetch-and-add of the same call has added.
LEMMA RevertStep ==
  ASSUME Inv, NEW c \in Cors, Revert(c)
  PROVE  Inv'
<1> DEFINE to == IF mode[c] = "SHARED" THEN "backoff" ELSE "idle"
<1>0. /\ pc[c] = "revert" /\ pc' = [pc EXCEPT ![c] = to] /\ to \in {"backoff", "idle"}
      /\ FetchAdd(MaxOf(mode[c]), -1)
      /\ mode' = mode /\ prev' = prev /\ resetFrom' = resetFrom /\ leaked' = leaked
      /\ forced' = forced /\ last' = last
  BY DEF Revert, Goto
<1> HIDE DEF to
<1>1. mode[c] \in {"SHARED", "EXCLUSIVE"}
  BY ConstantFacts DEF Inv, TypeOK
<1>2. /\ \A m : Reverting(m)' = Reverting(m) \ {c} /\ InHand(m)' = InHand(m) \ {c}
      /\ \A m : Holding(m)' = Holding(m)
      /\ c \in Reverting(mode[c]) /\ c \in InHand(mode[c])
      /\ \A m : m # mode[c] => c \notin Reverting(m) /\ c \notin InHand(m)
  BY <1>0 DEF Inv, TypeOK, Reverting, InHand, Holding
<1>3. \A m : Cardinality(Reverting(m)) \in Nat /\ Cardinality(InHand(m)) \in Nat
  BY CardOrder DEF Reverting, InHand
<1>4. \A m : IF m = mode[c]
            THEN /\ Cardinality(Reverting(m)') = Cardinality(Reverting(m)) - 1
                 /\ Cardinality(InHand(m)') = Cardinality(InHand(m)) - 1
                 /\ Cardinality(Reverting(m)') \in Nat
            ELSE Reverting(m)' = Reverting(m) /\ InHand(m)' = InHand(m)
  <2> TAKE m
  <2>1. CASE m = mode[c]
    <3>1. Reverting(m) \in SUBSET Cors /\ InHand(m) \in SUBSET Cors
      BY DEF Reverting, InHand
    <3>2. /\ Cardinality(Reverting(m) \ {c}) = Cardinality(Reverting(m)) - 1
          /\ Cardinality(InHand(m) \ {c}) = Cardinality(InHand(m)) - 1
      BY <1>2, <2>1, <3>1, CardMinus
    <3>3. Cardinality(Reverting(m) \ {c}) \in Nat
      BY <3>1, CardOrder
    <3> QED
      BY <1>2, <2>1, <3>2, <3>3
  <2>2. CASE m # mode[c]
    BY <1>2, <2>2
  <2> QED
    BY <2>1, <2>2
<1>5. /\ word' \in 0 .. Space - 1 /\ NX(word') = NX(word) /\ NS(word') = NS(word)
      /\ mode[c] = "SHARED" => MAXS(word') = MAXS(word) - 1 /\ MAXX(word') = MAXX(word)
      /\ mode[c] = "EXCLUSIVE" => MAXX(word') = MAXX(word) - 1 /\ MAXS(word') = MAXS(word)
  <2>1. CASE mode[c] = "SHARED"
    <3>1. MAXS(word) + -1 \in Digits
      BY <1>3, <1>4, <2>1, Lanes, ConstantFacts DEF Inv, GivenOK, GivenS, Digits
    <3> QED
      BY <1>0, <2>1, <3>1, Lanes, LanesAfter DEF Inv, MaxOf
  <2>2. CASE mode[c] = "EXCLUSIVE"
    <3>1. MAXX(word) + -1 \in Digits
      BY <1>3, <1>4, <2>2, Lanes, ConstantFacts DEF Inv, GivenOK, GivenX, Digits
    <3> QED
      BY <1>0, <2>2, <3>1, Lanes, LanesAfter DEF Inv, MaxOf
  <2> QED
    BY <1>1, <2>1, <2>2
<1>6. GivenX' = GivenX /\ GivenS' = GivenS
  BY <1>1, <1>3, <1>4, <1>5, Lanes DEF Inv, GivenX, GivenS
<1>7. TypeOK'
  <2>1. MAXX(word') <= COUNT_MAX + Cardinality(Cors) /\ MAXS(word') <= COUNT_MAX + Cardinality(Cors)
    BY <1>1, <1>5, Lanes, ConstantFacts DEF Inv, TypeOK
  <2>2. pc' \in [Cors -> {"idle", "held", "wait", "revert", "backoff", "reset"}]
    BY <1>0 DEF Inv, TypeOK
  <2> QED
    BY <1>0, <1>5, <2>1, <2>2 DEF Inv, TypeOK, Space
<1>8. \A d \in Cors : HasTicket(d)' = HasTicket(d) /\ OnDuty(d)' = OnDuty(d)
  BY <1>0 DEF Inv, TypeOK, HasTicket, OnDuty
<1>9. GivenOK' /\ SoldOutOK' /\ DutyOK'
  BY <1>0, <1>6, <1>8 DEF Inv, TypeOK, GivenOK, SoldOutOK, DutyOK, SoldOut
<1>10. NumberedOK'
  BY <1>0, <1>6, <1>8 DEF Inv, NumberedOK
<1>11. Exclusion'
  BY <1>0 DEF Inv, TypeOK, Exclusion
<1>12. TicketsCounted'
  <2>1. leaked \in [{"SHARED", "EXCLUSIVE"} -> Nat]
    BY DEF Inv, TypeOK
  <2> QED
    BY <1>0, <1>1, <1>3, <1>4, <1>5, <2>1, Lanes DEF Inv, TicketsCounted
<1>13. ~forced => ServedOK'
  <2>1. \A d \in Cors : Ahead(d)' = Ahead(d)
    BY <1>0, <1>8 DEF Ahead
  <2> QED
    BY <1>0, <1>5, <1>8, <2>1 DEF Inv, TypeOK, ServedOK, Served
<1>14. forced => ForcedOK'
  <2>1. SoldOut' = SoldOut
    BY <1>6 DEF SoldOut
  <2> QED
    BY <1>2, <1>5, <1>6, <2>1 DEF Inv, ForcedOK
<1> QED
  BY <1>0, <1>7, <1>9, <1>10, <1>11, <1>12, <1>13, <1>14 DEF Inv

\* The word is back to zero only when no ticket is in anybody's hand.
LEMMA ResetStep ==
  ASSUME Inv, NEW c \in Cors, Reset(c)
  PROVE  Inv'
<1>0. /\ pc[c] = "reset" /\ pc' = [pc EXCEPT ![c] = "idle"]
      /\ word = resetFrom[c] /\ word' = 0 /\ resetFrom' = [resetFrom EXCEPT ![c] = 0]
      /\ mode' = mode /\ prev' = prev /\ leaked' = leaked /\ forced' = forced /\ last' = last
  BY DEF Reset, Goto
<1>1. word = Encode(GivenX, GivenS, GivenX, GivenS) /\ OnDuty(c)
  BY <1>0 DEF Inv, DutyOK, OnDuty
<1>2. GivenX \in Digits /\ GivenS \in Digits
  BY Numbers, ConstantFacts DEF Inv, GivenOK, Digits
<1>3. NX(word) = GivenX /\ NS(word) = GivenS /\ MAXX(word) = GivenX /\ MAXS(word) = GivenS
  BY <1>1, <1>2, DecodeEncode
<1>4. ~forced
  BY <1>3, Numbers DEF Inv, ForcedOK
<1>5. \A m \in {"SHARED", "EXCLUSIVE"} : Cardinality(InHand(m)) = 0 /\ leaked[m] = 0
  <2>1. \A m : Cardinality(InHand(m)) \in Nat
    BY CardOrder DEF InHand
  <2>2. leaked \in [{"SHARED", "EXCLUSIVE"} -> Nat]
    BY DEF Inv, TypeOK
  <2> QED
    BY <1>3, <1>4, <2>1, <2>2, Numbers DEF Inv, TicketsCounted
<1>6. \A d \in Cors : pc[d] \notin {"held", "wait", "revert"}
  <2>1. \A m \in {"SHARED", "EXCLUSIVE"} : InHand(m) = {}
    BY <1>5, CardZero DEF InHand
  <2>2. \A d \in Cors : mode[d] \in {"SHARED", "EXCLUSIVE"}
    BY ConstantFacts DEF Inv, TypeOK
  <2> QED
    BY <2>1, <2>2 DEF InHand
<1>7. \A d \in Cors : pc'[d] \notin {"held", "wait", "revert", "reset"}
  BY <1>0, <1>1, <1>6 DEF Inv, TypeOK, DutyOK, OnDuty
<1>8. \A d \in Cors : ~HasTicket(d)' /\ ~OnDuty(d)'
  BY <1>7 DEF HasTicket, OnDuty
<1>9. NX(word') = 0 /\ NS(word') = 0 /\ MAXX(word') = 0 /\ MAXS(word') = 0
  <2>1. 0 \in Digits /\ Encode(0, 0, 0, 0) = 0
    BY ConstantFacts, SMT DEF Digits, Encode
  <2> QED
    BY <1>0, <2>1, DecodeEncode
<1>10. TypeOK'
  <2>1. word' \in 0 .. Lane * Lane * Lane * Lane - 1
    BY <1>0, ConstantFacts, SMT
  <2>2. MAXX(word') <= COUNT_MAX + Cardinality(Cors) /\ MAXS(word') <= COUNT_MAX + Cardinality(Cors)
    BY <1>9, ConstantFacts
  <2> QED
    BY <1>0, <2>1, <2>2 DEF Inv, TypeOK
<1>11. \A m : Reverting(m)' = {} /\ InHand(m)' = {}
  BY <1>7 DEF Reverting, InHand
<1>12. GivenX' = 0 /\ GivenS' = 0
  BY <1>9, <1>11, CardZero DEF GivenX, GivenS
<1>13. GivenOK' /\ SoldOutOK' /\ DutyOK'
  <2>1. GivenOK'
    BY <1>12, ConstantFacts DEF GivenOK
  <2>2. SoldOutOK'
    BY <1>0, <1>7, <1>8 DEF Inv, TypeOK, SoldOutOK
  <2> QED
    BY <1>7, <1>8, <2>1, <2>2 DEF DutyOK
<1>14. NumberedOK' /\ ServedOK' /\ Exclusion'
  BY <1>7, <1>8 DEF NumberedOK, ServedOK, Exclusion
<1>15. TicketsCounted'
  BY <1>0, <1>5, <1>9, <1>11, CardZero DEF TicketsCounted
<1> QED
  BY <1>0, <1>4, <1>10, <1>13, <1>14, <1>15 DEF Inv

\* What the two kinds of releases share: a ticket leaves the hands and the
\* lane of the next ticket to be served moves on by one.
LEMMA ReleaseCounts ==
  ASSUME Inv, NEW c \in Cors, pc[c] = "held",
         NEW to \in {"reset", "idle"}, to = "reset" <=> resetFrom[c] > 0,
         pc' = [pc EXCEPT ![c] = to],
         UNCHANGED << mode, prev, resetFrom, last, tries, leaked, forced >>,
         word' \in 0 .. Space - 1, MAXX(word') = MAXX(word), MAXS(word') = MAXS(word),
         NX(word') = IF mode[c] = "EXCLUSIVE" THEN NX(word) + 1 ELSE NX(word),
         NS(word') = IF mode[c] = "SHARED" THEN NS(word) + 1 ELSE NS(word)
  PROVE  /\ TypeOK' /\ GivenOK' /\ SoldOutOK' /\ DutyOK' /\ NumberedOK' /\ Exclusion'
         /\ TicketsCounted' /\ (forced => ForcedOK')
         /\ \A d \in Cors : HasTicket(d)' <=> HasTicket(d) /\ d # c
<1>1. mode[c] \in {"SHARED", "EXCLUSIVE"}
  BY ConstantFacts DEF Inv, TypeOK
<1>2. /\ \A m : Reverting(m)' = Reverting(m)
      /\ \A m : InHand(m)' = InHand(m) \ {c}
      /\ \A m : Holding(m)' = Holding(m) \ {c}
      /\ c \in InHand(mode[c]) /\ c \in Holding(mode[c])
      /\ \A m : m # mode[c] => c \notin InHand(m) /\ c \notin Holding(m)
  BY DEF Inv, TypeOK, Reverting, InHand, Holding
<1>3. \A m : /\ Cardinality(InHand(m)) \in Nat /\ Cardinality(Holding(m)) \in Nat
             /\ IF m = mode[c]
                THEN /\ Cardinality(InHand(m)') = Cardinality(InHand(m)) - 1
                     /\ Cardinality(Holding(m)') = Cardinality(Holding(m)) - 1
                ELSE InHand(m)' = InHand(m) /\ Holding(m)' = Holding(m)
  <2> TAKE m
  <2>1. InHand(m) \in SUBSET Cors /\ Holding(m) \in SUBSET Cors
    BY DEF InHand, Holding
  <2>2. Cardinality(InHand(m)) \in Nat /\ Cardinality(Holding(m)) \in Nat
    BY <2>1, CardOrder
  <2>3. m = mode[c] => /\ Cardinality(InHand(m) \ {c}) = Cardinality(InHand(m)) - 1
                       /\ Cardinality(Holding(m) \ {c}) = Cardinality(Holding(m)) - 1
    BY <1>2, <2>1, CardMinus
  <2> QED
    BY <1>2, <2>2, <2>3
<1>4. GivenX' = GivenX /\ GivenS' = GivenS
  BY <1>2 DEF GivenX, GivenS
<1>5. TypeOK'
  BY DEF Inv, TypeOK, Space
<1>6. \A d \in Cors : /\ HasTicket(d)' <=> HasTicket(d) /\ d # c
                      /\ OnDuty(d)' = OnDuty(d)
  BY DEF Inv, TypeOK, HasTicket, OnDuty
<1>7. GivenOK' /\ SoldOutOK' /\ DutyOK'
  BY <1>4, <1>6 DEF Inv, TypeOK, GivenOK, SoldOutOK, DutyOK, SoldOut
<1>8. NumberedOK'
  BY <1>4, <1>6 DEF Inv, NumberedOK
<1>9. Exclusion'
  BY DEF Inv, TypeOK, Exclusion
<1>10. TicketsCounted'
  <2>1. leaked \in [{"SHARED", "EXCLUSIVE"} -> Nat]
    BY DEF Inv, TypeOK
  <2> QED
    <3>1. CASE mode[c] = "SHARED"
      <4>1. /\ Cardinality(InHand("SHARED")') = Cardinality(InHand("SHARED")) - 1
            /\ InHand("EXCLUSIVE")' = InHand("EXCLUSIVE")
        BY <1>3, <3>1
      <4> QED
        BY <1>3, <2>1, <3>1, <4>1, Lanes DEF Inv, TicketsCounted
    <3>2. CASE mode[c] = "EXCLUSIVE"
      <4>1. /\ Cardinality(InHand("EXCLUSIVE")') = Cardinality(InHand("EXCLUSIVE")) - 1
            /\ InHand("SHARED")' = InHand("SHARED")
        BY <1>3, <3>2
      <4> QED
        BY <1>3, <2>1, <3>2, <4>1, Lanes DEF Inv, TicketsCounted
    <3> QED
      BY <1>1, <3>1, <3>2
<1>11. forced => ForcedOK'
  <2>1. SoldOut' = SoldOut
    BY <1>4 DEF SoldOut
  <2> QED
    BY <1>1, <1>3, <1>4, <2>1, Lanes, Numbers, ConstantFacts DEF Inv, ForcedOK
<1> QED
  BY <1>5, <1>6, <1>7, <1>8, <1>9, <1>10, <1>11

LEMMA ReleaseStep ==
  ASSUME Inv, NEW c \in Cors, Release(c)
  PROVE  Inv'
<1> DEFINE to == IF resetFrom[c] > 0 THEN "reset" ELSE "idle"
<1>0. /\ pc[c] = "held" /\ HasTicket(c) /\ pc' = [pc EXCEPT ![c] = to]
      /\ to \in {"reset", "idle"} /\ (to = "reset" <=> resetFrom[c] > 0)
      /\ FetchAdd(NextOf(mode[c]), 1)
      /\ UNCHANGED << mode, prev, resetFrom, last, tries, leaked, forced >>
  BY DEF Release, Goto, HasTicket
<1> HIDE DEF to
<1>1. mode[c] \in {"SHARED", "EXCLUSIVE"}
  BY ConstantFacts DEF Inv, TypeOK
<1>2. c \in Holding(mode[c]) /\ c \in InHand(mode[c])
  BY <1>0 DEF Holding, InHand
<1>3. /\ \A m : Cardinality(Holding(m)) \in Nat /\ Cardinality(InHand(m)) \in Nat
      /\ Cardinality(Holding(mode[c])) >= 1 /\ Cardinality(InHand(mode[c])) >= 1
  <2>1. \A m : /\ Holding(m) \in SUBSET Cors /\ InHand(m) \in SUBSET Cors
               /\ Cardinality(Holding(m)) \in Nat /\ Cardinality(InHand(m)) \in Nat
    BY CardOrder DEF Holding, InHand
  <2>2. Cardinality(Holding(mode[c])) # 0 /\ Cardinality(InHand(mode[c])) # 0
    BY <1>2, <2>1, CardZero
  <2> QED
    BY <2>1, <2>2
<1>4. /\ mode[c] = "EXCLUSIVE" => NX(word) + 1 \in Digits
      /\ mode[c] = "SHARED" => NS(word) + 1 \in Digits
  <2>1. CASE forced
    BY <1>3, <2>1, Lanes, ConstantFacts DEF Inv, ForcedOK, Digits
  <2>2. CASE ~forced
    <3>1. leaked \in [{"SHARED", "EXCLUSIVE"} -> Nat]
      BY DEF Inv, TypeOK
    <3>2. mode[c] = "SHARED" => NS(word) + 1 <= MAXS(word)
      BY <1>3, <2>2, <3>1, Lanes DEF Inv, TicketsCounted
    <3>3. mode[c] = "EXCLUSIVE" => NX(word) + 1 <= MAXX(word)
      BY <1>3, <2>2, <3>1, Lanes DEF Inv, TicketsCounted
    <3> QED
      BY <3>2, <3>3, Lanes, ConstantFacts DEF Inv, Digits
  <2> QED
    BY <2>1, <2>2
<1>5. /\ word' \in 0 .. Space - 1 /\ MAXX(word') = MAXX(word) /\ MAXS(word') = MAXS(word)
      /\ NX(word') = IF mode[c] = "EXCLUSIVE" THEN NX(word) + 1 ELSE NX(word)
      /\ NS(word') = IF mode[c] = "SHARED" THEN NS(word) + 1 ELSE NS(word)
  BY <1>0, <1>1, <1>4, Lanes, LanesAfter DEF Inv, NextOf
<1>6. /\ TypeOK' /\ GivenOK' /\ SoldOutOK' /\ DutyOK' /\ NumberedOK' /\ Exclusion'
      /\ TicketsCounted' /\ (forced => ForcedOK')
      /\ \A d \in Cors : HasTicket(d)' <=> HasTicket(d) /\ d # c
  BY <1>0, <1>5, ReleaseCounts
<1>7. ASSUME ~forced PROVE ServedOK'
  <2>1. ServedOK /\ MAXX(prev[c]) = NX(word)
    BY <1>0, <1>7 DEF Inv, ServedOK, Served
  <2>2. ASSUME NEW d \in Cors, pc'[d] = "held"
        PROVE  Served(mode[d], prev[d], word')
    <3>1. d # c /\ pc[d] = "held" /\ mode[c] = "SHARED" /\ mode[d] = "SHARED"
      BY <1>0, <2>2 DEF Inv, TypeOK, Exclusion
    <3> QED
      BY <1>5, <2>1, <3>1 DEF ServedOK, Served
  <2>3. ASSUME NEW d \in Cors, HasTicket(d)', mode[d] = "EXCLUSIVE"
        PROVE  /\ NX(word') <= MAXX(prev[d])
               /\ Cardinality(Ahead(d)') <= MAXS(prev[d]) - NS(word')
    <3>1. HasTicket(d) /\ d # c
      BY <1>6, <2>3
    <3>2. NX(word) <= MAXX(prev[d]) /\ Cardinality(Ahead(d)) <= MAXS(prev[d]) - NS(word)
      BY <2>1, <2>3, <3>1 DEF ServedOK
    <3>3. Ahead(d)' = Ahead(d) \ {c}
      BY <1>0, <1>6 DEF Ahead
    <3>4. Ahead(d) \in SUBSET Cors /\ Cardinality(Ahead(d)) \in Nat
      BY CardOrder DEF Ahead
    <3>5. CASE mode[c] = "EXCLUSIVE"
      <4>1. MAXX(prev[d]) # MAXX(prev[c])
        BY <1>0, <2>3, <3>1, <3>5 DEF Inv, NumberedOK
      <4>2. Ahead(d)' = Ahead(d)
        BY <3>3, <3>5 DEF Ahead
      <4> QED
        BY <1>5, <2>1, <3>2, <3>5, <4>1, <4>2, Lanes, Numbers DEF Inv
    <3>6. CASE mode[c] = "SHARED"
      <4>1. c \in Ahead(d)
        BY <1>0, <2>1, <3>2, <3>6 DEF Ahead
      <4>2. Cardinality(Ahead(d)') = Cardinality(Ahead(d)) - 1
        BY <3>3, <3>4, <4>1, CardMinus
      <4> QED
        BY <1>5, <3>2, <3>4, <3>6, <4>2, Lanes, Numbers DEF Inv
    <3> QED
      BY <1>1, <3>5, <3>6
  <2> QED
    BY <1>0, <2>2, <2>3 DEF ServedOK
<1> QED
  BY <1>0, <1>6, <1>7 DEF Inv

\* A ticket that is one too many: its number is counted until it is reverted.
LEMMA TooManyStep ==
  ASSUME Inv, NEW c \in Cors, NEW m \in Modes, pc[c] = "idle", Full(word),
         mode' = [mode EXCEPT ![c] = m], FetchAdd(MaxOf(m), 1),
         pc' = [pc EXCEPT ![c] = "revert"], resetFrom' = [resetFrom EXCEPT ![c] = 0],
         prev' = [prev EXCEPT ![c] = word], UNCHANGED << last, leaked, forced >>
  PROVE  Inv'
<1>1. m \in {"SHARED", "EXCLUSIVE"}
  BY ConstantFacts
<1>2. SoldOut
  BY FullIsSoldOut
<1>3. /\ \A n : c \notin Reverting(n) /\ c \notin InHand(n) /\ Holding(n)' = Holding(n)
      /\ \A n : n # m => Reverting(n)' = Reverting(n) /\ InHand(n)' = InHand(n)
      /\ Reverting(m)' = Reverting(m) \cup {c} /\ InHand(m)' = InHand(m) \cup {c}
  BY DEF Inv, TypeOK, Reverting, InHand, Holding
<1>4. /\ \A n : /\ Reverting(n) \in SUBSET Cors /\ InHand(n) \in SUBSET Cors
                /\ Cardinality(Reverting(n)) \in Nat /\ Cardinality(InHand(n)) \in Nat
      /\ Cardinality(Reverting(m)') = Cardinality(Reverting(m)) + 1
      /\ Cardinality(InHand(m)') = Cardinality(InHand(m)) + 1
      /\ Cardinality(Reverting(m)') <= Cardinality(Cors)
  <2>1. \A n : Reverting(n) \in SUBSET Cors /\ InHand(n) \in SUBSET Cors
    BY DEF Reverting, InHand
  <2>2. \A n : Cardinality(Reverting(n)) \in Nat /\ Cardinality(InHand(n)) \in Nat
    BY <2>1, CardOrder
  <2>3. Cardinality(Reverting(m) \cup {c}) <= Cardinality(Cors)
    BY <2>1, CardOrder
  <2> QED
    BY <1>3, <2>1, <2>2, <2>3, CardPlus
<1>4a. \A n : /\ Cardinality(Reverting(n)') = Cardinality(Reverting(n)) + (IF n = m THEN 1 ELSE 0)
             /\ Cardinality(InHand(n)') = Cardinality(InHand(n)) + (IF n = m THEN 1 ELSE 0)
  <2> TAKE n
  <2>1. CASE n = m
    BY <1>4, <2>1
  <2>2. CASE n # m
    BY <1>3, <1>4, <2>2
  <2> QED
    BY <2>1, <2>2
<1>5. /\ word' \in 0 .. Space - 1 /\ NX(word') = NX(word) /\ NS(word') = NS(word)
      /\ m = "SHARED" => MAXS(word') = MAXS(word) + 1 /\ MAXX(word') = MAXX(word)
      /\ m = "EXCLUSIVE" => MAXX(word') = MAXX(word) + 1 /\ MAXS(word') = MAXS(word)
  <2>1. CASE m = "SHARED"
    <3>1. MAXS(word) + 1 \in Digits
      BY <1>4, <2>1, Lanes, ConstantFacts DEF Inv, GivenOK, GivenS, Digits
    <3> QED
      BY <2>1, <3>1, Lanes, LanesAfter DEF Inv, MaxOf
  <2>2. CASE m = "EXCLUSIVE"
    <3>1. MAXX(word) + 1 \in Digits
      BY <1>4, <2>2, Lanes, ConstantFacts DEF Inv, GivenOK, GivenX, Digits
    <3> QED
      BY <2>2, <3>1, Lanes, LanesAfter DEF Inv, MaxOf
  <2> QED
    BY <1>1, <2>1, <2>2
<1>6. GivenX' = GivenX /\ GivenS' = GivenS
  BY <1>1, <1>4, <1>4a, <1>5, Lanes DEF Inv, GivenX, GivenS
<1>7. TypeOK'
  <2>1. MAXX(word') <= COUNT_MAX + Cardinality(Cors) /\ MAXS(word') <= COUNT_MAX + Cardinality(Cors)
    <3>1. CASE m = "SHARED"
      BY <1>4, <1>5, <3>1, Lanes, ConstantFacts DEF Inv, TypeOK, GivenOK, GivenS
    <3>2. CASE m = "EXCLUSIVE"
      BY <1>4, <1>5, <3>2, Lanes, ConstantFacts DEF Inv, TypeOK, GivenOK, GivenX
    <3> QED
      BY <1>1, <3>1, <3>2
  <2>2. prev' \in [Cors -> Nat] /\ resetFrom' \in [Cors -> Nat]
    <3>1. word \in Nat
      BY Lanes, ConstantFacts, SMT DEF Inv, Space
    <3> QED
      BY <3>1 DEF Inv, TypeOK
  <2>3. pc' \in [Cors -> {"idle", "held", "wait", "revert", "backoff", "reset"}]
    BY DEF Inv, TypeOK
  <2>4. mode' \in [Cors -> Modes]
    BY DEF Inv, TypeOK
  <2> QED
    BY <1>5, <2>1, <2>2, <2>3, <2>4 DEF Inv, TypeOK, Space
<1>8. \A d \in Cors : /\ HasTicket(d)' = HasTicket(d) /\ OnDuty(d)' = OnDuty(d)
                      /\ HasTicket(d) \/ OnDuty(d) => d # c
                      /\ d # c => /\ mode'[d] = mode[d] /\ prev'[d] = prev[d]
                                  /\ resetFrom'[d] = resetFrom[d] /\ pc'[d] = pc[d]
  BY DEF Inv, TypeOK, HasTicket, OnDuty
<1>9. GivenOK' /\ DutyOK'
  <2>1. GivenOK'
    BY <1>6 DEF Inv, GivenOK
  <2>2. \A d \in Cors : pc'[d] = "reset" => d # c
    BY DEF Inv, TypeOK
  <2> QED
    BY <1>6, <1>8, <2>1, <2>2 DEF Inv, DutyOK
<1>10. SoldOutOK'
  <2>1. prev'[c] = word
    BY DEF Inv, TypeOK
  <2>2. SoldOut'
    BY <1>2, <1>6 DEF SoldOut
  <2> QED
    BY <1>8, <2>1, <2>2 DEF Inv, SoldOutOK
<1>11. NumberedOK'
  BY <1>6, <1>8 DEF Inv, NumberedOK
<1>12. Exclusion'
  BY DEF Inv, TypeOK, Exclusion
<1>13. TicketsCounted'
  <2>1. leaked \in [{"SHARED", "EXCLUSIVE"} -> Nat]
    BY DEF Inv, TypeOK
  <2> QED
    BY <1>1, <1>4, <1>4a, <1>5, <2>1, Lanes DEF Inv, TicketsCounted
<1>14. ~forced => ServedOK'
  <2>1. \A d \in Cors : HasTicket(d) => Ahead(d)' = Ahead(d)
    BY <1>8 DEF Ahead
  <2>2. \A d \in Cors : pc'[d] = "held" => HasTicket(d)
    BY <1>8 DEF HasTicket
  <2> QED
    BY <1>5, <1>8, <2>1, <2>2 DEF Inv, ServedOK, Served
<1>15. forced => ForcedOK'
  <2>1. SoldOut'
    BY <1>2, <1>6 DEF SoldOut
  <2> QED
    BY <1>3, <1>5, <1>6, <2>1 DEF Inv, ForcedOK
<1> QED
  BY <1>7, <1>9, <1>10, <1>11, <1>12, <1>13, <1>14, <1>15 DEF Inv

\* The last ticket of a lane, and no other, comes with the reset.
LEMMA DutyOfLast ==
  ASSUME NEW m \in {"SHARED", "EXCLUSIVE"}, NEW w, MAXX(w) \in 0 .. COUNT_MAX - 1,
         MAXS(w) \in 0 .. COUNT_MAX - 1
  PROVE  LET x == IF m = "EXCLUSIVE" THEN MAXX(w) + 1 ELSE MAXX(w)
             s == IF m = "SHARED" THEN MAXS(w) + 1 ELSE MAXS(w)
         IN  /\ ResetDuty(m, w) \in Nat
             /\ ResetDuty(m, w) > 0 => /\ ResetDuty(m, w) = Encode(x, s, x, s)
                                       /\ x = COUNT_MAX \/ s = COUNT_MAX
<1>1. 0 \in Nat /\ ~(0 > 0)
  OBVIOUS
<1>2. \A a, b \in Digits : Encode(a, b, a, b) \in Nat
  BY DecodeEncode, ConstantFacts, SMT DEF Space
<1>3. MAXX(w) \in Digits /\ MAXS(w) \in Digits /\ COUNT_MAX \in Digits
  BY ConstantFacts DEF Digits
<1>4. COUNT_MAX - 1 + 1 = COUNT_MAX
  BY ConstantFacts
<1>5. CASE m = "SHARED"
  <2>1. CASE MAXS(w) = COUNT_MAX - 1
    BY <1>2, <1>3, <1>4, <1>5, <2>1 DEF ResetDuty
  <2>2. CASE MAXS(w) # COUNT_MAX - 1
    BY <1>1, <1>5, <2>2 DEF ResetDuty
  <2> QED
    BY <2>1, <2>2
<1>6. CASE m = "EXCLUSIVE"
  <2>1. CASE MAXX(w) = COUNT_MAX - 1
    BY <1>2, <1>3, <1>4, <1>6, <2>1 DEF ResetDuty
  <2>2. CASE MAXX(w) # COUNT_MAX - 1
    BY <1>1, <1>6, <2>2 DEF ResetDuty
  <2> QED
    BY <2>1, <2>2
<1> QED
  BY <1>5, <1>6

\* A ticket is given out: its number is larger than that of every other one.
LEMMA GivenStep ==
  ASSUME Inv, NEW c \in Cors, NEW m \in Modes, pc[c] = "idle", ~Full(word),
         mode' = [mode EXCEPT ![c] = m], FetchAdd(MaxOf(m), 1),
         NEW to \in {"held", "wait"}, to = "held" <=> Served(m, word, word),
         pc' = [pc EXCEPT ![c] = to],
         resetFrom' = [resetFrom EXCEPT ![c] = ResetDuty(m, word)],
         prev' = [prev EXCEPT ![c] = word], UNCHANGED << last, leaked, forced >>
  PROVE  Inv'
<1>1. m \in {"SHARED", "EXCLUSIVE"}
  BY ConstantFacts
<1>2. /\ ~SoldOut /\ ~forced /\ GivenX = MAXX(word) /\ GivenS = MAXS(word)
      /\ \A d \in Cors : pc[d] # "revert" /\ ~OnDuty(d)
      /\ \A n : Reverting(n) = {}
  BY FullIsSoldOut DEF Inv, ForcedOK, SoldOutOK
<1>3. MAXX(word) \in 0 .. COUNT_MAX - 1 /\ MAXS(word) \in 0 .. COUNT_MAX - 1
  BY Lanes, ConstantFacts DEF Inv, Full
<1>4. /\ \A n : c \notin InHand(n)
      /\ \A n : n # m => InHand(n)' = InHand(n)
      /\ InHand(m)' = InHand(m) \cup {c}
      /\ \A n : Reverting(n)' = {}
  BY <1>2 DEF Inv, TypeOK, InHand, Reverting
<1>5. \A n : /\ Cardinality(InHand(n)) \in Nat
             /\ Cardinality(InHand(n)') = Cardinality(InHand(n)) + (IF n = m THEN 1 ELSE 0)
  <2> TAKE n
  <2>1. InHand(n) \in SUBSET Cors
    BY DEF InHand
  <2>2. Cardinality(InHand(n)) \in Nat
    BY <2>1, CardOrder
  <2>3. CASE n = m
    BY <1>4, <2>1, <2>2, <2>3, CardPlus
  <2>4. CASE n # m
    BY <1>4, <2>2, <2>4
  <2> QED
    BY <2>2, <2>3, <2>4
<1>6. /\ word' \in 0 .. Space - 1 /\ NX(word') = NX(word) /\ NS(word') = NS(word)
      /\ MAXX(word') = IF m = "EXCLUSIVE" THEN MAXX(word) + 1 ELSE MAXX(word)
      /\ MAXS(word') = IF m = "SHARED" THEN MAXS(word) + 1 ELSE MAXS(word)
  <2>1. MAXS(word) + 1 \in Digits /\ MAXX(word) + 1 \in Digits
    BY <1>3, ConstantFacts DEF Digits
  <2> QED
    BY <1>1, <2>1, Lanes, LanesAfter DEF Inv, MaxOf
<1>7. GivenX' = MAXX(word') /\ GivenS' = MAXS(word')
  BY <1>1, <1>3, <1>4, <1>6, CardZero DEF GivenX, GivenS
<1>8. TypeOK'
  <2>1. MAXX(word') <= COUNT_MAX + Cardinality(Cors) /\ MAXS(word') <= COUNT_MAX + Cardinality(Cors)
    BY <1>1, <1>3, <1>6, ConstantFacts
  <2>2. prev' \in [Cors -> Nat]
    <3>1. word \in Nat
      BY Lanes, ConstantFacts, SMT DEF Inv, Space
    <3> QED
      BY <3>1 DEF Inv, TypeOK
  <2>3. resetFrom' \in [Cors -> Nat]
    BY <1>1, <1>3, DutyOfLast DEF Inv, TypeOK
  <2>4. pc' \in [Cors -> {"idle", "held", "wait", "revert", "backoff", "reset"}]
    BY DEF Inv, TypeOK
  <2>5. mode' \in [Cors -> Modes]
    BY DEF Inv, TypeOK
  <2> QED
    BY <1>6, <2>1, <2>2, <2>3, <2>4, <2>5 DEF Inv, TypeOK, Space
<1>9. /\ ~HasTicket(c) /\ HasTicket(c)'
      /\ mode'[c] = m /\ prev'[c] = word /\ pc'[c] = to /\ resetFrom'[c] = ResetDuty(m, word)
      /\ \A d \in Cors : d # c => /\ HasTicket(d)' = HasTicket(d) /\ ~OnDuty(d)'
                                  /\ mode'[d] = mode[d] /\ prev'[d] = prev[d]
                                  /\ resetFrom'[d] = resetFrom[d] /\ pc'[d] = pc[d]
  BY <1>2 DEF Inv, TypeOK, HasTicket, OnDuty
<1>10. GivenOK'
  BY <1>1, <1>3, <1>6, <1>7, ConstantFacts DEF GivenOK
<1>11. OnDuty(c)' => /\ SoldOut'
                     /\ resetFrom'[c] = Encode(GivenX', GivenS', GivenX', GivenS')
  <2>1. OnDuty(c)' => ResetDuty(m, word) > 0
    BY <1>9 DEF OnDuty
  <2> QED
    BY <1>1, <1>3, <1>6, <1>7, <1>9, <2>1, DutyOfLast DEF SoldOut
<1>12. SoldOutOK' /\ DutyOK'
  <2>1. SoldOutOK'
    BY <1>2, <1>9, <1>11 DEF Inv, SoldOutOK
  <2>2. \A d \in Cors : pc'[d] = "reset" => resetFrom'[d] > 0
    BY <1>9 DEF Inv, DutyOK
  <2> QED
    BY <1>9, <1>11, <2>1, <2>2 DEF DutyOK
<1>13. NumberedOK'
  <2>1. \A d \in Cors : d # c /\ HasTicket(d) =>
          /\ MAXX(prev[d]) <= MAXX(word) /\ MAXS(prev[d]) <= MAXS(word)
          /\ mode[d] = "EXCLUSIVE" => MAXX(prev[d]) < MAXX(word)
    BY <1>2 DEF Inv, NumberedOK
  <2>2. \A d \in Cors : HasTicket(d)' =>
          /\ MAXX(prev'[d]) <= GivenX' /\ MAXS(prev'[d]) <= GivenS'
          /\ mode'[d] = "EXCLUSIVE" => MAXX(prev'[d]) < GivenX'
    <3>1. ASSUME NEW d \in Cors, HasTicket(d)', d # c
          PROVE  /\ MAXX(prev'[d]) <= GivenX' /\ MAXS(prev'[d]) <= GivenS'
                 /\ mode'[d] = "EXCLUSIVE" => MAXX(prev'[d]) < GivenX'
      BY <1>1, <1>3, <1>6, <1>7, <1>9, <2>1, <3>1, Lanes, Numbers DEF Inv
    <3>2. /\ MAXX(prev'[c]) <= GivenX' /\ MAXS(prev'[c]) <= GivenS'
          /\ mode'[c] = "EXCLUSIVE" => MAXX(prev'[c]) < GivenX'
      BY <1>1, <1>3, <1>6, <1>7, <1>9, Lanes DEF Inv
    <3> QED
      BY <3>1, <3>2
  <2>3. \A d \in Cors : d # c /\ HasTicket(d)' /\ mode'[d] = "EXCLUSIVE" =>
          MAXX(prev'[d]) # MAXX(prev'[c])
    BY <1>9, <2>1, Lanes, Numbers DEF Inv
  <2> QED
    BY <1>9, <2>2, <2>3 DEF Inv, NumberedOK
<1>14. leaked \in [{"SHARED", "EXCLUSIVE"} -> Nat]
  BY DEF Inv, TypeOK
<1>15. TicketsCounted'
  BY <1>1, <1>2, <1>5, <1>6, <1>14, Lanes DEF Inv, TicketsCounted
<1>16. ServedOK'
  <2>1. ASSUME NEW d \in Cors, pc'[d] = "held"
        PROVE  Served(mode'[d], prev'[d], word')
    <3>1. CASE d = c
      BY <1>6, <1>9, <2>1, <3>1 DEF Served
    <3>2. CASE d # c
      BY <1>2, <1>6, <1>9, <2>1, <3>2 DEF Inv, ServedOK, Served
    <3> QED
      BY <3>1, <3>2
  <2>2. ASSUME NEW d \in Cors, HasTicket(d)', mode'[d] = "EXCLUSIVE"
        PROVE  /\ NX(word') <= MAXX(prev'[d])
               /\ Cardinality(Ahead(d)') <= MAXS(prev'[d]) - NS(word')
    <3>1. CASE d # c
      <4>1. HasTicket(d) /\ mode[d] = "EXCLUSIVE" /\ MAXX(prev[d]) < MAXX(word)
        BY <1>2, <1>9, <2>2, <3>1 DEF Inv, NumberedOK
      <4>2. ~(MAXX(word) <= MAXX(prev[d]))
        BY <4>1, Lanes, Numbers DEF Inv
      <4>3. Ahead(d)' = Ahead(d)
        BY <1>9, <3>1, <4>2 DEF Ahead
      <4> QED
        BY <1>2, <1>6, <1>9, <3>1, <4>1, <4>3 DEF Inv, ServedOK
    <3>2. CASE d = c
      <4>1. Ahead(d)' \subseteq InHand("SHARED") /\ InHand("SHARED") \in SUBSET Cors
        BY <1>9, <2>2, <3>2 DEF Ahead, InHand, HasTicket
      <4>2. Cardinality(Ahead(d)') <= Cardinality(InHand("SHARED")) /\ Cardinality(Ahead(d)') \in Nat
        BY <4>1, CardOrder
      <4>3. Cardinality(InHand("SHARED")) <= MAXS(word) - NS(word) /\ NX(word) <= MAXX(word)
        BY <1>2, <1>5, <1>14, Lanes DEF Inv, TicketsCounted
      <4> QED
        BY <1>5, <1>6, <1>9, <3>2, <4>2, <4>3, Lanes DEF Inv
    <3> QED
      BY <3>1, <3>2
  <2> QED
    BY <2>1, <2>2 DEF ServedOK
<1>17. Exclusion'
  BY <1>8, <1>13, <1>16, Alone, PTL
<1> QED
  BY <1>2, <1>8, <1>10, <1>12, <1>13, <1>15, <1>16, <1>17 DEF Inv

LEMMA TakeTicketStep ==
  ASSUME Inv, NEW c \in Cors, TakeTicket(c)
  PROVE  Inv'
<1>1. PICK m \in Modes :
        /\ mode' = [mode EXCEPT ![c] = m]
        /\ FetchAdd(MaxOf(m), 1)
        /\ IF Full(word)
           THEN Goto(c, "revert") /\ resetFrom' = [resetFrom EXCEPT ![c] = 0]
           ELSE /\ resetFrom' = [resetFrom EXCEPT ![c] = ResetDuty(m, word)]
                /\ Goto(c, IF Served(m, word, word) THEN "held" ELSE "wait")
  BY DEF TakeTicket
<1>2. /\ pc[c] = "idle" /\ prev' = [prev EXCEPT ![c] = word]
      /\ UNCHANGED << last, leaked, forced >>
  BY DEF TakeTicket
<1>3. CASE Full(word)
  BY <1>1, <1>2, <1>3, TooManyStep DEF Goto
<1>4. CASE ~Full(word)
  <2> DEFINE to == IF Served(m, word, word) THEN "held" ELSE "wait"
  <2>1. to \in {"held", "wait"} /\ (to = "held" <=> Served(m, word, word))
    OBVIOUS
  <2>2. pc' = [pc EXCEPT ![c] = to]
    BY <1>1, <1>4 DEF Goto
  <2> HIDE DEF to
  <2> QED
    BY <1>1, <1>2, <1>4, <2>1, <2>2, GivenStep
<1> QED
  BY <1>3, <1>4
-----------------------------------------------------------------------------
(* The theorems                                                            *)
-----------------------------------------------------------------------------
LEMMA InvInit == Init => Inv
<1> SUFFICES ASSUME Init PROVE Inv
  OBVIOUS
<1>1. \A c \in Cors : pc[c] = "idle"
  BY DEF Init
<1>2. NX(word) = 0 /\ NS(word) = 0 /\ MAXX(word) = 0 /\ MAXS(word) = 0
  <2>1. 0 \in Digits /\ Encode(0, 0, 0, 0) = 0
    BY ConstantFacts, SMT DEF Digits, Encode
  <2> QED
    BY <2>1, DecodeEncode DEF Init
<1>3. word \in 0 .. Lane * Lane * Lane * Lane - 1
  BY ConstantFacts, SMT DEF Init
<1>4. TypeOK
  BY <1>2, <1>3, ConstantFacts DEF Init, TypeOK
<1>5. \A m : Cardinality(Reverting(m)) = 0 /\ Cardinality(InHand(m)) = 0
  <2>1. \A m : Reverting(m) = {} /\ InHand(m) = {}
    BY <1>1 DEF Reverting, InHand
  <2> QED
    BY <2>1, CardZero
<1>6. GivenX = 0 /\ GivenS = 0
  BY <1>2, <1>5 DEF GivenX, GivenS
<1>7. GivenOK
  BY <1>6, ConstantFacts DEF GivenOK
<1>8. SoldOutOK /\ DutyOK /\ NumberedOK /\ Exclusion /\ ServedOK
  BY <1>1 DEF SoldOutOK, DutyOK, NumberedOK, Exclusion, ServedOK, OnDuty, HasTicket
<1>9. TicketsCounted
  BY <1>2, <1>5 DEF Init, TicketsCounted
<1> QED
  BY <1>4, <1>7, <1>8, <1>9 DEF Init, Inv

LEMMA InvStutter ==
  ASSUME Inv, UNCHANGED vars
  PROVE  Inv'
BY ZenonT(40) DEF vars, Inv, TypeOK, GivenOK, SoldOutOK, DutyOK, NumberedOK, Exclusion, TicketsCounted,
       ServedOK, ForcedOK, GivenX, GivenS, SoldOut, OnDuty, HasTicket, Reverting, Holding,
       Ahead, InHand

LEMMA InvNext == Inv /\ [Next]_vars => Inv'
<1> SUFFICES ASSUME Inv, [Next]_vars PROVE Inv'
  OBVIOUS
<1>1. CASE UNCHANGED vars
  BY <1>1, InvStutter
<1>2. ASSUME NEW c \in Cors, TakeTicket(c) \/ Step(c) PROVE Inv'
  <2>1. CASE TakeTicket(c)
    BY <2>1, TakeTicketStep
  <2>2. CASE Poll(c)
    BY <2>2, PollStep
  <2>3. CASE PollPassed(c) \/ Expire(c)
    BY <2>3, DropStep
  <2>4. CASE Revert(c)
    BY <2>4, RevertStep
  <2>5. CASE BackoffOver(c)
    BY <2>5, BackoffStep DEF BackoffOver, Goto
  <2>6. CASE ForceReset(c)
    BY <2>6, ForceResetStep
  <2>7. CASE Release(c)
    BY <2>7, ReleaseStep
  <2>8. CASE Reset(c)
    BY <2>8, ResetStep
  <2>9. CASE PollAgain(c) \/ ResetAgain(c)
    BY <2>9, InvStutter DEF PollAgain, ResetAgain
  <2> QED
    BY <1>2, <2>1, <2>2, <2>3, <2>4, <2>5, <2>6, <2>7, <2>8, <2>9 DEF Step
<1>3. CASE Exhausted
  BY <1>3, InvStutter DEF Exhausted
<1> QED
  BY <1>1, <1>2, <1>3 DEF Next

\* The invariant holds in every reachable state.
THEOREM Invariance == Spec => []Inv
<1> QED
  BY InvInit, InvNext, PTL DEF Spec

\* No lane of the lock word ever runs into the next one: the fetch-and-adds of
\* acquireLock, its reverts and releaseLock stay inside their 16 bits, however
\* many requests are refused while the word is full.
THEOREM TypeCorrect == Spec => []TypeOK
<1>1. Inv => TypeOK
  BY DEF Inv
<1> QED
  BY <1>1, Invariance, PTL

\* An exclusive holder is alone, through leases that run out, requests that
\* give up, resets of the word by the last ticket and forced resets.
THEOREM HoldersExclude == Spec => []Exclusion
<1>1. Inv => Exclusion
  BY DEF Inv
<1> QED
  BY <1>1, Invariance, PTL

\* Until a forced reset the lanes count exactly the tickets that are in
\* somebody's hand or lost.
THEOREM LanesCount == Spec => []TicketsCounted
<1>1. Inv => TicketsCounted
  BY DEF Inv
<1> QED
  BY <1>1, Invariance, PTL
=============================================================================
