--------------------------- MODULE SundialProofs ---------------------------
(***************************************************************************)
(* Theorems about Sundial for every set of coroutines and records, every   *)
(* choice of clock readings, of homes and of records to read and to write, *)
(* in both builds.                                                         *)
(***************************************************************************)
EXTENDS Sundial, SequenceTheorems, TLAPS

Labels == {"idle", "exec", "read", "reading", "reread", "lock", "copy",
           "wait", "relf", "relp", "relc", "fetch", "renew", "upd"}
-----------------------------------------------------------------------------
(* The inductive invariant                                                 *)
-----------------------------------------------------------------------------
\* The record of the call under way and the batch under way.
PhaseOf(c) ==
  /\ pc[c] \in {"lock", "copy", "wait"} => \E k \in wset[c] : last[c] = {k}
  /\ pc[c] \in {"read", "reread"} => \E k \in rset[c] : last[c] = {k}
  /\ pc[c] = "reading" => \E k \in rset[c] \cup wset[c] : last[c] = {k}
  /\ pc[c] \in {"idle", "exec", "relp", "relc", "fetch", "renew", "upd"} => last[c] = {}
  /\ pc[c] \in {"fetch", "renew"} => pend[c] \subseteq rset[c]
  /\ pc[c] \in {"relf", "relp", "relc", "upd"} => pend[c] \subseteq wset[c]
  /\ pc[c] \notin {"fetch", "renew", "relf", "relp", "relc", "upd"} => pend[c] = {}
  /\ open[c] \subseteq pend[c]
  /\ pc[c] \notin {"fetch", "renew", "upd"} => open[c] = {}
  /\ pc[c] = "fetch" => verbs /\ pend[c] = rset[c]
  /\ pc[c] = "idle" => rset[c] = {} /\ wset[c] = {}
  /\ rset[c] \cap wset[c] = {}

Stamp(n, c) == n * 2048 + Id[c]

\* A running transaction is stamped with a reading of the clock.
StampOf(c) == pc[c] # "idle" => \E n \in Nat : ts[c] = Stamp(n, c)

Own(c) == PhaseOf(c) /\ StampOf(c)

\* What a coroutine has to do with a record: it writes the new version; it
\* holds the record and has begun, or finished, to copy it; it is copying it
\* under its lock, or to read it; it has read it; its renewal has looked at
\* the header; it has renewed the lease, or need not.
Writer(c, k) == pc[c] = "upd" /\ k \in open[c]
Copied(c, k) == k \in Holds(c) /\ k \notin open[c] /\ ~(pc[c] = "copy" /\ k \in last[c])
Writing(c, k) == k \in Holds(c) /\ k \notin open[c] /\ k \notin last[c]
Copying(c, k) == pc[c] = "reading" /\ k \in last[c] /\ k \in wset[c]
Reading(c, k) == pc[c] = "reading" /\ k \in last[c] /\ k \in rset[c]
HasRead(c, k) == k \in rset[c] /\ ~(pc[c] \in {"read", "reading"} /\ k \in last[c])
Fetched(c, k) == pc[c] \in {"fetch", "renew"} /\ k \in open[c]
Renewed(c, k) == pc[c] = "renew" /\ k \in rset[c] \ pend[c]

\* Nobody is writing the record.
Calm(k) == \A c \in Cors : ~Writer(c, k)

\* A record whose locks were respected.
DataOf(k) == Calm(k) => data[k] = Contents(Len(hist[k]))

HeldOf(c, k) ==
  /\ k \in Holds(c) => lock[k] = ts[c]
  /\ Writer(c, k) => /\ ver[c][k] = Contents(Len(hist[k]))
                     /\ \A n \in 1 .. 2 : n \in left[c][k] \/ data[k][n] = Len(hist[k])
  /\ Copied(c, k) => ver[c][k] = data[k]

\* The commit id of the newest version, and where its lease ends: the header
\* is older than the version until the new sequence word has landed.
Top(k) == hist[k][Len(hist[k])]
Ends(k) == IF seq[k].wts = Top(k) THEN seq[k].rts ELSE Top(k)

\* Version v is safe from being overwritten at or before x.
Covered(k, v, x) ==
  IF v < Len(hist[k]) THEN x < hist[k][v + 1] ELSE x <= Ends(k)

\* A header that some version has, or had.
HeaderFits(k, h) ==
  \E v \in 1 .. Len(hist[k]) :
    h.wts = hist[k][v] /\ h.wts <= h.rts /\ Covered(k, v, h.rts)

\* The leases and the versions of a record in the one-sided build.
OrderOf(k) ==
  /\ \A i, j \in 1 .. Len(hist[k]) : i < j => hist[k][i] < hist[k][j]
  /\ \A i \in 1 .. Len(hist[k]) : Covered(k, i, lease[k][i])
  /\ HeaderFits(k, seq[k])
  /\ Calm(k) => seq[k].wts = Top(k)

\* The commit id lies in the lease that was renewed.
WithinLease(c, k) ==
  \E v \in 1 .. Len(hist[k]) : item[c][k].wts = hist[k][v] /\ Covered(k, v, cid[c])

\* The copy is whole.
WholeCopy(c, k) ==
  \E v \in 1 .. Len(hist[k]) : item[c][k].wts = hist[k][v] /\ ver[c][k] = Contents(v)

LeaseOf(c, k) ==
  /\ Writer(c, k) => /\ item[c][k] = Lease(Top(k), Top(k))
                     /\ 3 \in left[c][k] <=> seq[k].wts # Top(k)
  /\ Writing(c, k) => seq[k].rts < cid[c]
  /\ Copying(c, k) => item[c][k] = seq[k]
  /\ Fetched(c, k) => HeaderFits(k, hdr[c][k][2])
  /\ Renewed(c, k) => WithinLease(c, k)
  /\ Reading(c, k) /\ k \notin over[c] =>
       Calm(k) /\ item[c][k].wts = Top(k) /\ ver[c][k] = Contents(Len(hist[k]))
  /\ HasRead(c, k) /\ k \notin over[c] => WholeCopy(c, k)

\* Neither the repeated release nor a renewal has spoilt the record.
Good(k) == verbs /\ k \notin stray /\ k \notin raced

Inv ==
  /\ TypeOK /\ NoLockLeaked
  /\ \A c \in Cors : Own(c)
  /\ \A k \in Keys : k \notin stray => DataOf(k)
  /\ \A c \in Cors, k \in Keys : k \notin stray => HeldOf(c, k)
  /\ \A k \in Keys : Good(k) => OrderOf(k)
  /\ \A c \in Cors, k \in Keys : Good(k) => LeaseOf(c, k)
-----------------------------------------------------------------------------
(* Types                                                                   *)
-----------------------------------------------------------------------------
\* The header a renewal has looked at.
LEMMA HeaderTypes ==
  ASSUME TypeOK, NEW c \in Cors, NEW k \in Keys
  PROVE  /\ hdr[c][k] \in Nat \X Header
         /\ hdr[c][k][1] \in Nat /\ hdr[c][k][2].wts \in Nat /\ hdr[c][k][2].rts \in Nat
<1>1. hdr[c][k] \in Nat \X Header
  BY DEF TypeOK
<1> QED
  BY <1>1 DEF Header

\* The elements of a sequence of numbers are numbers.
LEMMA ElementIsNat ==
  ASSUME NEW s \in Seq(Nat), NEW i \in 1 .. Len(s)
  PROVE  s[i] \in Nat
  OBVIOUS

\* The words, versions and contents of a record.
LEMMA RecordTypes ==
  ASSUME TypeOK, NEW k \in Keys
  PROVE  /\ seq[k] \in Header /\ seq[k].wts \in Nat /\ seq[k].rts \in Nat
         /\ hist[k] \in Seq(Nat) /\ Len(hist[k]) \in Nat /\ Len(hist[k]) > 0
         /\ lease[k] \in Seq(Nat) /\ Len(lease[k]) = Len(hist[k])
         /\ \A i \in 1 .. Len(hist[k]) : hist[k][i] \in Nat /\ lease[k][i] \in Nat
         /\ Len(hist[k]) \in 1 .. Len(hist[k]) /\ Top(k) \in Nat
         /\ data[k] \in [1 .. 2 -> Nat]
<1>1. seq[k] \in Header /\ hist[k] \in Seq(Nat) /\ lease[k] \in Seq(Nat)
  BY DEF TypeOK
<1>2. Len(lease[k]) = Len(hist[k]) /\ Len(hist[k]) > 0 /\ data[k] \in [1 .. 2 -> Nat]
  BY DEF TypeOK
<1>3. seq[k].wts \in Nat /\ seq[k].rts \in Nat
  BY <1>1 DEF Header
<1>4. Len(hist[k]) \in Nat
  BY <1>1
<1>5. ASSUME NEW i \in 1 .. Len(hist[k]) PROVE hist[k][i] \in Nat /\ lease[k][i] \in Nat
  <2>1. i \in 1 .. Len(lease[k])
    BY <1>2
  <2> QED
    BY <1>1, <2>1, ElementIsNat
<1>6. Len(hist[k]) \in 1 .. Len(hist[k])
  BY <1>2, <1>4
<1> QED
  BY <1>1, <1>2, <1>3, <1>4, <1>5, <1>6 DEF Top

\* Contents that are whole.
LEMMA ContentsFacts ==
  ASSUME NEW v \in Nat
  PROVE  /\ Contents(v) \in [1 .. 2 -> Nat]
         /\ \A n \in 1 .. 2 : Contents(v)[n] = v
         /\ \A f \in [1 .. 2 -> Nat] : (\A n \in 1 .. 2 : f[n] = v) => f = Contents(v)
BY DEF Contents

LEMMA LargerFacts ==
  ASSUME NEW a \in Nat, NEW b \in Nat
  PROVE  Larger(a, b) \in Nat /\ a <= Larger(a, b) /\ b <= Larger(a, b)
BY DEF Larger
-----------------------------------------------------------------------------
(* Stamps and locks                                                        *)
-----------------------------------------------------------------------------
LEMMA IdRange ==
  ASSUME NEW c \in Cors
  PROVE  \E a \in Int : a = Id[c] /\ 1 <= a /\ a <= 2047
<1>1. PICK a \in 1 .. 2047 : a = Id[c]
  BY SundialAssumption
<1>2. a \in Int /\ 1 <= a /\ a <= 2047
  OBVIOUS
<1> QED
  BY <1>1, <1>2

LEMMA StampUnique ==
  ASSUME NEW c \in Cors, NEW d \in Cors, NEW n \in Nat, NEW m \in Nat
  PROVE  /\ Stamp(n, c) \in Nat /\ Stamp(n, c) # 0
         /\ Stamp(n, c) = Stamp(m, d) => c = d
<1>1. PICK a \in Int : a = Id[c] /\ 1 <= a /\ a <= 2047
  BY IdRange
<1>2. PICK b \in Int : b = Id[d] /\ 1 <= b /\ b <= 2047
  BY IdRange
<1>3. Stamp(n, c) = n * 2048 + a /\ Stamp(m, d) = m * 2048 + b
  BY <1>1, <1>2 DEF Stamp
<1>4. ASSUME Stamp(n, c) = Stamp(m, d) PROVE a = b
  <2>1. n * 2048 + a = m * 2048 + b
    BY <1>3, <1>4
  <2> QED
    BY <1>1, <1>2, <2>1
<1>5. Stamp(n, c) \in Nat /\ Stamp(n, c) # 0
  BY <1>1, <1>3
<1> QED
  BY <1>1, <1>2, <1>4, <1>5, SundialAssumption

\* Two running transactions have different stamps, none of them 0.
LEMMA StampsDiffer ==
  ASSUME Inv, NEW c \in Cors, NEW d \in Cors, pc[c] # "idle"
  PROVE  /\ ts[c] # 0
         /\ pc[d] # "idle" /\ ts[c] = ts[d] => c = d
<1>1. \A e \in Cors : pc[e] # "idle" => \E n \in Nat : ts[e] = Stamp(n, e)
  BY DEF Inv, Own, StampOf
<1> QED
  BY <1>1, StampUnique

\* What follows from holding a record.
LEMMA HoldFacts ==
  ASSUME Inv, NEW c \in Cors, NEW k \in Keys, k \in Holds(c)
  PROVE  /\ k \in wset[c] /\ k \notin rset[c] /\ pc[c] # "idle" /\ pc[c] # "relc" /\ ts[c] # 0
         /\ k \notin stray => /\ lock[k] = ts[c]
                              /\ \A d \in Cors : k \in Holds(d) => d = c
<1>1. \A d \in Cors : k \in Holds(d) => pc[d] # "idle" /\ pc[d] # "relc"
  BY DEF Holds
<1>2. k \in wset[c] /\ k \notin rset[c]
  BY DEF Holds, Inv, Own, PhaseOf
<1>3. k \notin stray => \A d \in Cors : k \in Holds(d) => lock[k] = ts[d]
  BY DEF Inv, HeldOf
<1> QED
  BY <1>1, <1>2, <1>3, StampsDiffer

LEMMA HoldsKeys ==
  ASSUME TypeOK, NEW c \in Cors
  PROVE  Holds(c) \subseteq Keys
BY DEF Holds, TypeOK

\* The roles in which a record is held.
LEMMA RolesHold ==
  ASSUME Inv, NEW c \in Cors, NEW k \in Keys
  PROVE  /\ Writer(c, k) => k \in Holds(c)
         /\ Copied(c, k) => k \in Holds(c)
         /\ Writing(c, k) => k \in Holds(c)
         /\ Copying(c, k) => k \in Holds(c)
<1>1. Writer(c, k) => k \in Holds(c)
  BY DEF Writer, Holds, Inv, Own, PhaseOf
<1>2. Copying(c, k) => k \in Holds(c)
  BY DEF Copying, Holds
<1> QED
  BY <1>1, <1>2 DEF Copied, Writing

\* A record whose word is 0 is held by nobody.
LEMMA FreeRecord ==
  ASSUME Inv, NEW k \in Keys, k \notin stray, lock[k] = 0
  PROVE  Calm(k) /\ \A c \in Cors : k \notin Holds(c)
<1>1. ASSUME NEW c \in Cors PROVE k \notin Holds(c)
  BY HoldFacts
<1> QED
  BY <1>1, RolesHold DEF Calm

\* A record is written by its one holder.
LEMMA HeldCalm ==
  ASSUME Inv, NEW c \in Cors, NEW k \in Keys, k \notin stray, k \in Holds(c), k \notin open[c]
  PROVE  Calm(k)
<1> SUFFICES ASSUME NEW d \in Cors, Writer(d, k) PROVE FALSE
  BY DEF Calm
<1>1. k \in Holds(d)
  BY RolesHold
<1>2. d = c
  BY <1>1, HoldFacts
<1> QED
  BY <1>2 DEF Writer
-----------------------------------------------------------------------------
(* Frames                                                                  *)
-----------------------------------------------------------------------------
\* The step leaves the state of the other coroutines alone.
OnlyOf(c) ==
  \A d \in Cors \ {c} :
    /\ ts'[d] = ts[d] /\ cid'[d] = cid[d] /\ pc'[d] = pc[d]
    /\ rset'[d] = rset[d] /\ wset'[d] = wset[d] /\ last'[d] = last[d]
    /\ item'[d] = item[d] /\ ver'[d] = ver[d] /\ hdr'[d] = hdr[d]
    /\ pend'[d] = pend[d] /\ open'[d] = open[d] /\ left'[d] = left[d]
    /\ over[d] \subseteq over'[d]

LEMMA OthersKeep ==
  ASSUME Inv, NEW c \in Cors, OnlyOf(c), verbs' = verbs, NEW d \in Cors \ {c}
  PROVE  /\ Own(d)' /\ Holds(d)' = Holds(d)
         /\ \A k \in Keys :
              /\ Writer(d, k)' <=> Writer(d, k)
              /\ Copied(d, k)' <=> Copied(d, k)
              /\ Writing(d, k)' <=> Writing(d, k)
              /\ Copying(d, k)' <=> Copying(d, k)
              /\ Reading(d, k)' <=> Reading(d, k)
              /\ HasRead(d, k)' <=> HasRead(d, k)
              /\ Fetched(d, k)' <=> Fetched(d, k)
              /\ Renewed(d, k)' <=> Renewed(d, k)
<1>1. /\ ts'[d] = ts[d] /\ pc'[d] = pc[d]
      /\ rset'[d] = rset[d] /\ wset'[d] = wset[d] /\ last'[d] = last[d]
      /\ pend'[d] = pend[d] /\ open'[d] = open[d]
  BY DEF OnlyOf
<1>2. PhaseOf(d) /\ StampOf(d)
  BY DEF Inv, Own
<1>3. Holds(d)' = Holds(d)
  BY <1>1 DEF Holds
<1>4. ASSUME NEW k \in Keys
      PROVE  /\ Writer(d, k)' <=> Writer(d, k)
             /\ Copied(d, k)' <=> Copied(d, k)
             /\ Writing(d, k)' <=> Writing(d, k)
             /\ Copying(d, k)' <=> Copying(d, k)
  BY <1>1, <1>3 DEF Writer, Copied, Writing, Copying
<1>5. ASSUME NEW k \in Keys
      PROVE  /\ Reading(d, k)' <=> Reading(d, k)
             /\ HasRead(d, k)' <=> HasRead(d, k)
             /\ Fetched(d, k)' <=> Fetched(d, k)
             /\ Renewed(d, k)' <=> Renewed(d, k)
  BY <1>1 DEF Reading, HasRead, Fetched, Renewed
<1>6. PhaseOf(d)'
  BY <1>1, <1>2 DEF PhaseOf
<1>7. StampOf(d)'
  BY <1>1, <1>2 DEF StampOf
<1> QED
  BY <1>3, <1>4, <1>5, <1>6, <1>7 DEF Own

\* The versions of a record stay and remain covered.
Keeps(k) ==
  /\ Len(hist[k]) <= Len(hist'[k])
  /\ \A v \in 1 .. Len(hist[k]) : hist'[k][v] = hist[k][v]
  /\ \A v \in 1 .. Len(hist[k]) : \A x \in Nat : Covered(k, v, x) => Covered(k, v, x)'

LEMMA KeptHeader ==
  ASSUME TypeOK, TypeOK', NEW k \in Keys, Keeps(k), NEW h, h.rts \in Nat, HeaderFits(k, h)
  PROVE  HeaderFits(k, h)'
<1>1. PICK v \in 1 .. Len(hist[k]) :
        h.wts = hist[k][v] /\ h.wts <= h.rts /\ Covered(k, v, h.rts)
  BY DEF HeaderFits
<1>2. v \in 1 .. Len(hist'[k])
  <2>1. Len(hist[k]) \in Nat /\ Len(hist'[k]) \in Nat
    BY DEF TypeOK
  <2> QED
    BY <2>1 DEF Keeps
<1>3. hist'[k][v] = hist[k][v]
  BY DEF Keeps
<1>4. PICK x \in Nat : x = h.rts
  OBVIOUS
<1>5. Covered(k, v, x)'
  BY <1>1, <1>4 DEF Keeps
<1>6. \E w \in 1 .. Len(hist'[k]) :
        h.wts = hist'[k][w] /\ h.wts <= h.rts /\ Covered(k, w, x)'
  BY <1>1, <1>2, <1>3, <1>5
<1> QED
  BY <1>4, <1>6 DEF HeaderFits

\* A step of c on records and what the others rely on: the record they hold,
\* the versions they have seen, the record they are copying.
Held(c) ==
  \A k \in Keys, d \in Cors \ {c} : k \notin stray' /\ k \in Holds(d) =>
    /\ lock'[k] = lock[k] /\ data'[k] = data[k] /\ hist'[k] = hist[k]
    /\ Good(k)' => seq'[k] = seq[k]
Seen == \A k \in Keys : Good(k)' => Keeps(k)
Copies(c) ==
  \A k \in Keys, d \in Cors \ {c} :
    Good(k)' /\ Reading(d, k) /\ k \notin over'[d] => Calm(k)' /\ hist'[k] = hist[k]

LEMMA OtherHeld ==
  ASSUME Inv, NEW c \in Cors, OnlyOf(c), verbs' = verbs, Held(c), stray \subseteq stray',
         NEW d \in Cors \ {c}, NEW k \in Keys, k \notin stray'
  PROVE  HeldOf(d, k)'
<1>1. HeldOf(d, k)
  BY DEF Inv
<1>2. /\ Holds(d)' = Holds(d) /\ Writer(d, k)' = Writer(d, k) /\ Copied(d, k)' = Copied(d, k)
  <2>1. Writer(d, k)' \in BOOLEAN /\ Writer(d, k) \in BOOLEAN
        /\ Copied(d, k)' \in BOOLEAN /\ Copied(d, k) \in BOOLEAN
    BY DEF Writer, Copied
  <2> QED
    BY <2>1, OthersKeep
<1>3. ts'[d] = ts[d] /\ ver'[d] = ver[d] /\ left'[d] = left[d]
  BY DEF OnlyOf
<1>4. k \in Holds(d) => lock'[k] = lock[k] /\ data'[k] = data[k] /\ hist'[k] = hist[k]
  BY DEF Held
<1>5. CASE k \in Holds(d)
  BY <1>1, <1>2, <1>3, <1>4, <1>5 DEF HeldOf
<1>6. CASE k \notin Holds(d)
  <2>1. ~Writer(d, k) /\ ~Copied(d, k)
    BY <1>6, RolesHold
  <2> QED
    BY <1>2, <1>6, <2>1 DEF HeldOf
<1> QED
  BY <1>5, <1>6

\* A version that is known stays known.
LEMMA KeptVersion ==
  ASSUME TypeOK, TypeOK', NEW k \in Keys, Keeps(k), NEW v \in 1 .. Len(hist[k])
  PROVE  v \in 1 .. Len(hist'[k]) /\ hist'[k][v] = hist[k][v]
<1>1. Len(hist[k]) \in Nat /\ Len(hist'[k]) \in Nat
  BY DEF TypeOK
<1> QED
  BY <1>1 DEF Keeps

LEMMA OtherLease ==
  ASSUME Inv, TypeOK', NEW c \in Cors, OnlyOf(c), verbs' = verbs,
         Held(c), Seen, Copies(c),
         NEW d \in Cors \ {c}, NEW k \in Keys, Good(k), Good(k)'
  PROVE  LeaseOf(d, k)'
<1>1. LeaseOf(d, k) /\ TypeOK /\ Keeps(k) /\ k \notin stray'
  BY DEF Inv, Seen, Good
<1>2. /\ Writer(d, k)' => Writer(d, k)
      /\ Writing(d, k)' => Writing(d, k)
      /\ Copying(d, k)' => Copying(d, k)
      /\ Reading(d, k)' => Reading(d, k)
      /\ HasRead(d, k)' => HasRead(d, k)
      /\ Fetched(d, k)' => Fetched(d, k)
      /\ Renewed(d, k)' => Renewed(d, k)
  BY OthersKeep
<1>3. /\ cid'[d] = cid[d] /\ item'[d] = item[d] /\ ver'[d] = ver[d]
      /\ hdr'[d] = hdr[d] /\ left'[d] = left[d] /\ over[d] \subseteq over'[d]
  BY DEF OnlyOf
<1>4. k \in Holds(d) => hist'[k] = hist[k] /\ seq'[k] = seq[k]
  BY <1>1 DEF Held
<1>5. Writer(d, k)' => /\ item'[d][k] = Lease(Top(k), Top(k))'
                       /\ (3 \in left[d][k] <=> seq[k].wts # Top(k))'
  <2> SUFFICES ASSUME Writer(d, k)' PROVE item'[d][k] = Lease(Top(k), Top(k))'
                                          /\ (3 \in left[d][k] <=> seq[k].wts # Top(k))'
    OBVIOUS
  <2>1. hist'[k] = hist[k] /\ seq'[k] = seq[k] /\ Writer(d, k)
    BY <1>2, <1>4, RolesHold
  <2>2. item[d][k] = Lease(Top(k), Top(k)) /\ (3 \in left[d][k] <=> seq[k].wts # Top(k))
    BY <1>1, <2>1 DEF LeaseOf
  <2> QED
    BY <1>3, <2>1, <2>2 DEF Top, Lease
<1>6. (Writing(d, k) => seq[k].rts < cid[d])'
  BY <1>1, <1>2, <1>3, <1>4, RolesHold DEF LeaseOf
<1>7. (Copying(d, k) => item[d][k] = seq[k])'
  BY <1>1, <1>2, <1>3, <1>4, RolesHold DEF LeaseOf
<1>8. (Fetched(d, k) => HeaderFits(k, hdr[d][k][2]))'
  <2> SUFFICES ASSUME Fetched(d, k)' PROVE HeaderFits(k, hdr[d][k][2])'
    OBVIOUS
  <2>1. PICK h : h = hdr[d][k][2]
    OBVIOUS
  <2>2. HeaderFits(k, h) /\ h.rts \in Nat
    BY <1>1, <1>2, <2>1, HeaderTypes DEF LeaseOf
  <2>3. HeaderFits(k, h)'
    BY <1>1, <2>2, KeptHeader
  <2> QED
    BY <1>3, <2>1, <2>3
<1>9. (Renewed(d, k) => WithinLease(d, k))'
  <2> SUFFICES ASSUME Renewed(d, k)' PROVE WithinLease(d, k)'
    OBVIOUS
  <2>1. PICK v \in 1 .. Len(hist[k]) : item[d][k].wts = hist[k][v] /\ Covered(k, v, cid[d])
    BY <1>1, <1>2 DEF LeaseOf, WithinLease
  <2>2. PICK x \in Nat : x = cid[d]
    BY <1>1 DEF TypeOK
  <2>3. Covered(k, v, x)'
    BY <1>1, <2>1, <2>2 DEF Keeps
  <2>4. v \in 1 .. Len(hist'[k]) /\ hist'[k][v] = hist[k][v]
    BY <1>1, KeptVersion
  <2>5. x = cid'[d] /\ item'[d][k].wts = hist'[k][v]
    BY <1>3, <2>1, <2>2, <2>4
  <2> QED
    BY <2>3, <2>4, <2>5 DEF WithinLease, Covered
<1>10. (Reading(d, k) /\ k \notin over[d] =>
         Calm(k) /\ item[d][k].wts = Top(k) /\ ver[d][k] = Contents(Len(hist[k])))'
  <2> SUFFICES ASSUME Reading(d, k)', k \notin over'[d]
      PROVE (Calm(k) /\ item[d][k].wts = Top(k) /\ ver[d][k] = Contents(Len(hist[k])))'
    OBVIOUS
  <2>1. Reading(d, k) /\ k \notin over[d]
    BY <1>2, <1>3
  <2>2. Calm(k)' /\ hist'[k] = hist[k]
    BY <2>1 DEF Copies
  <2>3. item[d][k].wts = Top(k) /\ ver[d][k] = Contents(Len(hist[k]))
    BY <1>1, <2>1 DEF LeaseOf
  <2> QED
    BY <1>3, <2>2, <2>3 DEF Top, Contents
<1>11. (HasRead(d, k) /\ k \notin over[d] => WholeCopy(d, k))'
  <2> SUFFICES ASSUME HasRead(d, k)', k \notin over'[d] PROVE WholeCopy(d, k)'
    OBVIOUS
  <2>1. HasRead(d, k) /\ k \notin over[d]
    BY <1>2, <1>3
  <2>2. PICK v \in 1 .. Len(hist[k]) : item[d][k].wts = hist[k][v] /\ ver[d][k] = Contents(v)
    BY <1>1, <2>1 DEF LeaseOf, WholeCopy
  <2>3. v \in 1 .. Len(hist'[k]) /\ hist'[k][v] = hist[k][v]
    BY <1>1, KeptVersion
  <2>4. item'[d][k].wts = hist'[k][v] /\ ver'[d][k] = Contents(v)
    BY <1>3, <2>2, <2>3
  <2> QED
    BY <2>3, <2>4 DEF WholeCopy, Contents
<1> QED
  BY <1>5, <1>6, <1>7, <1>8, <1>9, <1>10, <1>11 DEF LeaseOf

\* A step of c keeps the invariant if it keeps what is said of c and of the
\* records, and what the others rely on.
LEMMA RecordFrame ==
  ASSUME Inv, NEW c \in Cors, OnlyOf(c), TypeOK', NoLockLeaked', Own(c)', verbs' = verbs,
         stray \subseteq stray', raced \subseteq raced', Held(c), Seen, Copies(c),
         \A k \in Keys : k \notin stray' => DataOf(k)' /\ HeldOf(c, k)',
         \A k \in Keys : Good(k)' => OrderOf(k)' /\ LeaseOf(c, k)'
  PROVE  Inv'
<1>1. ASSUME NEW k \in Keys, Good(k)' PROVE Good(k)
  BY <1>1 DEF Good
<1>2. ASSUME NEW d \in Cors PROVE Own(d)'
  BY OthersKeep
<1>3. ASSUME NEW d \in Cors, NEW k \in Keys, k \notin stray' PROVE HeldOf(d, k)'
  BY <1>3, OtherHeld
<1>4. ASSUME NEW d \in Cors, NEW k \in Keys, Good(k)' PROVE LeaseOf(d, k)'
  BY <1>1, <1>4, OtherLease
<1>5. (\A k \in Keys : k \notin stray => DataOf(k))' /\ (\A k \in Keys : Good(k) => OrderOf(k))'
  OBVIOUS
<1> QED
  BY <1>2, <1>3, <1>4, <1>5 DEF Inv

\* A step of c that leaves the records alone, and perhaps their locks.
Still(c) ==
  /\ verbs' = verbs /\ seq' = seq /\ data' = data /\ hist' = hist /\ lease' = lease
  /\ raced' = raced
  /\ \A k \in Keys : Writer(c, k)' <=> Writer(c, k)
Quiet(c) ==
  /\ Still(c) /\ lock' = lock /\ stray' = stray
  /\ Holds(c)' = Holds(c) /\ (ts'[c] = ts[c] \/ Holds(c) = {})

LEMMA SameRecord ==
  ASSUME NEW k, seq'[k] = seq[k], hist'[k] = hist[k]
  PROVE  /\ Top(k)' = Top(k) /\ Ends(k)' = Ends(k) /\ Keeps(k)
         /\ \A v, x : Covered(k, v, x)' <=> Covered(k, v, x)
         /\ \A h : HeaderFits(k, h)' <=> HeaderFits(k, h)
<1>1. Top(k)' = Top(k) /\ Ends(k)' = Ends(k)
  BY DEF Top, Ends
<1>2. \A v, x : Covered(k, v, x)' <=> Covered(k, v, x)
  BY <1>1 DEF Covered
<1>3. \A h : HeaderFits(k, h)' <=> HeaderFits(k, h)
  BY <1>2 DEF HeaderFits
<1> QED
  BY <1>1, <1>2, <1>3 DEF Keeps

\* The same of one record.
SameAt(c, k) ==
  /\ verbs' = verbs /\ seq'[k] = seq[k] /\ data'[k] = data[k] /\ hist'[k] = hist[k]
  /\ lease'[k] = lease[k] /\ (Writer(c, k)' <=> Writer(c, k))

LEMMA SameOrder ==
  ASSUME Inv, NEW c \in Cors, OnlyOf(c), NEW k \in Keys, SameAt(c, k)
  PROVE  /\ Calm(k)' <=> Calm(k)
         /\ k \notin stray => DataOf(k)'
         /\ Good(k) => OrderOf(k)'
<1>1. /\ verbs' = verbs /\ seq'[k] = seq[k] /\ data'[k] = data[k] /\ hist'[k] = hist[k]
      /\ lease'[k] = lease[k]
  BY DEF SameAt
<1>2. ASSUME NEW d \in Cors PROVE Writer(d, k)' <=> Writer(d, k)
  BY OthersKeep, <1>1 DEF SameAt
<1>3. Calm(k)' <=> Calm(k)
  BY <1>2 DEF Calm
<1>4. k \notin stray => DataOf(k)'
  BY <1>1, <1>3 DEF Inv, DataOf, Contents
<1>5. ASSUME Good(k) PROVE OrderOf(k)'
  <2>1. OrderOf(k)
    BY <1>5 DEF Inv
  <2>2. Top(k)' = Top(k) /\ (\A v, x : Covered(k, v, x)' <=> Covered(k, v, x))
    BY <1>1, SameRecord
  <2>3. PICK h : h = seq[k]
    OBVIOUS
  <2>4. HeaderFits(k, h)' <=> HeaderFits(k, h)
    BY <1>1, SameRecord
  <2>5. HeaderFits(k, seq[k])' <=> HeaderFits(k, seq[k])
    BY <1>1, <2>3, <2>4
  <2> QED
    BY <1>1, <1>3, <2>1, <2>2, <2>5 DEF OrderOf
<1> QED
  BY <1>3, <1>4, <1>5

LEMMA StillFrame ==
  ASSUME Inv, NEW c \in Cors, OnlyOf(c), Still(c), TypeOK', Own(c)', NoLockLeaked',
         stray \subseteq stray',
         \A k \in Keys, d \in Cors \ {c} : k \notin stray' /\ k \in Holds(d) => lock'[k] = lock[k],
         \A k \in Keys : k \notin stray' => HeldOf(c, k)',
         \A k \in Keys : Good(k) => LeaseOf(c, k)'
  PROVE  Inv'
<1>1. /\ verbs' = verbs /\ seq' = seq /\ data' = data /\ hist' = hist
      /\ lease' = lease /\ raced' = raced
  BY DEF Still
<1>2. ASSUME NEW k \in Keys
      PROVE  /\ Calm(k)' <=> Calm(k)
             /\ k \notin stray => DataOf(k)'
             /\ Good(k) => OrderOf(k)'
  <2>1. SameAt(c, k)
    BY DEF Still, SameAt
  <2> QED
    BY <2>1, SameOrder
<1>3. ASSUME NEW k \in Keys, Good(k)' PROVE Good(k)
  BY <1>1, <1>3 DEF Good
<1>4. ASSUME NEW k \in Keys PROVE Keeps(k)
  BY <1>1, SameRecord
<1>5. Held(c) /\ Seen
  BY <1>1, <1>4 DEF Held, Seen
<1>6. Copies(c)
  <2> SUFFICES ASSUME NEW k \in Keys, NEW d \in Cors \ {c}, Good(k)', Reading(d, k), k \notin over'[d]
      PROVE Calm(k)' /\ hist'[k] = hist[k]
    BY DEF Copies
  <2>1. LeaseOf(d, k)
    BY <1>3 DEF Inv
  <2>2. k \notin over[d]
    BY DEF OnlyOf
  <2> QED
    BY <1>1, <1>2, <2>1, <2>2 DEF LeaseOf
<1>7. ASSUME NEW k \in Keys, k \notin stray' PROVE DataOf(k)' /\ HeldOf(c, k)'
  BY <1>2, <1>7
<1>8. ASSUME NEW k \in Keys, Good(k)' PROVE OrderOf(k)' /\ LeaseOf(c, k)'
  BY <1>2, <1>3, <1>8
<1> QED
  BY <1>1, <1>5, <1>6, <1>7, <1>8, RecordFrame

LEMMA QuietFrame ==
  ASSUME Inv, NEW c \in Cors, OnlyOf(c), Quiet(c), TypeOK', Own(c)',
         \A k \in Keys : k \notin stray => HeldOf(c, k)',
         \A k \in Keys : Good(k) => LeaseOf(c, k)'
  PROVE  Inv'
<1>1. Still(c) /\ lock' = lock /\ stray' = stray
  BY DEF Quiet
<1>2. ASSUME NEW d \in Cors PROVE Holds(d)' = Holds(d)
  BY OthersKeep, <1>1 DEF Quiet, Still
<1>3. NoLockLeaked'
  <2> SUFFICES ASSUME NEW k \in Keys, lock[k] # 0
      PROVE \E d \in Cors : k \in Holds(d)' /\ lock'[k] = ts'[d]
    BY <1>1 DEF NoLockLeaked
  <2>1. PICK d \in Cors : k \in Holds(d) /\ lock[k] = ts[d]
    BY DEF Inv, NoLockLeaked
  <2>2. ts'[d] = ts[d]
    BY <2>1 DEF Quiet, OnlyOf
  <2> QED
    BY <1>1, <1>2, <2>1, <2>2
<1> QED
  BY <1>1, <1>3, StillFrame

\* A step in which c takes up nothing new on a record: what it knows of
\* it stays, and its commit id does not go back.
PlainAt(c, k) ==
  /\ item'[c][k] = item[c][k] /\ ver'[c][k] = ver[c][k] /\ hdr'[c][k] = hdr[c][k]
  /\ left'[c][k] = left[c][k] /\ (k \in over[c] => k \in over'[c])
  /\ Copied(c, k)' => Copied(c, k)
  /\ Writing(c, k)' => Writing(c, k)
  /\ Copying(c, k)' => Copying(c, k)
  /\ Reading(c, k)' => Reading(c, k)
  /\ HasRead(c, k)' => HasRead(c, k)
  /\ Fetched(c, k)' => Fetched(c, k)
  /\ verbs /\ Renewed(c, k)' => Renewed(c, k) /\ cid'[c] = cid[c]

LEMMA PlainRecord ==
  ASSUME Inv, NEW c \in Cors, OnlyOf(c), TypeOK', cid[c] <= cid'[c],
         NEW k \in Keys, SameAt(c, k), PlainAt(c, k)
  PROVE  /\ k \notin stray /\ (k \in Holds(c)' => lock'[k] = ts'[c]) => HeldOf(c, k)'
         /\ Good(k) => LeaseOf(c, k)'
<1>1. verbs' = verbs /\ seq'[k] = seq[k] /\ data'[k] = data[k] /\ hist'[k] = hist[k]
  BY DEF SameAt
<1>2. /\ item'[c][k] = item[c][k] /\ ver'[c][k] = ver[c][k] /\ hdr'[c][k] = hdr[c][k]
      /\ left'[c][k] = left[c][k] /\ (k \in over[c] => k \in over'[c])
  BY DEF PlainAt
<1>3. ASSUME k \notin stray, k \in Holds(c)' => lock'[k] = ts'[c] PROVE HeldOf(c, k)'
  <2>1. HeldOf(c, k)
    BY <1>3 DEF Inv
  <2>2. (Writer(c, k)' => Writer(c, k)) /\ (Copied(c, k)' => Copied(c, k))
    BY DEF SameAt, PlainAt
  <2>3. (Writer(c, k) => /\ ver[c][k] = Contents(Len(hist[k]))
                         /\ \A n \in 1 .. 2 : n \in left[c][k] \/ data[k][n] = Len(hist[k]))'
    BY <1>1, <1>2, <2>1, <2>2 DEF HeldOf, Contents
  <2>4. (Copied(c, k) => ver[c][k] = data[k])'
    BY <1>1, <1>2, <2>1, <2>2 DEF HeldOf
  <2> QED
    BY <1>3, <2>3, <2>4 DEF HeldOf
<1>4. ASSUME Good(k) PROVE LeaseOf(c, k)'
  <2>1. LeaseOf(c, k) /\ verbs
    BY <1>4 DEF Inv, Good
  <2>2. /\ Writer(c, k)' => Writer(c, k)
        /\ Writing(c, k)' => Writing(c, k)
        /\ Copying(c, k)' => Copying(c, k)
        /\ Reading(c, k)' => Reading(c, k)
        /\ HasRead(c, k)' => HasRead(c, k)
        /\ Fetched(c, k)' => Fetched(c, k)
        /\ Renewed(c, k)' => Renewed(c, k) /\ cid'[c] = cid[c]
    BY <2>1 DEF SameAt, PlainAt
  <2>3. seq'[k] = seq[k] /\ hist'[k] = hist[k]
    BY <1>1
  <2>4. Top(k)' = Top(k) /\ (\A v, x : Covered(k, v, x)' <=> Covered(k, v, x))
        /\ (\A h : HeaderFits(k, h)' <=> HeaderFits(k, h))
    BY <2>3, SameRecord
  <2>5. (Writer(c, k) => /\ item[c][k] = Lease(Top(k), Top(k))
                         /\ 3 \in left[c][k] <=> seq[k].wts # Top(k))'
    BY <1>1, <1>2, <2>1, <2>2, <2>4 DEF LeaseOf, Lease
  <2>6. (Writing(c, k) => seq[k].rts < cid[c])'
    <3>1. seq[k].rts \in Nat /\ cid[c] \in Nat /\ cid'[c] \in Nat
      BY RecordTypes DEF Inv, TypeOK
    <3> QED
      BY <1>1, <2>1, <2>2, <3>1 DEF LeaseOf
  <2>7. (Copying(c, k) => item[c][k] = seq[k])'
    BY <1>1, <1>2, <2>1, <2>2 DEF LeaseOf
  <2>8. (Fetched(c, k) => HeaderFits(k, hdr[c][k][2]))'
    <3>1. PICK h : h = hdr[c][k][2]
      OBVIOUS
    <3>2. Fetched(c, k)' => HeaderFits(k, h)'
      BY <2>1, <2>2, <2>4, <3>1 DEF LeaseOf
    <3> QED
      BY <1>2, <3>1, <3>2
  <2>9. (Renewed(c, k) => WithinLease(c, k))'
    BY <1>1, <1>2, <2>1, <2>2, <2>4 DEF LeaseOf, WithinLease
  <2>10. Calm(k)' <=> Calm(k)
    BY SameOrder
  <2>11. (Reading(c, k) /\ k \notin over[c] =>
           Calm(k) /\ item[c][k].wts = Top(k) /\ ver[c][k] = Contents(Len(hist[k])))'
    BY <1>1, <1>2, <2>1, <2>2, <2>4, <2>10 DEF LeaseOf, Contents
  <2>12. (HasRead(c, k) /\ k \notin over[c] => WholeCopy(c, k))'
    BY <1>1, <1>2, <2>1, <2>2 DEF LeaseOf, WholeCopy, Contents
  <2> QED
    BY <2>5, <2>6, <2>7, <2>8, <2>9, <2>11, <2>12 DEF LeaseOf
<1> QED
  BY <1>3, <1>4

\* The same in a quiet step.
LEMMA QuietRecord ==
  ASSUME Inv, NEW c \in Cors, OnlyOf(c), Quiet(c), TypeOK', cid[c] <= cid'[c],
         NEW k \in Keys, PlainAt(c, k)
  PROVE  /\ k \notin stray => HeldOf(c, k)'
         /\ Good(k) => LeaseOf(c, k)'
<1>1. SameAt(c, k)
  BY DEF Quiet, Still, SameAt
<1>2. k \notin stray /\ k \in Holds(c)' => lock'[k] = ts'[c]
  BY DEF Inv, HeldOf, Quiet
<1> QED
  BY <1>1, <1>2, PlainRecord

Plain(c) == cid[c] <= cid'[c] /\ \A k \in Keys : PlainAt(c, k)

LEMMA PlainFrame ==
  ASSUME Inv, NEW c \in Cors, OnlyOf(c), Quiet(c), Plain(c), TypeOK', Own(c)'
  PROVE  Inv'
<1>1. cid[c] <= cid'[c] /\ \A k \in Keys : PlainAt(c, k)
  BY DEF Plain
<1>2. ASSUME NEW k \in Keys
      PROVE  (k \notin stray => HeldOf(c, k)') /\ (Good(k) => LeaseOf(c, k)')
  BY <1>1, QuietRecord
<1> QED
  BY <1>2, QuietFrame

\* A step of c on one record.
LEMMA OneRecordFrame ==
  ASSUME Inv, NEW c \in Cors, OnlyOf(c), TypeOK', Own(c)', NoLockLeaked', NEW k \in Keys,
         verbs' = verbs, stray' = stray, raced \subseteq raced',
         cid[c] <= cid'[c], ts'[c] = ts[c],
         \A j \in Keys \ {k} :
           /\ SameAt(c, j) /\ PlainAt(c, j) /\ lock'[j] = lock[j]
           /\ j \in Holds(c)' => j \in Holds(c),
         \A d \in Cors \ {c} : k \notin stray /\ k \in Holds(d) =>
           /\ lock'[k] = lock[k] /\ data'[k] = data[k] /\ hist'[k] = hist[k]
           /\ Good(k)' => seq'[k] = seq[k],
         k \notin stray => DataOf(k)' /\ HeldOf(c, k)',
         Good(k)' => Keeps(k) /\ OrderOf(k)' /\ LeaseOf(c, k)',
         \A d \in Cors \ {c} :
           Good(k)' /\ Reading(d, k) /\ k \notin over'[d] => Calm(k)' /\ hist'[k] = hist[k]
  PROVE  Inv'
<1>1. ASSUME NEW j \in Keys \ {k}
      PROVE  /\ Calm(j)' <=> Calm(j)
             /\ j \notin stray => DataOf(j)' /\ HeldOf(c, j)'
             /\ Good(j) => OrderOf(j)' /\ LeaseOf(c, j)'
  <2>1. /\ Calm(j)' <=> Calm(j)
        /\ j \notin stray => DataOf(j)'
        /\ Good(j) => OrderOf(j)'
    BY <1>1, SameOrder
  <2>2. j \notin stray /\ j \in Holds(c)' => lock'[j] = ts'[c]
    BY DEF Inv, HeldOf
  <2> QED
    BY <2>1, <2>2, PlainRecord
<1>2. ASSUME NEW j \in Keys \ {k} PROVE lock'[j] = lock[j] /\ SameAt(c, j) /\ Keeps(j)
  BY SameRecord DEF SameAt
<1>3. ASSUME NEW j \in Keys, Good(j)' PROVE Good(j)
  BY <1>3 DEF Good
<1>4. Held(c)
  BY <1>2 DEF Held, SameAt
<1>5. Seen
  BY <1>2 DEF Seen
<1>6. Copies(c)
  <2> SUFFICES ASSUME NEW j \in Keys, NEW d \in Cors \ {c}, Good(j)', Reading(d, j), j \notin over'[d]
      PROVE Calm(j)' /\ hist'[j] = hist[j]
    BY DEF Copies
  <2>1. CASE j = k
    BY <2>1
  <2>2. CASE j # k
    <3>1. LeaseOf(d, j) /\ j \notin over[d]
      BY <1>3 DEF Inv, OnlyOf
    <3> QED
      BY <1>1, <1>2, <2>2, <3>1 DEF LeaseOf, SameAt
  <2> QED
    BY <2>1, <2>2
<1>7. ASSUME NEW j \in Keys, j \notin stray' PROVE DataOf(j)' /\ HeldOf(c, j)'
  BY <1>1, <1>7
<1>8. ASSUME NEW j \in Keys, Good(j)' PROVE OrderOf(j)' /\ LeaseOf(c, j)'
  BY <1>1, <1>3, <1>8
<1> QED
  BY <1>4, <1>5, <1>6, <1>7, <1>8, RecordFrame
-----------------------------------------------------------------------------
(* The steps that leave the records alone                                  *)
-----------------------------------------------------------------------------
LEMMA OwnFacts ==
  ASSUME Inv, NEW c \in Cors
  PROVE  TypeOK /\ PhaseOf(c) /\ StampOf(c)
BY DEF Inv, Own

LEMMA BeginKeeps ==
  ASSUME Inv, NEW c \in Cors, Begin(c)
  PROVE  Inv'
<1>1. PICK t \in Clocks : ts' = [ts EXCEPT ![c] = Stamp(t, c)]
  BY DEF Begin, Stamp
<1>2. /\ pc[c] = "idle" /\ pc' = [pc EXCEPT ![c] = "exec"] /\ begun < MaxTxns /\ begun' = begun + 1
      /\ verbs' = verbs /\ lock' = lock /\ seq' = seq /\ data' = data
      /\ hist' = hist /\ lease' = lease /\ cid' = cid /\ rset' = rset
      /\ wset' = wset /\ last' = last /\ item' = item /\ ver' = ver /\ hdr' = hdr
      /\ pend' = pend /\ open' = open /\ left' = left /\ renewed' = renewed
      /\ stray' = stray /\ raced' = raced /\ over' = over
  BY DEF Begin, Goto, record, batch
<1>3. TypeOK /\ PhaseOf(c) /\ t \in Nat
  BY OwnFacts, SundialAssumption
<1>4. Stamp(t, c) \in Nat
  BY <1>3, StampUnique
<1>5. ts' \in [Cors -> Nat] /\ pc' \in [Cors -> Labels] /\ begun' \in 0 .. MaxTxns
  BY <1>1, <1>2, <1>3, <1>4, SundialAssumption DEF TypeOK, Labels
<1>6. TypeOK'
  BY <1>2, <1>3, <1>5 DEF TypeOK, Labels
<1>7. OnlyOf(c) /\ pc'[c] = "exec" /\ ts'[c] = Stamp(t, c)
  BY <1>1, <1>2, <1>3 DEF OnlyOf, TypeOK
<1>8. PhaseOf(c)'
  BY <1>2, <1>3, <1>7 DEF PhaseOf
<1>9. StampOf(c)'
  BY <1>3, <1>7, <1>1 DEF StampOf, Stamp
<1>10. rset[c] = {} /\ wset[c] = {} /\ open[c] = {}
  BY <1>2, <1>3 DEF PhaseOf
<1>11. Holds(c) = {} /\ Holds(c)' = {}
  BY <1>2, <1>7, <1>10 DEF Holds
<1>12. Quiet(c)
  BY <1>2, <1>7, <1>11 DEF Quiet, Still, Writer
<1>13. cid[c] <= cid'[c]
  BY <1>2, <1>3 DEF TypeOK
<1>14. Plain(c)
  BY <1>2, <1>7, <1>10, <1>11, <1>13
     DEF Plain, PlainAt, Copied, Writing, Copying, Reading, HasRead, Fetched, Renewed
<1> QED
  BY <1>6, <1>7, <1>8, <1>9, <1>12, <1>14, PlainFrame DEF Own

LEMMA ReadKeeps ==
  ASSUME Inv, NEW c \in Cors, NEW k \in Keys, Read(c, k)
  PROVE  Inv'
<1>1. /\ pc[c] = "exec" /\ k \notin rset[c] \cup wset[c]
      /\ rset' = [rset EXCEPT ![c] = @ \cup {k}] /\ last' = [last EXCEPT ![c] = {k}]
      /\ pc' = [pc EXCEPT ![c] = "read"]
      /\ verbs' = verbs /\ lock' = lock /\ seq' = seq /\ data' = data
      /\ hist' = hist /\ lease' = lease /\ ts' = ts /\ cid' = cid /\ wset' = wset
      /\ item' = item /\ ver' = ver /\ hdr' = hdr /\ pend' = pend /\ open' = open
      /\ left' = left /\ renewed' = renewed /\ begun' = begun /\ stray' = stray
      /\ raced' = raced /\ over' = over
  BY DEF Read, Fresh, Goto, record, batch, ghost
<1>2. TypeOK /\ PhaseOf(c) /\ StampOf(c)
  BY OwnFacts
<1>3. TypeOK'
  BY <1>1, <1>2 DEF TypeOK
<1>4. OnlyOf(c) /\ pc'[c] = "read" /\ rset'[c] = rset[c] \cup {k} /\ last'[c] = {k}
  BY <1>1, <1>2 DEF OnlyOf, TypeOK
<1>5. PhaseOf(c)' /\ StampOf(c)'
  BY <1>1, <1>2, <1>4 DEF PhaseOf, StampOf
<1>6. Holds(c)' = Holds(c) /\ last[c] = {} /\ open[c] = {}
  BY <1>1, <1>2, <1>4 DEF Holds, PhaseOf
<1>7. Quiet(c)
  BY <1>1, <1>4, <1>6 DEF Quiet, Still, Writer
<1>8. cid[c] <= cid'[c]
  BY <1>1, <1>2 DEF TypeOK
<1>9. Plain(c)
  BY <1>1, <1>4, <1>6, <1>8
     DEF Plain, PlainAt, Copied, Writing, Copying, Reading, HasRead, Fetched, Renewed
<1> QED
  BY <1>3, <1>4, <1>5, <1>7, <1>9, PlainFrame DEF Own

LEMMA WriteKeeps ==
  ASSUME Inv, NEW c \in Cors, NEW k \in Keys, Write(c, k)
  PROVE  Inv'
<1>1. /\ pc[c] = "exec" /\ k \notin rset[c] \cup wset[c]
      /\ wset' = [wset EXCEPT ![c] = @ \cup {k}] /\ last' = [last EXCEPT ![c] = {k}]
      /\ pc' = [pc EXCEPT ![c] = "lock"]
      /\ verbs' = verbs /\ lock' = lock /\ seq' = seq /\ data' = data
      /\ hist' = hist /\ lease' = lease /\ ts' = ts /\ cid' = cid /\ rset' = rset
      /\ item' = item /\ ver' = ver /\ hdr' = hdr /\ pend' = pend /\ open' = open
      /\ left' = left /\ renewed' = renewed /\ begun' = begun /\ stray' = stray
      /\ raced' = raced /\ over' = over
  BY DEF Write, Fresh, Goto, record, batch, ghost
<1>2. TypeOK /\ PhaseOf(c) /\ StampOf(c)
  BY OwnFacts
<1>3. TypeOK'
  BY <1>1, <1>2 DEF TypeOK
<1>4. OnlyOf(c) /\ pc'[c] = "lock" /\ wset'[c] = wset[c] \cup {k} /\ last'[c] = {k}
  BY <1>1, <1>2 DEF OnlyOf, TypeOK
<1>5. PhaseOf(c)' /\ StampOf(c)'
  BY <1>1, <1>2, <1>4 DEF PhaseOf, StampOf
<1>6. Holds(c)' = Holds(c) /\ last[c] = {} /\ open[c] = {}
  BY <1>1, <1>2, <1>4 DEF Holds, PhaseOf
<1>7. Quiet(c)
  BY <1>1, <1>4, <1>6 DEF Quiet, Still, Writer
<1>8. cid[c] <= cid'[c]
  BY <1>1, <1>2 DEF TypeOK
<1>9. Plain(c)
  BY <1>1, <1>4, <1>6, <1>8
     DEF Plain, PlainAt, Copied, Writing, Copying, Reading, HasRead, Fetched, Renewed
<1> QED
  BY <1>3, <1>4, <1>5, <1>7, <1>9, PlainFrame DEF Own

\* A call fails: what it held is what release_writes has to free.
LEMMA FailKeeps ==
  ASSUME Inv, NEW c \in Cors, Fail(c), pc[c] \in {"reread", "lock", "wait"}
  PROVE  Inv'
<1>1. /\ pc' = [pc EXCEPT ![c] = "relf"] /\ pend' = [pend EXCEPT ![c] = wset[c] \ last[c]]
      /\ verbs' = verbs /\ lock' = lock /\ seq' = seq /\ data' = data
      /\ hist' = hist /\ lease' = lease /\ ts' = ts /\ cid' = cid /\ rset' = rset
      /\ wset' = wset /\ last' = last /\ item' = item /\ ver' = ver /\ hdr' = hdr
      /\ open' = open /\ left' = left /\ renewed' = renewed /\ begun' = begun
      /\ stray' = stray /\ raced' = raced /\ over' = over
  BY DEF Fail, Goto, Serve, record, txn, ghost
<1>2. TypeOK /\ PhaseOf(c) /\ StampOf(c)
  BY OwnFacts
<1>3. TypeOK'
  BY <1>1, <1>2 DEF TypeOK
<1>4. OnlyOf(c) /\ pc'[c] = "relf" /\ pend'[c] = wset[c] \ last[c]
  BY <1>1, <1>2 DEF OnlyOf, TypeOK
<1>5. open[c] = {}
  BY <1>2 DEF PhaseOf
<1>6. PhaseOf(c)' /\ StampOf(c)'
  BY <1>1, <1>2, <1>4, <1>5 DEF PhaseOf, StampOf
<1>7. Holds(c)' = Holds(c)
  BY <1>1, <1>4 DEF Holds
<1>8. Quiet(c)
  BY <1>1, <1>4, <1>5, <1>7 DEF Quiet, Still, Writer
<1>9. cid[c] <= cid'[c]
  BY <1>1, <1>2 DEF TypeOK
<1>10. Plain(c)
  BY <1>1, <1>4, <1>5, <1>7, <1>9
     DEF Plain, PlainAt, Copied, Writing, Copying, Reading, HasRead, Fetched, Renewed
<1> QED
  BY <1>3, <1>4, <1>6, <1>8, <1>10, PlainFrame DEF Own

LEMMA LockParkedKeeps ==
  ASSUME Inv, NEW c \in Cors, NEW k \in Keys, LockParked(c, k)
  PROVE  Inv'
<1>1. /\ pc[c] = "lock" /\ pc' = [pc EXCEPT ![c] = "wait"]
      /\ verbs' = verbs /\ lock' = lock /\ seq' = seq /\ data' = data
      /\ hist' = hist /\ lease' = lease /\ ts' = ts /\ cid' = cid /\ rset' = rset
      /\ wset' = wset /\ last' = last /\ item' = item /\ ver' = ver /\ hdr' = hdr
      /\ pend' = pend /\ open' = open /\ left' = left /\ renewed' = renewed
      /\ begun' = begun /\ stray' = stray /\ raced' = raced /\ over' = over
  BY DEF LockParked, Goto, record, txn, batch, ghost
<1>2. TypeOK /\ PhaseOf(c) /\ StampOf(c)
  BY OwnFacts
<1>3. TypeOK'
  BY <1>1, <1>2 DEF TypeOK
<1>4. OnlyOf(c) /\ pc'[c] = "wait"
  BY <1>1, <1>2 DEF OnlyOf, TypeOK
<1>5. PhaseOf(c)' /\ StampOf(c)'
  BY <1>1, <1>2, <1>4 DEF PhaseOf, StampOf
<1>6. Holds(c)' = Holds(c)
  BY <1>1, <1>4 DEF Holds
<1>7. Quiet(c)
  BY <1>1, <1>4, <1>6 DEF Quiet, Still, Writer
<1>8. cid[c] <= cid'[c]
  BY <1>1, <1>2 DEF TypeOK
<1>9. Plain(c)
  BY <1>1, <1>4, <1>6, <1>8
     DEF Plain, PlainAt, Copied, Writing, Copying, Reading, HasRead, Fetched, Renewed
<1> QED
  BY <1>3, <1>4, <1>5, <1>7, <1>9, PlainFrame DEF Own

LEMMA PrepareKeeps ==
  ASSUME Inv, NEW c \in Cors, Prepare(c)
  PROVE  Inv'
<1>1. PICK S \in SUBSET Keys :
        /\ pend' = [pend EXCEPT ![c] = S] /\ S \subseteq rset[c]
        /\ pc' = [pc EXCEPT ![c] = IF verbs THEN "fetch" ELSE "renew"]
        /\ verbs => S = rset[c]
  <2>1. rset[c] \in SUBSET Keys
    BY OwnFacts DEF TypeOK
  <2>2. CASE verbs
    BY <2>1, <2>2 DEF Prepare, Goto, Serve
  <2>3. CASE ~verbs
    BY <2>1, <2>3 DEF Prepare, Goto, Serve
  <2> QED
    BY <2>2, <2>3
<1>2. /\ pc[c] = "exec" /\ renewed' = [renewed EXCEPT ![c] = TRUE]
      /\ verbs' = verbs /\ lock' = lock /\ seq' = seq /\ data' = data
      /\ hist' = hist /\ lease' = lease /\ ts' = ts /\ cid' = cid /\ rset' = rset
      /\ wset' = wset /\ last' = last /\ item' = item /\ ver' = ver /\ hdr' = hdr
      /\ open' = open /\ left' = left /\ begun' = begun /\ stray' = stray
      /\ raced' = raced /\ over' = over
  BY DEF Prepare, record, txn, ghost
<1>3. TypeOK /\ PhaseOf(c) /\ StampOf(c)
  BY OwnFacts
<1>4. pc' \in [Cors -> Labels] /\ pend' \in [Cors -> SUBSET Keys] /\ renewed' \in [Cors -> BOOLEAN]
  BY <1>1, <1>2, <1>3 DEF TypeOK, Labels
<1>5. TypeOK'
  BY <1>2, <1>3, <1>4 DEF TypeOK, Labels
<1>6. OnlyOf(c) /\ pc'[c] = (IF verbs THEN "fetch" ELSE "renew") /\ pend'[c] = S
  BY <1>1, <1>2, <1>3 DEF OnlyOf, TypeOK
<1>7. last[c] = {} /\ open[c] = {}
  BY <1>2, <1>3 DEF PhaseOf
<1>8. PhaseOf(c)' /\ StampOf(c)'
  BY <1>1, <1>2, <1>3, <1>6, <1>7 DEF PhaseOf, StampOf
<1>9. Holds(c)' = Holds(c)
  BY <1>2, <1>6 DEF Holds
<1>10. Quiet(c)
  BY <1>2, <1>6, <1>7, <1>9 DEF Quiet, Still, Writer
<1>11. cid[c] <= cid'[c]
  BY <1>2, <1>3 DEF TypeOK
<1>12. Plain(c)
  BY <1>2, <1>6, <1>7, <1>9, <1>11
     DEF Plain, PlainAt, Copied, Writing, Copying, Reading, HasRead, Fetched, Renewed
<1> QED
  BY <1>5, <1>6, <1>8, <1>10, <1>12, PlainFrame DEF Own

LEMMA FetchDoneKeeps ==
  ASSUME Inv, NEW c \in Cors, FetchDone(c)
  PROVE  Inv'
<1>1. /\ pc[c] = "fetch" /\ pc' = [pc EXCEPT ![c] = "renew"]
      /\ verbs' = verbs /\ lock' = lock /\ seq' = seq /\ data' = data
      /\ hist' = hist /\ lease' = lease /\ ts' = ts /\ cid' = cid /\ rset' = rset
      /\ wset' = wset /\ last' = last /\ item' = item /\ ver' = ver /\ hdr' = hdr
      /\ pend' = pend /\ open' = open /\ left' = left /\ renewed' = renewed
      /\ begun' = begun /\ stray' = stray /\ raced' = raced /\ over' = over
  BY DEF FetchDone, Goto, record, txn, batch, ghost
<1>2. TypeOK /\ PhaseOf(c) /\ StampOf(c)
  BY OwnFacts
<1>3. TypeOK'
  BY <1>1, <1>2 DEF TypeOK
<1>4. OnlyOf(c) /\ pc'[c] = "renew"
  BY <1>1, <1>2 DEF OnlyOf, TypeOK
<1>5. PhaseOf(c)' /\ StampOf(c)' /\ pend[c] = rset[c]
  BY <1>1, <1>2, <1>4 DEF PhaseOf, StampOf
<1>6. Holds(c)' = Holds(c)
  BY <1>1, <1>4 DEF Holds
<1>7. Quiet(c)
  BY <1>1, <1>4, <1>6 DEF Quiet, Still, Writer
<1>8. cid[c] <= cid'[c]
  BY <1>1, <1>2 DEF TypeOK
<1>9. Plain(c)
  BY <1>1, <1>4, <1>5, <1>6, <1>8
     DEF Plain, PlainAt, Copied, Writing, Copying, Reading, HasRead, Fetched, Renewed
<1> QED
  BY <1>3, <1>4, <1>5, <1>7, <1>9, PlainFrame DEF Own

\* prepare() fails: what the transaction holds is its write set.
LEMMA AbandonKeeps ==
  ASSUME Inv, NEW c \in Cors, pc[c] = "renew",
         /\ pc' = [pc EXCEPT ![c] = "relp"] /\ pend' = [pend EXCEPT ![c] = wset[c]]
         /\ open' = [open EXCEPT ![c] = {}]
         /\ verbs' = verbs /\ lock' = lock /\ seq' = seq /\ data' = data
         /\ hist' = hist /\ lease' = lease /\ ts' = ts /\ cid' = cid /\ rset' = rset
         /\ wset' = wset /\ last' = last /\ item' = item /\ ver' = ver /\ hdr' = hdr
         /\ left' = left /\ renewed' = renewed /\ begun' = begun /\ stray' = stray
         /\ raced' = raced /\ over' = over
  PROVE  Inv'
<1>1. TypeOK /\ PhaseOf(c) /\ StampOf(c)
  BY OwnFacts
<1>2. TypeOK'
  BY <1>1 DEF TypeOK
<1>3. OnlyOf(c) /\ pc'[c] = "relp" /\ pend'[c] = wset[c] /\ open'[c] = {}
  BY <1>1 DEF OnlyOf, TypeOK
<1>4. PhaseOf(c)' /\ StampOf(c)' /\ last[c] = {} /\ open[c] \subseteq rset[c]
      /\ rset[c] \cap wset[c] = {}
  BY <1>1, <1>3 DEF PhaseOf, StampOf
<1>5. Holds(c)' = Holds(c)
  BY <1>3, <1>4 DEF Holds
<1>6. Quiet(c)
  BY <1>3, <1>5 DEF Quiet, Still, Writer
<1>7. cid[c] <= cid'[c]
  BY <1>1 DEF TypeOK
<1>8. Holds(c) \subseteq wset[c]
  BY DEF Holds
<1>9. Plain(c)
  BY <1>3, <1>4, <1>5, <1>7, <1>8
     DEF Plain, PlainAt, Copied, Writing, Copying, Reading, HasRead, Fetched, Renewed
<1> QED
  BY <1>2, <1>3, <1>4, <1>6, <1>9, PlainFrame DEF Own

LEMMA PrepareFailedKeeps ==
  ASSUME Inv, NEW c \in Cors, PrepareFailed(c)
  PROVE  Inv'
<1>1. /\ pc[c] = "renew" /\ pend[c] = {}
      /\ pc' = [pc EXCEPT ![c] = "relp"] /\ pend' = [pend EXCEPT ![c] = wset[c]]
      /\ verbs' = verbs /\ lock' = lock /\ seq' = seq /\ data' = data
      /\ hist' = hist /\ lease' = lease /\ ts' = ts /\ cid' = cid /\ rset' = rset
      /\ wset' = wset /\ last' = last /\ item' = item /\ ver' = ver /\ hdr' = hdr
      /\ open' = open /\ left' = left /\ renewed' = renewed /\ begun' = begun
      /\ stray' = stray /\ raced' = raced /\ over' = over
  BY DEF PrepareFailed, Goto, Serve, record, txn, ghost
<1>2. TypeOK /\ PhaseOf(c)
  BY OwnFacts
<1>3. open[c] = {}
  BY <1>1, <1>2 DEF PhaseOf
<1>4. open' = [open EXCEPT ![c] = {}]
  BY <1>1, <1>2, <1>3 DEF TypeOK
<1> QED
  BY <1>1, <1>4, AbandonKeeps

\* The handler of a renewal that refuses goes on with the other items.
LEMMA RenewRefusedKeeps ==
  ASSUME Inv, NEW c \in Cors, NEW k \in Keys, RenewRefused(c, k)
  PROVE  Inv'
<1>1. CASE verbs
  <2>1. /\ pc[c] = "renew"
        /\ pc' = [pc EXCEPT ![c] = "relp"] /\ pend' = [pend EXCEPT ![c] = wset[c]]
        /\ open' = [open EXCEPT ![c] = {}]
        /\ verbs' = verbs /\ lock' = lock /\ seq' = seq /\ data' = data
        /\ hist' = hist /\ lease' = lease /\ ts' = ts /\ cid' = cid /\ rset' = rset
        /\ wset' = wset /\ last' = last /\ item' = item /\ ver' = ver /\ hdr' = hdr
        /\ left' = left /\ renewed' = renewed /\ begun' = begun /\ stray' = stray
        /\ raced' = raced /\ over' = over
    BY <1>1 DEF RenewRefused, Goto, Serve, record, txn, ghost
  <2> QED
    BY <2>1, AbandonKeeps
<1>2. CASE ~verbs
  <2>1. /\ pc[c] = "renew" /\ renewed' = [renewed EXCEPT ![c] = FALSE]
        /\ pend' = [pend EXCEPT ![c] = pend[c] \ {k}]
        /\ open' = [open EXCEPT ![c] = open[c] \ {k}]
        /\ verbs' = verbs /\ lock' = lock /\ seq' = seq /\ data' = data
        /\ hist' = hist /\ lease' = lease /\ pc' = pc /\ ts' = ts /\ cid' = cid
        /\ rset' = rset /\ wset' = wset /\ last' = last /\ item' = item
        /\ ver' = ver /\ hdr' = hdr /\ left' = left /\ begun' = begun
        /\ stray' = stray /\ raced' = raced /\ over' = over
    BY <1>2 DEF RenewRefused, Served, Serve, record, txn, ghost
  <2>2. TypeOK /\ PhaseOf(c) /\ StampOf(c)
    BY OwnFacts
  <2>3. TypeOK'
    BY <2>1, <2>2 DEF TypeOK
  <2>4. OnlyOf(c) /\ pend'[c] = pend[c] \ {k} /\ open'[c] = open[c] \ {k}
    BY <2>1, <2>2 DEF OnlyOf, TypeOK
  <2>5. PhaseOf(c)' /\ StampOf(c)' /\ open[c] \subseteq rset[c] /\ rset[c] \cap wset[c] = {}
    BY <2>1, <2>2, <2>4 DEF PhaseOf, StampOf
  <2>6. Holds(c)' = Holds(c) /\ Holds(c) \subseteq wset[c]
    BY <2>1 DEF Holds
  <2>7. Quiet(c)
    BY <2>1, <2>6 DEF Quiet, Still, Writer
  <2>8. cid[c] <= cid'[c]
    BY <2>1, <2>2 DEF TypeOK
  <2>9. Plain(c)
    BY <1>2, <2>1, <2>4, <2>5, <2>6, <2>8
       DEF Plain, PlainAt, Copied, Writing, Copying, Reading, HasRead, Fetched, Renewed
  <2> QED
    BY <2>3, <2>4, <2>5, <2>7, <2>9, PlainFrame DEF Own
<1> QED
  BY <1>1, <1>2

\* The one-sided read returns: the version is still the one that was copied.
LEMMA RereadOKKeeps ==
  ASSUME Inv, NEW c \in Cors, NEW k \in Keys, RereadOK(c, k)
  PROVE  Inv'
<1>1. /\ pc[c] = "reread" /\ k \in last[c]
      /\ cid' = [cid EXCEPT ![c] = Larger(@, item[c][k].wts)]
      /\ last' = [last EXCEPT ![c] = {}] /\ pc' = [pc EXCEPT ![c] = "exec"]
      /\ verbs' = verbs /\ lock' = lock /\ seq' = seq /\ data' = data
      /\ hist' = hist /\ lease' = lease /\ ts' = ts /\ rset' = rset /\ wset' = wset
      /\ item' = item /\ ver' = ver /\ hdr' = hdr /\ pend' = pend /\ open' = open
      /\ left' = left /\ renewed' = renewed /\ begun' = begun /\ stray' = stray
      /\ raced' = raced /\ over' = over
  BY DEF RereadOK, Return, Goto, record, batch, ghost
<1>2. TypeOK /\ PhaseOf(c) /\ StampOf(c)
  BY OwnFacts
<1>3. item[c][k].wts \in Nat /\ cid[c] \in Nat
  BY <1>2 DEF TypeOK, Header
<1>4. PICK x \in Nat : x = Larger(cid[c], item[c][k].wts) /\ cid[c] <= x
  BY <1>3, LargerFacts
<1>5. TypeOK'
  <2>1. cid' \in [Cors -> Nat] /\ last' \in [Cors -> SUBSET Keys] /\ pc' \in [Cors -> Labels]
    BY <1>1, <1>2, <1>4 DEF TypeOK, Labels
  <2> QED
    BY <1>1, <1>2, <2>1 DEF TypeOK, Labels
<1>6. OnlyOf(c) /\ pc'[c] = "exec" /\ last'[c] = {} /\ cid'[c] = x
  BY <1>1, <1>2, <1>4 DEF OnlyOf, TypeOK
<1>7. PhaseOf(c)' /\ StampOf(c)' /\ last[c] \cap wset[c] = {} /\ open[c] = {}
  BY <1>1, <1>2, <1>6 DEF PhaseOf, StampOf
<1>8. Holds(c)' = Holds(c)
  BY <1>1, <1>6, <1>7 DEF Holds
<1>9. Quiet(c)
  BY <1>1, <1>6, <1>7, <1>8 DEF Quiet, Still, Writer
<1>10. Holds(c) \subseteq wset[c]
  BY <1>1 DEF Holds
<1>11. Plain(c)
  BY <1>1, <1>4, <1>6, <1>7, <1>8, <1>10
     DEF Plain, PlainAt, Copied, Writing, Copying, Reading, HasRead, Fetched, Renewed
<1> QED
  BY <1>5, <1>6, <1>7, <1>9, <1>11, PlainFrame DEF Own

\* prepare() has released the write set, and commit() sets out to do it again.
LEMMA ReleaseAgainKeeps ==
  ASSUME Inv, NEW c \in Cors, ReleaseDone(c), pc[c] = "relp"
  PROVE  Inv'
<1>1. /\ pend[c] = {} /\ pc' = [pc EXCEPT ![c] = "relc"] /\ pend' = [pend EXCEPT ![c] = wset[c]]
      /\ verbs' = verbs /\ lock' = lock /\ seq' = seq /\ data' = data
      /\ hist' = hist /\ lease' = lease /\ ts' = ts /\ cid' = cid /\ rset' = rset
      /\ wset' = wset /\ last' = last /\ item' = item /\ ver' = ver /\ hdr' = hdr
      /\ open' = open /\ left' = left /\ renewed' = renewed /\ begun' = begun
      /\ stray' = stray /\ raced' = raced /\ over' = over
  BY DEF ReleaseDone, Goto, Serve, record, txn
<1>2. TypeOK /\ PhaseOf(c) /\ StampOf(c)
  BY OwnFacts
<1>3. TypeOK'
  BY <1>1, <1>2 DEF TypeOK
<1>4. OnlyOf(c) /\ pc'[c] = "relc" /\ pend'[c] = wset[c]
  BY <1>1, <1>2 DEF OnlyOf, TypeOK
<1>5. PhaseOf(c)' /\ StampOf(c)' /\ open[c] = {}
  BY <1>1, <1>2, <1>4 DEF PhaseOf, StampOf
<1>6. Holds(c) = {} /\ Holds(c)' = {}
  BY <1>1, <1>4 DEF Holds
<1>7. Quiet(c)
  BY <1>1, <1>4, <1>6 DEF Quiet, Still, Writer
<1>8. cid[c] <= cid'[c]
  BY <1>1, <1>2 DEF TypeOK
<1>9. Plain(c)
  BY <1>1, <1>4, <1>5, <1>6, <1>8
     DEF Plain, PlainAt, Copied, Writing, Copying, Reading, HasRead, Fetched, Renewed
<1> QED
  BY <1>3, <1>4, <1>5, <1>7, <1>9, PlainFrame DEF Own
-----------------------------------------------------------------------------
(* The steps that copy a record                                            *)
-----------------------------------------------------------------------------
\* What a copy sees of a record that nobody is writing.
LEMMA CalmRecord ==
  ASSUME Inv, NEW k \in Keys, Good(k), Calm(k)
  PROVE  seq[k].wts = Top(k) /\ data[k] = Contents(Len(hist[k]))
BY DEF Inv, Good, OrderOf, DataOf

\* What is said of a record under a quiet step that copies it.
LEMMA CopyFrame ==
  ASSUME Inv, NEW c \in Cors, OnlyOf(c), Quiet(c), NEW k \in Keys,
         pc'[c] = "reading", ~HasRead(c, k)', ~Writing(c, k)',
         k \notin stray /\ Copied(c, k)' => ver'[c][k] = data[k],
         Good(k) /\ Copying(c, k)' => item'[c][k] = seq[k],
         Good(k) /\ Reading(c, k)' /\ k \notin over'[c] =>
           Calm(k) /\ item'[c][k].wts = Top(k) /\ ver'[c][k] = Contents(Len(hist[k]))
  PROVE  /\ k \notin stray => HeldOf(c, k)'
         /\ Good(k) => LeaseOf(c, k)'
<1>1. /\ verbs' = verbs /\ lock' = lock /\ seq' = seq /\ data' = data /\ hist' = hist
      /\ stray' = stray
  BY DEF Quiet, Still
<1>2. ~Writer(c, k)' /\ ~Fetched(c, k)' /\ ~Renewed(c, k)'
  BY DEF Writer, Fetched, Renewed
<1>3. k \notin stray /\ k \in Holds(c)' => lock'[k] = ts'[c]
  BY <1>1 DEF Quiet, Inv, HeldOf
<1>4. k \notin stray => HeldOf(c, k)'
  BY <1>1, <1>2, <1>3 DEF HeldOf
<1>5. Calm(k)' <=> Calm(k)
  BY <1>1, OthersKeep DEF Calm, Quiet, Still
<1>6. Good(k) => LeaseOf(c, k)'
  BY <1>1, <1>2, <1>5 DEF LeaseOf, Top, Contents
<1> QED
  BY <1>4, <1>6

LEMMA ReadRecordKeeps ==
  ASSUME Inv, NEW c \in Cors, NEW k \in Keys, ReadRecord(c, k)
  PROVE  Inv'
<1>1. /\ pc[c] \in {"read", "copy"} /\ k \in last[c]
      /\ item' = [item EXCEPT ![c][k] = seq[k]] /\ ver' = [ver EXCEPT ![c][k] = data[k]]
      /\ pc' = [pc EXCEPT ![c] = "reading"]
      /\ verbs' = verbs /\ lock' = lock /\ seq' = seq /\ data' = data
      /\ hist' = hist /\ lease' = lease /\ ts' = ts /\ cid' = cid /\ rset' = rset
      /\ wset' = wset /\ last' = last /\ hdr' = hdr /\ pend' = pend /\ open' = open
      /\ left' = left /\ renewed' = renewed /\ begun' = begun /\ stray' = stray
      /\ raced' = raced
  BY DEF ReadRecord, Goto, record, batch
<1>2. PICK S \in SUBSET {k} :
        /\ over' = [over EXCEPT ![c] = @ \cup S]
        /\ k \notin S => Calm(k)
  <2>1. CASE \E d \in Cors : pc[d] = "upd" /\ k \in open[d]
    <3>1. over' = [over EXCEPT ![c] = @ \cup {k}]
      BY <2>1 DEF ReadRecord
    <3> QED
      BY <3>1
  <2>2. CASE ~\E d \in Cors : pc[d] = "upd" /\ k \in open[d]
    <3>1. over' = [over EXCEPT ![c] = @]
      BY <2>2 DEF ReadRecord
    <3>2. over[c] \cup {} = over[c]
      OBVIOUS
    <3>3. over' = [over EXCEPT ![c] = @ \cup {}]
      BY <3>1, <3>2
    <3>4. Calm(k) /\ {} \in SUBSET {k}
      BY <2>2 DEF Calm, Writer
    <3> QED
      BY <3>3, <3>4
  <2> QED
    BY <2>1, <2>2
<1>3. TypeOK /\ PhaseOf(c) /\ StampOf(c) /\ seq[k] \in Header /\ data[k] \in [1 .. 2 -> Nat]
  BY OwnFacts, RecordTypes
<1>4. TypeOK'
  <2>1. item' \in [Cors -> [Keys -> Header]] /\ ver' \in [Cors -> [Keys -> [1 .. 2 -> Nat]]]
    BY <1>1, <1>3 DEF TypeOK
  <2>2. over' \in [Cors -> SUBSET Keys] /\ pc' \in [Cors -> Labels]
    BY <1>1, <1>2, <1>3 DEF TypeOK, Labels
  <2> QED
    BY <1>1, <1>3, <2>1, <2>2 DEF TypeOK, Labels
<1>5. /\ OnlyOf(c) /\ pc'[c] = "reading" /\ over'[c] = over[c] \cup S
      /\ item'[c][k] = seq[k] /\ ver'[c][k] = data[k]
      /\ \A j \in Keys \ {k} : item'[c][j] = item[c][j] /\ ver'[c][j] = ver[c][j]
  BY <1>1, <1>2, <1>3 DEF OnlyOf, TypeOK
<1>6. PhaseOf(c)' /\ StampOf(c)' /\ last[c] = {k} /\ open[c] = {}
  BY <1>1, <1>3, <1>5 DEF PhaseOf, StampOf
<1>7. Holds(c)' = Holds(c)
  <2>1. pc[c] = "read" => wset[c] \ last[c] = wset[c]
    BY <1>3, <1>6 DEF PhaseOf
  <2>2. Holds(c)' = wset[c]
    BY <1>1, <1>5 DEF Holds
  <2> QED
    BY <1>1, <2>1, <2>2 DEF Holds
<1>8. Quiet(c)
  BY <1>1, <1>5, <1>6, <1>7 DEF Quiet, Still, Writer
<1>9. cid[c] <= cid'[c]
  BY <1>1, <1>3 DEF TypeOK
<1>10. ASSUME NEW j \in Keys \ {k} PROVE PlainAt(c, j)
  BY <1>1, <1>5, <1>6, <1>7
     DEF PlainAt, Copied, Writing, Copying, Reading, HasRead, Fetched, Renewed
<1>11. ~HasRead(c, k)' /\ ~Writing(c, k)'
  BY <1>1, <1>5, <1>6 DEF HasRead, Writing
<1>12. Good(k) /\ k \notin over'[c] =>
         Calm(k) /\ item'[c][k].wts = Top(k) /\ ver'[c][k] = Contents(Len(hist[k]))
  BY <1>2, <1>5, CalmRecord
<1>13. (k \notin stray => HeldOf(c, k)') /\ (Good(k) => LeaseOf(c, k)')
  BY <1>5, <1>8, <1>11, <1>12, CopyFrame
<1>14. ASSUME NEW j \in Keys
       PROVE  (j \notin stray => HeldOf(c, j)') /\ (Good(j) => LeaseOf(c, j)')
  <2>1. CASE j = k
    BY <1>13, <2>1
  <2>2. CASE j # k
    BY <1>4, <1>5, <1>8, <1>9, <1>10, <2>2, QuietRecord
  <2> QED
    BY <2>1, <2>2
<1> QED
  BY <1>4, <1>5, <1>6, <1>8, <1>14, QuietFrame DEF Own

LEMMA ReadPartKeeps ==
  ASSUME Inv, NEW c \in Cors, NEW k \in Keys, ReadPart(c, k)
  PROVE  Inv'
<1>1. /\ pc[c] = "reading" /\ k \in last[c]
      /\ verbs' = verbs /\ lock' = lock /\ seq' = seq /\ data' = data
      /\ hist' = hist /\ lease' = lease /\ pc' = pc /\ ts' = ts /\ cid' = cid
      /\ rset' = rset /\ wset' = wset /\ last' = last /\ hdr' = hdr /\ pend' = pend
      /\ open' = open /\ left' = left /\ renewed' = renewed /\ begun' = begun
      /\ stray' = stray /\ raced' = raced /\ over' = over
  BY DEF ReadPart, record, batch, ghost
<1>2. \/ item' = [item EXCEPT ![c][k] = seq[k]] /\ ver' = ver
      \/ (\E n \in 1 .. 2 : ver' = [ver EXCEPT ![c][k][n] = data[k][n]]) /\ item' = item
  BY DEF ReadPart
<1>3. TypeOK /\ PhaseOf(c) /\ StampOf(c) /\ seq[k] \in Header /\ data[k] \in [1 .. 2 -> Nat]
      /\ ver[c][k] \in [1 .. 2 -> Nat] /\ Len(hist[k]) \in Nat
  <2>1. TypeOK /\ PhaseOf(c) /\ StampOf(c)
    BY OwnFacts
  <2>2. ver[c][k] \in [1 .. 2 -> Nat]
    BY <2>1 DEF TypeOK
  <2> QED
    BY <2>1, <2>2, RecordTypes
<1>4. item' \in [Cors -> [Keys -> Header]] /\ ver' \in [Cors -> [Keys -> [1 .. 2 -> Nat]]]
  <2>1. CASE item' = [item EXCEPT ![c][k] = seq[k]] /\ ver' = ver
    BY <1>3, <2>1 DEF TypeOK
  <2>2. CASE (\E n \in 1 .. 2 : ver' = [ver EXCEPT ![c][k][n] = data[k][n]]) /\ item' = item
    <3>1. PICK n \in 1 .. 2 : ver' = [ver EXCEPT ![c][k][n] = data[k][n]]
      BY <2>2
    <3> QED
      BY <1>3, <2>2, <3>1 DEF TypeOK
  <2> QED
    BY <1>2, <2>1, <2>2
<1>5. TypeOK'
  BY <1>1, <1>3, <1>4 DEF TypeOK
<1>6. /\ \A d \in Cors \ {c} : item'[d] = item[d] /\ ver'[d] = ver[d]
      /\ \A j \in Keys \ {k} : item'[c][j] = item[c][j] /\ ver'[c][j] = ver[c][j]
      /\ item'[c][k] = item[c][k] \/ item'[c][k] = seq[k]
      /\ \A n \in 1 .. 2 : ver'[c][k][n] = ver[c][k][n] \/ ver'[c][k][n] = data[k][n]
  <2>1. CASE item' = [item EXCEPT ![c][k] = seq[k]] /\ ver' = ver
    BY <1>3, <2>1 DEF TypeOK
  <2>2. CASE (\E n \in 1 .. 2 : ver' = [ver EXCEPT ![c][k][n] = data[k][n]]) /\ item' = item
    <3>1. PICK n \in 1 .. 2 : ver' = [ver EXCEPT ![c][k][n] = data[k][n]]
      BY <2>2
    <3>2. ver'[c][k] = [ver[c][k] EXCEPT ![n] = data[k][n]]
      BY <1>3, <3>1 DEF TypeOK
    <3>3. \A m \in 1 .. 2 : ver'[c][k][m] = ver[c][k][m] \/ ver'[c][k][m] = data[k][m]
      BY <1>3, <3>2
    <3> QED
      BY <1>3, <2>2, <3>1, <3>3 DEF TypeOK
  <2> QED
    BY <1>2, <2>1, <2>2
<1>7. ver'[c][k] \in [1 .. 2 -> Nat]
  BY <1>4
<1>8. OnlyOf(c)
  BY <1>1, <1>6 DEF OnlyOf
<1>9. PhaseOf(c)' /\ StampOf(c)' /\ last[c] = {k} /\ open[c] = {}
  BY <1>1, <1>3 DEF PhaseOf, StampOf
<1>10. Quiet(c)
  BY <1>1 DEF Quiet, Still, Writer, Holds
<1>11. cid[c] <= cid'[c]
  BY <1>1, <1>3 DEF TypeOK
<1>12. ASSUME NEW j \in Keys \ {k} PROVE PlainAt(c, j)
  BY <1>1, <1>6, <1>9
     DEF PlainAt, Holds, Copied, Writing, Copying, Reading, HasRead, Fetched, Renewed
<1>13. ~HasRead(c, k)' /\ ~Writing(c, k)'
  BY <1>1, <1>9 DEF HasRead, Writing
<1>14. /\ Copied(c, k)' => Copied(c, k)
       /\ Copying(c, k)' => Copying(c, k)
       /\ Reading(c, k)' => Reading(c, k)
  BY <1>1 DEF Holds, Copied, Copying, Reading
<1>15. ASSUME k \notin stray, Copied(c, k)' PROVE ver'[c][k] = data[k]
  <2>1. ver[c][k] = data[k]
    BY <1>14, <1>15 DEF Inv, HeldOf
  <2>2. \A n \in 1 .. 2 : ver'[c][k][n] = data[k][n]
    BY <1>6, <2>1
  <2> QED
    BY <1>3, <1>7, <2>2
<1>16. ASSUME Good(k), Copying(c, k)' PROVE item'[c][k] = seq[k]
  BY <1>6, <1>14, <1>16 DEF Inv, LeaseOf
<1>17. ASSUME Good(k), Reading(c, k)', k \notin over'[c]
       PROVE  Calm(k) /\ item'[c][k].wts = Top(k) /\ ver'[c][k] = Contents(Len(hist[k]))
  <2>1. Calm(k) /\ item[c][k].wts = Top(k) /\ ver[c][k] = Contents(Len(hist[k]))
    BY <1>1, <1>14, <1>17 DEF Inv, LeaseOf
  <2>2. seq[k].wts = Top(k) /\ data[k] = Contents(Len(hist[k]))
    BY <1>17, <2>1, CalmRecord
  <2>3. item'[c][k].wts = Top(k)
    BY <1>6, <2>1, <2>2
  <2>4. \A n \in 1 .. 2 : ver'[c][k][n] = Len(hist[k])
    BY <1>3, <1>6, <2>1, <2>2, ContentsFacts
  <2>5. ver'[c][k] = Contents(Len(hist[k]))
    BY <1>3, <1>7, <2>4, ContentsFacts
  <2> QED
    BY <2>1, <2>3, <2>5
<1>18. (k \notin stray => HeldOf(c, k)') /\ (Good(k) => LeaseOf(c, k)')
  BY <1>1, <1>8, <1>10, <1>13, <1>15, <1>16, <1>17, CopyFrame
<1>19. ASSUME NEW j \in Keys
       PROVE  (j \notin stray => HeldOf(c, j)') /\ (Good(j) => LeaseOf(c, j)')
  <2>1. CASE j = k
    BY <1>18, <2>1
  <2>2. CASE j # k
    BY <1>5, <1>8, <1>10, <1>11, <1>12, <2>2, QuietRecord
  <2> QED
    BY <2>1, <2>2
<1> QED
  BY <1>5, <1>8, <1>9, <1>10, <1>19, QuietFrame DEF Own

\* A copy over verbs is complete; the second READ comes next.
LEMMA ReadOverKeeps ==
  ASSUME Inv, NEW c \in Cors, NEW k \in Keys, ReadDone(c, k), verbs /\ k \in rset[c]
  PROVE  Inv'
<1>1. /\ pc[c] = "reading" /\ k \in last[c] /\ pc' = [pc EXCEPT ![c] = "reread"]
      /\ verbs' = verbs /\ lock' = lock /\ seq' = seq /\ data' = data
      /\ hist' = hist /\ lease' = lease /\ ts' = ts /\ cid' = cid /\ rset' = rset
      /\ wset' = wset /\ last' = last /\ item' = item /\ ver' = ver /\ hdr' = hdr
      /\ pend' = pend /\ open' = open /\ left' = left /\ renewed' = renewed
      /\ begun' = begun /\ stray' = stray /\ raced' = raced /\ over' = over
  BY DEF ReadDone, Goto, record, batch, ghost
<1>2. TypeOK /\ PhaseOf(c) /\ StampOf(c)
  BY OwnFacts
<1>3. TypeOK'
  BY <1>1, <1>2 DEF TypeOK
<1>4. OnlyOf(c) /\ pc'[c] = "reread"
  BY <1>1, <1>2 DEF OnlyOf, TypeOK
<1>5. last[c] = {k} /\ open[c] = {} /\ k \notin wset[c]
  BY <1>1, <1>2 DEF PhaseOf
<1>6. PhaseOf(c)' /\ StampOf(c)'
  BY <1>1, <1>2, <1>4, <1>5 DEF PhaseOf, StampOf
<1>7. Holds(c)' = Holds(c)
  <2>1. wset[c] \ last[c] = wset[c]
    BY <1>5
  <2> QED
    BY <1>1, <1>4, <2>1 DEF Holds
<1>8. Quiet(c)
  BY <1>1, <1>4, <1>5, <1>7 DEF Quiet, Still, Writer
<1>9. cid[c] <= cid'[c]
  BY <1>1, <1>2 DEF TypeOK
<1>11. ASSUME NEW j \in Keys \ {k} PROVE PlainAt(c, j)
  BY <1>1, <1>4, <1>5, <1>7
     DEF PlainAt, Copied, Writing, Copying, Reading, HasRead, Fetched, Renewed
<1>12. k \notin Holds(c)' /\ ~Writer(c, k)' /\ ~Copied(c, k)'
  BY <1>4, <1>5, <1>7, HoldFacts DEF Writer, Copied
<1>13. HeldOf(c, k)'
  BY <1>12 DEF HeldOf
<1>14. /\ ~Writing(c, k)' /\ ~Copying(c, k)' /\ ~Reading(c, k)'
       /\ ~Fetched(c, k)' /\ ~Renewed(c, k)'
  BY <1>4, <1>12 DEF Writing, Copying, Reading, Fetched, Renewed
<1>15. ASSUME Good(k), k \notin over'[c] PROVE WholeCopy(c, k)'
  <2>1. Reading(c, k)
    BY <1>1 DEF Reading
  <2>2. item[c][k].wts = Top(k) /\ ver[c][k] = Contents(Len(hist[k]))
    BY <1>1, <1>15, <2>1 DEF Inv, LeaseOf
  <2>3. Len(hist[k]) \in 1 .. Len(hist[k])
    BY <1>2, RecordTypes
  <2>4. WholeCopy(c, k)
    BY <2>2, <2>3 DEF WholeCopy, Top
  <2> QED
    BY <1>1, <2>4 DEF WholeCopy, Contents
<1>16. Good(k) => LeaseOf(c, k)'
  BY <1>12, <1>14, <1>15 DEF LeaseOf
<1>17. ASSUME NEW j \in Keys
       PROVE  (j \notin stray => HeldOf(c, j)') /\ (Good(j) => LeaseOf(c, j)')
  <2>1. CASE j = k
    BY <1>13, <1>16, <2>1
  <2>2. CASE j # k
    BY <1>3, <1>4, <1>8, <1>9, <1>11, <2>2, QuietRecord
  <2> QED
    BY <2>1, <2>2
<1> QED
  BY <1>3, <1>4, <1>6, <1>8, <1>17, QuietFrame DEF Own

\* A call returns with its copy.  The writer will commit behind the lease.
LEMMA ReturnKeeps ==
  ASSUME Inv, NEW c \in Cors, NEW k \in Keys, ReadDone(c, k), ~(verbs /\ k \in rset[c])
  PROVE  Inv'
<1>1. /\ pc[c] = "reading" /\ k \in last[c]
      /\ last' = [last EXCEPT ![c] = {}] /\ pc' = [pc EXCEPT ![c] = "exec"]
      /\ verbs' = verbs /\ lock' = lock /\ seq' = seq /\ data' = data
      /\ hist' = hist /\ lease' = lease /\ ts' = ts /\ rset' = rset /\ wset' = wset
      /\ item' = item /\ ver' = ver /\ hdr' = hdr /\ pend' = pend /\ open' = open
      /\ left' = left /\ renewed' = renewed /\ begun' = begun /\ stray' = stray
      /\ raced' = raced /\ over' = over
  BY DEF ReadDone, Return, Goto, record, batch, ghost
<1>2. TypeOK /\ PhaseOf(c) /\ StampOf(c)
  BY OwnFacts
<1>3. item[c][k].wts \in Nat /\ item[c][k].rts \in Nat /\ cid[c] \in Nat
  <2>1. item[c][k] \in Header /\ cid[c] \in Nat
    BY <1>2 DEF TypeOK
  <2> QED
    BY <2>1 DEF Header
<1>4. PICK x \in Nat : /\ cid' = [cid EXCEPT ![c] = x] /\ cid[c] <= x
                       /\ k \notin rset[c] => item[c][k].rts < x
  <2>1. CASE k \in rset[c]
    <3>1. cid' = [cid EXCEPT ![c] = Larger(cid[c], item[c][k].wts)]
      BY <2>1 DEF ReadDone
    <3> QED
      BY <1>3, <2>1, <3>1, LargerFacts
  <2>2. CASE k \notin rset[c]
    <3>1. cid' = [cid EXCEPT ![c] = Larger(cid[c], item[c][k].rts + 1)]
      BY <2>2 DEF ReadDone
    <3>2. PICK y \in Nat : y = item[c][k].rts + 1
      BY <1>3
    <3>3. Larger(cid[c], y) \in Nat /\ cid[c] <= Larger(cid[c], y) /\ y <= Larger(cid[c], y)
      BY <1>3, LargerFacts
    <3>4. PICK z \in Nat : z = Larger(cid[c], y)
      BY <3>3
    <3>5. item[c][k].rts < z /\ cid[c] <= z
      BY <1>3, <3>2, <3>3, <3>4
    <3> QED
      BY <3>1, <3>2, <3>4, <3>5
  <2> QED
    BY <2>1, <2>2
<1>5. TypeOK'
  <2>1. cid' \in [Cors -> Nat] /\ last' \in [Cors -> SUBSET Keys] /\ pc' \in [Cors -> Labels]
    BY <1>1, <1>2, <1>4 DEF TypeOK, Labels
  <2> QED
    BY <1>1, <1>2, <2>1 DEF TypeOK, Labels
<1>6. OnlyOf(c) /\ pc'[c] = "exec" /\ last'[c] = {} /\ cid'[c] = x
  BY <1>1, <1>2, <1>4 DEF OnlyOf, TypeOK
<1>7. last[c] = {k} /\ open[c] = {} /\ k \in rset[c] \cup wset[c]
  BY <1>1, <1>2 DEF PhaseOf
<1>8. PhaseOf(c)' /\ StampOf(c)'
  BY <1>1, <1>2, <1>6, <1>7 DEF PhaseOf, StampOf
<1>9. Holds(c)' = wset[c] /\ Holds(c) = wset[c]
  <2>1. wset[c] \ {} = wset[c]
    OBVIOUS
  <2> QED
    BY <1>1, <1>6, <2>1 DEF Holds
<1>10. Quiet(c)
  BY <1>1, <1>6, <1>7, <1>9 DEF Quiet, Still, Writer
<1>11. cid[c] <= cid'[c]
  BY <1>4, <1>6
<1>12. ASSUME NEW j \in Keys \ {k} PROVE PlainAt(c, j)
  BY <1>1, <1>6, <1>7, <1>9
     DEF PlainAt, Copied, Writing, Copying, Reading, HasRead, Fetched, Renewed
<1>13. ASSUME k \notin stray PROVE HeldOf(c, k)'
  <2>1. HeldOf(c, k)
    BY <1>13 DEF Inv
  <2>2. ~Writer(c, k)' /\ (Copied(c, k)' => Copied(c, k))
    BY <1>1, <1>6, <1>9 DEF Writer, Copied
  <2>3. k \in Holds(c)' => lock'[k] = ts'[c]
    BY <1>1, <1>9, <2>1 DEF HeldOf
  <2> QED
    BY <1>1, <2>1, <2>2, <2>3 DEF HeldOf
<1>14. ASSUME Good(k) PROVE LeaseOf(c, k)'
  <2>1. k \notin rset[c] /\ k \in wset[c] /\ LeaseOf(c, k)
    BY <1>7, <1>14 DEF Good, Inv
  <2>2. item[c][k] = seq[k]
    BY <1>1, <2>1 DEF LeaseOf, Copying
  <2>3. seq'[k].rts < cid'[c]
    BY <1>1, <1>4, <1>6, <2>1, <2>2
  <2>4. /\ ~Writer(c, k)' /\ ~Copying(c, k)' /\ ~Reading(c, k)'
        /\ ~Fetched(c, k)' /\ ~Renewed(c, k)' /\ ~HasRead(c, k)'
    BY <1>1, <1>6, <2>1 DEF Writer, Copying, Reading, Fetched, Renewed, HasRead
  <2> QED
    BY <2>3, <2>4 DEF LeaseOf
<1>15. ASSUME NEW j \in Keys
       PROVE  (j \notin stray => HeldOf(c, j)') /\ (Good(j) => LeaseOf(c, j)')
  <2>1. CASE j = k
    BY <1>13, <1>14, <2>1
  <2>2. CASE j # k
    BY <1>5, <1>6, <1>10, <1>11, <1>12, <2>2, QuietRecord
  <2> QED
    BY <2>1, <2>2
<1> QED
  BY <1>5, <1>6, <1>8, <1>10, <1>15, QuietFrame DEF Own

\* A renewal looks at a header, or once more at one of its words.
LEMMA FetchKeeps ==
  ASSUME Inv, NEW c \in Cors, NEW k \in Keys,
         pc[c] \in {"fetch", "renew"}, k \in pend[c], pc[c] = "fetch" => verbs,
         NEW h \in Nat \X Header, h[2] = seq[k] \/ (k \in open[c] /\ h[2] = hdr[c][k][2]),
         /\ hdr' = [hdr EXCEPT ![c][k] = h] /\ open' = [open EXCEPT ![c] = @ \cup {k}]
         /\ verbs' = verbs /\ lock' = lock /\ seq' = seq /\ data' = data
         /\ hist' = hist /\ lease' = lease /\ pc' = pc /\ ts' = ts /\ cid' = cid
         /\ rset' = rset /\ wset' = wset /\ last' = last /\ item' = item
         /\ ver' = ver /\ pend' = pend /\ left' = left /\ renewed' = renewed
         /\ begun' = begun /\ stray' = stray /\ raced' = raced /\ over' = over
  PROVE  Inv'
<1>1. TypeOK /\ PhaseOf(c) /\ StampOf(c)
  BY OwnFacts
<1>2. hdr' \in [Cors -> [Keys -> Nat \X Header]] /\ open' \in [Cors -> SUBSET Keys]
  BY <1>1 DEF TypeOK
<1>3. TypeOK'
  BY <1>1, <1>2 DEF TypeOK
<1>4. /\ OnlyOf(c) /\ hdr'[c][k] = h /\ open'[c] = open[c] \cup {k}
      /\ \A j \in Keys \ {k} : hdr'[c][j] = hdr[c][j]
  BY <1>1 DEF OnlyOf, TypeOK
<1>5. PhaseOf(c)' /\ StampOf(c)' /\ k \in rset[c] /\ k \notin wset[c]
  BY <1>1, <1>4 DEF PhaseOf, StampOf
<1>6. Holds(c)' = Holds(c) /\ k \notin Holds(c)
  BY <1>5 DEF Holds
<1>7. Quiet(c)
  BY <1>6 DEF Quiet, Still, Writer
<1>8. cid[c] <= cid'[c]
  BY <1>1 DEF TypeOK
<1>9. ASSUME NEW j \in Keys \ {k} PROVE PlainAt(c, j)
  BY <1>4, <1>6
     DEF PlainAt, Copied, Writing, Copying, Reading, HasRead, Fetched, Renewed
<1>10. k \notin Holds(c)' /\ ~Writer(c, k)' /\ ~Copied(c, k)'
  BY <1>6 DEF Writer, Copied
<1>11. HeldOf(c, k)'
  BY <1>10 DEF HeldOf
<1>12. ~Writing(c, k)' /\ ~Copying(c, k)' /\ ~Reading(c, k)' /\ ~Renewed(c, k)'
  BY <1>10 DEF Writing, Copying, Reading, Renewed
<1>13. ASSUME Good(k) PROVE LeaseOf(c, k)'
  <2>1. LeaseOf(c, k) /\ OrderOf(k)
    BY <1>13 DEF Inv
  <2>2. PICK g : g = h[2]
    OBVIOUS
  <2>3. HeaderFits(k, g)
    BY <2>1, <2>2 DEF LeaseOf, OrderOf, Fetched
  <2>4. seq'[k] = seq[k] /\ hist'[k] = hist[k]
    OBVIOUS
  <2>5. HeaderFits(k, g)'
    BY <2>3, <2>4, SameRecord
  <2>6. HeaderFits(k, hdr[c][k][2])'
    BY <1>4, <2>2, <2>5
  <2>7. HasRead(c, k)' => HasRead(c, k)
    BY DEF HasRead
  <2>8. (HasRead(c, k) /\ k \notin over[c] => WholeCopy(c, k))'
    BY <2>1, <2>7 DEF LeaseOf, WholeCopy, Contents
  <2> QED
    BY <1>10, <1>12, <2>6, <2>8 DEF LeaseOf
<1>14. ASSUME NEW j \in Keys
       PROVE  (j \notin stray => HeldOf(c, j)') /\ (Good(j) => LeaseOf(c, j)')
  <2>1. CASE j = k
    BY <1>11, <1>13, <2>1
  <2>2. CASE j # k
    BY <1>3, <1>4, <1>7, <1>8, <1>9, <2>2, QuietRecord
  <2> QED
    BY <2>1, <2>2
<1> QED
  BY <1>3, <1>4, <1>5, <1>7, <1>14, QuietFrame DEF Own

LEMMA FetchHeaderKeeps ==
  ASSUME Inv, NEW c \in Cors, NEW k \in Keys, FetchHeader(c, k)
  PROVE  Inv'
<1>1. TypeOK /\ seq[k] \in Header
  BY OwnFacts, RecordTypes
<1>2. lock[k] \in Nat
  BY <1>1 DEF TypeOK
<1>3. PICK h \in Nat \X Header : h = << lock[k], seq[k] >>
  BY <1>1, <1>2
<1>4. h[2] = seq[k]
  BY <1>3
<1>5. /\ pc[c] = (IF verbs THEN "fetch" ELSE "renew") /\ k \in pend[c]
      /\ hdr' = [hdr EXCEPT ![c][k] = h] /\ open' = [open EXCEPT ![c] = @ \cup {k}]
      /\ verbs' = verbs /\ lock' = lock /\ seq' = seq /\ data' = data
      /\ hist' = hist /\ lease' = lease /\ pc' = pc /\ ts' = ts /\ cid' = cid
      /\ rset' = rset /\ wset' = wset /\ last' = last /\ item' = item /\ ver' = ver
      /\ pend' = pend /\ left' = left /\ renewed' = renewed /\ begun' = begun
      /\ stray' = stray /\ raced' = raced /\ over' = over
  BY <1>3 DEF FetchHeader, record, txn, ghost
<1> QED
  BY <1>4, <1>5, FetchKeeps

LEMMA FetchPartKeeps ==
  ASSUME Inv, NEW c \in Cors, NEW k \in Keys, FetchPart(c, k)
  PROVE  Inv'
<1>1. TypeOK /\ PhaseOf(c) /\ seq[k] \in Header
  BY OwnFacts, RecordTypes
<1>2. lock[k] \in Nat /\ hdr[c][k] \in Nat \X Header
  BY <1>1 DEF TypeOK
<1>3. /\ pc[c] = (IF verbs THEN "fetch" ELSE "renew") /\ k \in open[c]
      /\ verbs' = verbs /\ lock' = lock /\ seq' = seq /\ data' = data
      /\ hist' = hist /\ lease' = lease /\ pc' = pc /\ ts' = ts /\ cid' = cid
      /\ rset' = rset /\ wset' = wset /\ last' = last /\ item' = item /\ ver' = ver
      /\ pend' = pend /\ open' = open /\ left' = left /\ renewed' = renewed
      /\ begun' = begun /\ stray' = stray /\ raced' = raced /\ over' = over
  BY DEF FetchPart, record, txn, ghost
<1>4. k \in pend[c]
  BY <1>1, <1>3 DEF PhaseOf
<1>5. open' = [open EXCEPT ![c] = @ \cup {k}]
  <2>1. open[c] \cup {k} = open[c]
    BY <1>3
  <2> QED
    BY <1>1, <1>3, <2>1 DEF TypeOK
<1>6. PICK h \in Nat \X Header :
        /\ hdr' = [hdr EXCEPT ![c][k] = h]
        /\ h[2] = seq[k] \/ h[2] = hdr[c][k][2]
  <2>1. hdr' = [hdr EXCEPT ![c][k] = << lock[k], hdr[c][k][2] >>]
        \/ hdr' = [hdr EXCEPT ![c][k] = << hdr[c][k][1], seq[k] >>]
    <3>1. hdr \in [Cors -> [Keys -> Nat \X Header]]
      BY <1>1 DEF TypeOK
    <3> QED
      BY <3>1 DEF FetchPart
  <2>2. hdr[c][k][1] \in Nat /\ hdr[c][k][2] \in Header
    BY <1>2
  <2> QED
    BY <1>1, <1>2, <2>1, <2>2
<1> QED
  BY <1>3, <1>4, <1>5, <1>6, FetchKeeps

\* The transaction is over and holds nothing.
LEMMA OverKeeps ==
  ASSUME Inv, NEW c \in Cors, Over(c), pc[c] \in {"relf", "relc", "upd"}, pend[c] = {},
         /\ TRUE
         /\ verbs' = verbs /\ lock' = lock /\ seq' = seq /\ data' = data
         /\ hist' = hist /\ lease' = lease /\ ts' = ts /\ cid' = cid /\ pend' = pend
         /\ open' = open /\ left' = left /\ begun' = begun /\ stray' = stray
         /\ raced' = raced
  PROVE  Inv'
<1>1. /\ pc' = [pc EXCEPT ![c] = "idle"] /\ rset' = [rset EXCEPT ![c] = {}]
      /\ wset' = [wset EXCEPT ![c] = {}] /\ last' = [last EXCEPT ![c] = {}]
      /\ item' = [item EXCEPT ![c] = [k \in Keys |-> Lease(0, 0)]]
      /\ ver' = [ver EXCEPT ![c] = [k \in Keys |-> Contents(0)]]
      /\ hdr' = [hdr EXCEPT ![c] = [k \in Keys |-> << 0, Lease(0, 0) >>]]
      /\ renewed' = [renewed EXCEPT ![c] = TRUE] /\ over' = [over EXCEPT ![c] = {}]
  BY DEF Over, Goto
<1>2. TypeOK /\ PhaseOf(c)
  BY OwnFacts
<1>3. Lease(0, 0) \in Header /\ Contents(0) \in [1 .. 2 -> Nat]
  BY ContentsFacts DEF Lease, Header
<1>4. TypeOK'
  <2>1. pc' \in [Cors -> Labels] /\ rset' \in [Cors -> SUBSET Keys]
        /\ wset' \in [Cors -> SUBSET Keys] /\ last' \in [Cors -> SUBSET Keys]
    BY <1>1, <1>2 DEF TypeOK, Labels
  <2>2. item' \in [Cors -> [Keys -> Header]]
    BY <1>1, <1>2, <1>3 DEF TypeOK
  <2>3. ver' \in [Cors -> [Keys -> [1 .. 2 -> Nat]]]
    BY <1>1, <1>2, <1>3 DEF TypeOK
  <2>4. hdr' \in [Cors -> [Keys -> Nat \X Header]]
    BY <1>1, <1>2, <1>3 DEF TypeOK
  <2>5. renewed' \in [Cors -> BOOLEAN] /\ over' \in [Cors -> SUBSET Keys]
    BY <1>1, <1>2 DEF TypeOK
  <2> QED
    BY <1>2, <2>1, <2>2, <2>3, <2>4, <2>5 DEF TypeOK, Labels
<1>5. OnlyOf(c)
  BY <1>1, <1>2 DEF OnlyOf, TypeOK
<1>6. pc'[c] = "idle" /\ rset'[c] = {} /\ wset'[c] = {} /\ last'[c] = {}
  BY <1>1, <1>2 DEF TypeOK
<1>7. open[c] = {}
  BY <1>2 DEF PhaseOf
<1>8. PhaseOf(c)' /\ StampOf(c)'
  BY <1>6, <1>7 DEF PhaseOf, StampOf
<1>9. Holds(c)' = {} /\ Holds(c) = {}
  BY <1>6 DEF Holds
<1>10. Quiet(c)
  BY <1>6, <1>7, <1>9 DEF Quiet, Still, Writer
<1>11. ASSUME NEW k \in Keys PROVE HeldOf(c, k)' /\ LeaseOf(c, k)'
  <2>1. /\ k \notin Holds(c)' /\ ~Writer(c, k)' /\ ~Copied(c, k)' /\ ~Writing(c, k)'
        /\ ~Copying(c, k)' /\ ~Reading(c, k)' /\ ~Fetched(c, k)' /\ ~Renewed(c, k)'
        /\ ~HasRead(c, k)'
    BY <1>6, <1>9
       DEF Writer, Copied, Writing, Copying, Reading, Fetched, Renewed, HasRead
  <2> QED
    BY <2>1 DEF HeldOf, LeaseOf
<1> QED
  BY <1>4, <1>5, <1>8, <1>10, <1>11, QuietFrame DEF Own

LEMMA ReleaseDoneKeeps ==
  ASSUME Inv, NEW c \in Cors, ReleaseDone(c)
  PROVE  Inv'
<1>1. CASE pc[c] = "relp"
  BY <1>1, ReleaseAgainKeeps
<1>2. CASE pc[c] # "relp"
  <2>1. /\ Over(c) /\ pc[c] \in {"relf", "relc", "upd"} /\ pend[c] = {}
        /\ verbs' = verbs /\ lock' = lock /\ seq' = seq /\ data' = data
        /\ hist' = hist /\ lease' = lease /\ ts' = ts /\ cid' = cid /\ pend' = pend
        /\ open' = open /\ left' = left /\ begun' = begun /\ stray' = stray
        /\ raced' = raced
    BY <1>2 DEF ReleaseDone, record
  <2> QED
    BY <2>1, OverKeeps
<1> QED
  BY <1>1, <1>2

LEMMA EndKeeps ==
  ASSUME Inv, NEW c \in Cors, End(c)
  PROVE  Inv'
<1>1. /\ Over(c) /\ pc[c] \in {"relf", "relc", "upd"} /\ pend[c] = {}
      /\ verbs' = verbs /\ lock' = lock /\ seq' = seq /\ data' = data
      /\ hist' = hist /\ lease' = lease /\ ts' = ts /\ cid' = cid /\ pend' = pend
      /\ open' = open /\ left' = left /\ begun' = begun /\ stray' = stray
      /\ raced' = raced
  BY DEF End, record
<1> QED
  BY <1>1, OverKeeps
-----------------------------------------------------------------------------
(* The steps on locks                                                      *)
-----------------------------------------------------------------------------
LEMMA LockTaken ==
  ASSUME Inv, NEW c \in Cors, NEW k \in Keys,
         pc[c] \in {"lock", "wait"}, k \in last[c], lock[k] = 0,
         /\ lock' = [lock EXCEPT ![k] = ts[c]] /\ pc' = [pc EXCEPT ![c] = "copy"]
         /\ verbs' = verbs /\ seq' = seq /\ data' = data /\ hist' = hist
         /\ lease' = lease /\ ts' = ts /\ cid' = cid /\ rset' = rset /\ wset' = wset
         /\ last' = last /\ item' = item /\ ver' = ver /\ hdr' = hdr /\ pend' = pend
         /\ open' = open /\ left' = left /\ renewed' = renewed /\ begun' = begun
         /\ stray' = stray /\ raced' = raced /\ over' = over
  PROVE  Inv'
<1>1. TypeOK /\ PhaseOf(c) /\ StampOf(c)
  BY OwnFacts
<1>2. TypeOK'
  <2>1. lock' \in [Keys -> Nat] /\ pc' \in [Cors -> Labels]
    BY <1>1 DEF TypeOK, Labels
  <2> QED
    BY <1>1, <2>1 DEF TypeOK, Labels
<1>3. /\ OnlyOf(c) /\ pc'[c] = "copy" /\ lock'[k] = ts[c]
      /\ \A j \in Keys \ {k} : lock'[j] = lock[j]
  BY <1>1 DEF OnlyOf, TypeOK
<1>4. last[c] = {k} /\ k \in wset[c] /\ open[c] = {}
  BY <1>1 DEF PhaseOf
<1>5. PhaseOf(c)' /\ StampOf(c)'
  BY <1>1, <1>3, <1>4 DEF PhaseOf, StampOf
<1>6. Holds(c)' = Holds(c) \cup {k}
  BY <1>3, <1>4 DEF Holds
<1>7. ASSUME NEW d \in Cors PROVE Holds(d) \subseteq Holds(d)'
  BY <1>3, <1>6, OthersKeep
<1>8. NoLockLeaked'
  <2> SUFFICES ASSUME NEW j \in Keys, lock'[j] # 0
      PROVE \E d \in Cors : j \in Holds(d)' /\ lock'[j] = ts'[d]
    BY DEF NoLockLeaked
  <2>1. CASE j = k
    BY <1>3, <1>6, <2>1
  <2>2. CASE j # k
    <3>1. PICK d \in Cors : j \in Holds(d) /\ lock[j] = ts[d]
      BY <1>3, <2>2 DEF Inv, NoLockLeaked
    <3> QED
      BY <1>3, <1>7, <2>2, <3>1
  <2> QED
    BY <2>1, <2>2
<1>9. Still(c)
  BY <1>3, <1>4 DEF Still, Writer
<1>10. ASSUME NEW j \in Keys, NEW d \in Cors \ {c}, j \notin stray, j \in Holds(d)
       PROVE  lock'[j] = lock[j]
  <2>1. j # k
    BY <1>10, FreeRecord
  <2> QED
    BY <1>3, <2>1
<1>11. cid[c] <= cid'[c]
  BY <1>1 DEF TypeOK
<1>12. ASSUME NEW j \in Keys PROVE PlainAt(c, j) /\ SameAt(c, j)
  <2>1. SameAt(c, j)
    BY <1>9 DEF Still, SameAt
  <2>2. PlainAt(c, j)
    BY <1>3, <1>4, <1>6
       DEF PlainAt, Copied, Writing, Copying, Reading, HasRead, Fetched, Renewed
  <2> QED
    BY <2>1, <2>2
<1>13. ASSUME NEW j \in Keys, j \notin stray, j \in Holds(c)' PROVE lock'[j] = ts'[c]
  <2>1. CASE j = k
    BY <1>3, <2>1
  <2>2. CASE j # k
    BY <1>3, <1>6, <1>13, <2>2 DEF Inv, HeldOf
  <2> QED
    BY <2>1, <2>2
<1>14. ASSUME NEW j \in Keys
       PROVE  (j \notin stray => HeldOf(c, j)') /\ (Good(j) => LeaseOf(c, j)')
  BY <1>2, <1>3, <1>11, <1>12, <1>13, PlainRecord
<1> QED
  BY <1>2, <1>3, <1>5, <1>8, <1>9, <1>10, <1>14, StillFrame DEF Own

LEMMA LockGrantedKeeps ==
  ASSUME Inv, NEW c \in Cors, NEW k \in Keys, LockGranted(c, k)
  PROVE  Inv'
<1>1. /\ pc[c] \in {"lock", "wait"} /\ k \in last[c] /\ lock[k] = 0
      /\ lock' = [lock EXCEPT ![k] = ts[c]] /\ pc' = [pc EXCEPT ![c] = "copy"]
      /\ verbs' = verbs /\ seq' = seq /\ data' = data /\ hist' = hist
      /\ lease' = lease /\ ts' = ts /\ cid' = cid /\ rset' = rset /\ wset' = wset
      /\ last' = last /\ item' = item /\ ver' = ver /\ hdr' = hdr /\ pend' = pend
      /\ open' = open /\ left' = left /\ renewed' = renewed /\ begun' = begun
      /\ stray' = stray /\ raced' = raced /\ over' = over
  BY DEF LockGranted, Goto, txn, batch, ghost
<1> QED
  BY <1>1, LockTaken

LEMMA NotifyGrantedKeeps ==
  ASSUME Inv, NEW c \in Cors, NEW k \in Keys, NotifyGranted(c, k)
  PROVE  Inv'
<1>1. /\ pc[c] \in {"lock", "wait"} /\ k \in last[c] /\ lock[k] = 0
      /\ lock' = [lock EXCEPT ![k] = ts[c]] /\ pc' = [pc EXCEPT ![c] = "copy"]
      /\ verbs' = verbs /\ seq' = seq /\ data' = data /\ hist' = hist
      /\ lease' = lease /\ ts' = ts /\ cid' = cid /\ rset' = rset /\ wset' = wset
      /\ last' = last /\ item' = item /\ ver' = ver /\ hdr' = hdr /\ pend' = pend
      /\ open' = open /\ left' = left /\ renewed' = renewed /\ begun' = begun
      /\ stray' = stray /\ raced' = raced /\ over' = over
  BY DEF NotifyGranted, Goto, txn, batch, ghost
<1> QED
  BY <1>1, LockTaken

\* A word that is zeroed leaves the other words with their holders.
LEMMA WordFreed ==
  ASSUME Inv, NEW c \in Cors, NEW k \in Keys, OnlyOf(c), verbs' = verbs, ts' = ts,
         lock' = [lock EXCEPT ![k] = 0], Holds(c) \ {k} \subseteq Holds(c)'
  PROVE  NoLockLeaked'
<1> SUFFICES ASSUME NEW j \in Keys, lock'[j] # 0
    PROVE \E d \in Cors : j \in Holds(d)' /\ lock'[j] = ts'[d]
  BY DEF NoLockLeaked
<1>1. j # k /\ lock'[j] = lock[j]
  BY OwnFacts DEF TypeOK
<1>2. PICK d \in Cors : j \in Holds(d) /\ lock[j] = ts[d]
  BY <1>1 DEF Inv, NoLockLeaked
<1>3. j \in Holds(d)'
  BY <1>1, <1>2, OthersKeep
<1> QED
  BY <1>1, <1>2, <1>3

\* A release that finds a free word or its own disturbs nobody.
LEMMA ReleaseItemKeeps ==
  ASSUME Inv, NEW c \in Cors, NEW k \in Keys, ReleaseItem(c, k)
  PROVE  Inv'
<1>1. /\ pc[c] \in {"relf", "relp", "relc"} /\ k \in pend[c]
      /\ lock' = [lock EXCEPT ![k] = 0] /\ pend' = [pend EXCEPT ![c] = pend[c] \ {k}]
      /\ stray' = IF lock[k] \in {0, ts[c]} THEN stray ELSE stray \cup {k}
      /\ verbs' = verbs /\ seq' = seq /\ data' = data /\ hist' = hist
      /\ lease' = lease /\ pc' = pc /\ ts' = ts /\ cid' = cid /\ rset' = rset
      /\ wset' = wset /\ last' = last /\ item' = item /\ ver' = ver /\ hdr' = hdr
      /\ open' = open /\ left' = left /\ renewed' = renewed /\ begun' = begun
      /\ raced' = raced /\ over' = over
  BY DEF ReleaseItem, Serve, txn
<1>2. TypeOK /\ PhaseOf(c) /\ StampOf(c)
  BY OwnFacts
<1>3. TypeOK'
  <2>1. lock' \in [Keys -> Nat] /\ pend' \in [Cors -> SUBSET Keys] /\ stray' \subseteq Keys
    BY <1>1, <1>2 DEF TypeOK
  <2> QED
    BY <1>1, <1>2, <2>1 DEF TypeOK
<1>4. /\ OnlyOf(c) /\ pend'[c] = pend[c] \ {k} /\ lock'[k] = 0
      /\ \A j \in Keys \ {k} : lock'[j] = lock[j]
  BY <1>1, <1>2 DEF OnlyOf, TypeOK
<1>5. open[c] = {} /\ PhaseOf(c)' /\ StampOf(c)'
  BY <1>1, <1>2, <1>4 DEF PhaseOf, StampOf
<1>6. Holds(c)' = Holds(c) \ {k}
  BY <1>1, <1>4 DEF Holds
<1>7. NoLockLeaked'
  BY <1>1, <1>4, <1>6, WordFreed
<1>8. Still(c)
  BY <1>1 DEF Still, Writer
<1>9. stray \subseteq stray'
  BY <1>1
<1>10. ASSUME NEW j \in Keys, NEW d \in Cors \ {c}, j \notin stray', j \in Holds(d)
       PROVE  lock'[j] = lock[j]
  <2>1. CASE j = k
    <3>1. lock[k] = 0 \/ lock[k] = ts[c]
      BY <1>1, <1>10, <2>1
    <3>2. k \notin stray /\ k \in Holds(d)
      BY <1>9, <1>10, <2>1
    <3>3. lock[k] = ts[d] /\ ts[d] # 0 /\ pc[d] # "idle"
      BY <3>2, HoldFacts
    <3>4. c = d
      BY <1>1, <3>1, <3>3, StampsDiffer
    <3> QED
      BY <3>4
  <2>2. CASE j # k
    BY <1>4, <2>2
  <2> QED
    BY <2>1, <2>2
<1>11. cid[c] <= cid'[c]
  BY <1>1, <1>2 DEF TypeOK
<1>12. ASSUME NEW j \in Keys PROVE PlainAt(c, j) /\ SameAt(c, j)
  <2>1. SameAt(c, j)
    BY <1>8 DEF Still, SameAt
  <2>2. PlainAt(c, j)
    BY <1>1, <1>6
       DEF PlainAt, Copied, Writing, Copying, Reading, HasRead, Fetched, Renewed
  <2> QED
    BY <2>1, <2>2
<1>13. ASSUME NEW j \in Keys, j \notin stray, j \in Holds(c)' PROVE lock'[j] = ts'[c]
  BY <1>1, <1>4, <1>6, <1>13 DEF Inv, HeldOf
<1>14. ASSUME NEW j \in Keys
       PROVE  (j \notin stray => HeldOf(c, j)') /\ (Good(j) => LeaseOf(c, j)')
  BY <1>3, <1>4, <1>11, <1>12, <1>13, PlainRecord
<1> QED
  BY <1>3, <1>4, <1>5, <1>7, <1>8, <1>9, <1>10, <1>14, StillFrame DEF Own

\* The version is in place when the word is zeroed behind it.
LEMMA UnlockItemKeeps ==
  ASSUME Inv, NEW c \in Cors, NEW k \in Keys, UnlockItem(c, k)
  PROVE  Inv'
<1>1. /\ pc[c] = "upd" /\ k \in open[c] /\ left[c][k] = {}
      /\ lock' = [lock EXCEPT ![k] = 0] /\ pend' = [pend EXCEPT ![c] = pend[c] \ {k}]
      /\ open' = [open EXCEPT ![c] = open[c] \ {k}]
      /\ verbs' = verbs /\ seq' = seq /\ data' = data /\ hist' = hist
      /\ lease' = lease /\ pc' = pc /\ ts' = ts /\ cid' = cid /\ rset' = rset
      /\ wset' = wset /\ last' = last /\ item' = item /\ ver' = ver /\ hdr' = hdr
      /\ left' = left /\ renewed' = renewed /\ begun' = begun /\ stray' = stray
      /\ raced' = raced /\ over' = over
  BY DEF UnlockItem, Served, Serve, txn, ghost
<1>2. TypeOK /\ PhaseOf(c) /\ StampOf(c)
  BY OwnFacts
<1>3. TypeOK'
  <2>1. lock' \in [Keys -> Nat] /\ pend' \in [Cors -> SUBSET Keys] /\ open' \in [Cors -> SUBSET Keys]
    BY <1>1, <1>2 DEF TypeOK
  <2> QED
    BY <1>1, <1>2, <2>1 DEF TypeOK
<1>4. /\ OnlyOf(c) /\ pend'[c] = pend[c] \ {k} /\ open'[c] = open[c] \ {k} /\ lock'[k] = 0
      /\ \A j \in Keys \ {k} : lock'[j] = lock[j]
  BY <1>1, <1>2 DEF OnlyOf, TypeOK
<1>5. PhaseOf(c)' /\ StampOf(c)'
  BY <1>1, <1>2, <1>4 DEF PhaseOf, StampOf
<1>6. Holds(c)' = Holds(c) \ {k} /\ k \in Holds(c) /\ k \in wset[c] /\ k \notin rset[c]
  BY <1>1, <1>2, <1>4 DEF Holds, PhaseOf
<1>7. NoLockLeaked'
  BY <1>1, <1>4, <1>6, WordFreed
<1>8. cid[c] <= cid'[c]
  BY <1>1, <1>2 DEF TypeOK
<1>9. ASSUME NEW j \in Keys \ {k}
      PROVE  /\ SameAt(c, j) /\ PlainAt(c, j) /\ lock'[j] = lock[j]
             /\ j \in Holds(c)' => j \in Holds(c)
  <2>1. SameAt(c, j)
    BY <1>1, <1>4 DEF SameAt, Writer
  <2>2. PlainAt(c, j)
    BY <1>1, <1>4, <1>6
       DEF PlainAt, Copied, Writing, Copying, Reading, HasRead, Fetched, Renewed
  <2> QED
    BY <1>4, <1>6, <2>1, <2>2
<1>10. ASSUME NEW d \in Cors \ {c}, k \notin stray, k \in Holds(d) PROVE FALSE
  BY <1>6, <1>10, HoldFacts
<1>11. Writer(c, k) /\ ~Writer(c, k)' /\ ~Copied(c, k)' /\ ~Writing(c, k)' /\ ~Copying(c, k)'
       /\ ~Reading(c, k)' /\ ~Fetched(c, k)' /\ ~Renewed(c, k)' /\ ~HasRead(c, k)'
  BY <1>1, <1>4, <1>6
     DEF Writer, Copied, Writing, Copying, Reading, Fetched, Renewed, HasRead
<1>12. HeldOf(c, k)' /\ LeaseOf(c, k)'
  BY <1>6, <1>11 DEF HeldOf, LeaseOf
<1>13. ASSUME k \notin stray PROVE DataOf(k)'
  <2>1. \A n \in 1 .. 2 : data[k][n] = Len(hist[k])
    BY <1>1, <1>11, <1>13 DEF Inv, HeldOf
  <2>2. data[k] = Contents(Len(hist[k]))
    BY <1>2, <2>1, RecordTypes, ContentsFacts
  <2> QED
    BY <1>1, <2>2 DEF DataOf, Contents
<1>14. seq'[k] = seq[k] /\ hist'[k] = hist[k]
  BY <1>1
<1>15. ASSUME Good(k)' PROVE Keeps(k) /\ OrderOf(k)'
  <2>1. OrderOf(k) /\ LeaseOf(c, k)
    BY <1>1, <1>15 DEF Inv, Good
  <2>2. seq[k].wts = Top(k)
    BY <1>1, <1>11, <2>1 DEF LeaseOf
  <2>3. Top(k)' = Top(k) /\ (\A v, x : Covered(k, v, x)' <=> Covered(k, v, x)) /\ Keeps(k)
    BY <1>14, SameRecord
  <2>4. PICK h : h = seq[k]
    OBVIOUS
  <2>5. HeaderFits(k, h)' <=> HeaderFits(k, h)
    BY <1>14, SameRecord
  <2>6. HeaderFits(k, seq[k])' <=> HeaderFits(k, seq[k])
    BY <1>14, <2>4, <2>5
  <2>7. OrderOf(k)'
    BY <1>1, <2>1, <2>2, <2>3, <2>6 DEF OrderOf
  <2> QED
    BY <2>3, <2>7
<1>16. ASSUME NEW d \in Cors \ {c}, Good(k)', Reading(d, k), k \notin over'[d] PROVE FALSE
  <2>1. Calm(k)
    BY <1>1, <1>16 DEF Inv, LeaseOf, Good
  <2> QED
    BY <1>11, <2>1 DEF Calm
<1> QED
  BY <1>1, <1>3, <1>4, <1>5, <1>7, <1>8, <1>9, <1>10, <1>12, <1>13, <1>15, <1>16,
     OneRecordFrame DEF Own
-----------------------------------------------------------------------------
(* The steps on leases and versions                                        *)
-----------------------------------------------------------------------------
\* What is safe at x is safe before x.
LEMMA CoveredBefore ==
  ASSUME TypeOK, NEW k \in Keys, NEW v \in 1 .. Len(hist[k]), NEW x \in Nat, NEW y \in Nat,
         y <= x, Covered(k, v, x)
  PROVE  Covered(k, v, y)
<1>1. Len(hist[k]) \in Nat /\ Ends(k) \in Nat
  BY RecordTypes DEF Ends
<1>2. CASE v < Len(hist[k])
  <2>1. v + 1 \in 1 .. Len(hist[k])
    BY <1>1, <1>2
  <2>2. hist[k][v + 1] \in Nat
    BY <2>1, RecordTypes
  <2> QED
    BY <1>2, <2>2 DEF Covered
<1>3. CASE ~(v < Len(hist[k]))
  BY <1>1, <1>3 DEF Covered
<1> QED
  BY <1>2, <1>3

\* A lease that is extended, or reached the commit id already.  Unless the
\* store puts back the header, nobody holds the record.
LEMMA Extended ==
  ASSUME Inv, NEW c \in Cors, NEW k \in Keys, RenewItem(c, k)
  PROVE  /\ seq' \in [Keys -> Header] /\ \A j \in Keys \ {k} : seq'[j] = seq[j]
         /\ raced \subseteq raced' /\ raced' \subseteq raced \cup {k}
         /\ item[c][k].wts = hdr[c][k][2].wts
         /\ \/ cid[c] <= hdr[c][k][2].rts /\ seq' = seq /\ raced' = raced
            \/ /\ seq'[k] = Lease(item[c][k].wts, cid[c])
               /\ k \notin raced' =>
                    lock[k] = 0 /\ seq[k].wts = item[c][k].wts /\ seq[k].rts <= cid[c]
<1> DEFINE l == hdr[c][k][1]
           h == hdr[c][k][2]
<1>1. TypeOK /\ seq[k] \in Header /\ seq[k].wts \in Nat /\ seq[k].rts \in Nat
  BY OwnFacts, RecordTypes
<1>2. l \in Nat /\ h.wts \in Nat /\ h.rts \in Nat /\ hdr[c][k] \in Nat \X Header
  BY <1>1, HeaderTypes
<1>3. cid[c] \in Nat /\ lock[k] \in Nat /\ seq \in [Keys -> Header]
  BY <1>1 DEF TypeOK
<1>4. item[c][k].wts = h.wts /\ ~(cid[c] > h.rts /\ l # 0)
  BY DEF RenewItem, Renewable
<1>5. CASE ~(h.rts < cid[c])
  <2>1. seq' = seq /\ raced' = raced
    BY <1>5 DEF RenewItem
  <2> QED
    BY <1>2, <1>3, <1>4, <1>5, <2>1
<1>6. CASE h.rts < cid[c]
  <2>1. /\ seq' = [seq EXCEPT ![k] = Lease(h.wts, cid[c])]
        /\ raced' = IF PutsBack(c, k) THEN raced \cup {k} ELSE raced
    BY <1>6 DEF RenewItem
  <2>2. Lease(h.wts, cid[c]) \in Header
    BY <1>2, <1>3 DEF Lease, Header
  <2>3. l = 0
    BY <1>2, <1>3, <1>4, <1>6
  <2>4. ASSUME k \notin raced'
        PROVE  lock[k] = 0 /\ seq[k].wts = h.wts /\ seq[k].rts <= cid[c]
    <3>1. ~PutsBack(c, k)
      BY <2>1, <2>4
    <3>2. CASE hdr[c][k] = << lock[k], seq[k] >>
      <4>1. l = lock[k] /\ h = seq[k]
        BY <3>2
      <4> QED
        BY <1>1, <1>3, <1>6, <2>3, <4>1
    <3>3. CASE hdr[c][k] # << lock[k], seq[k] >>
      <4>1. lock[k] = 0 /\ seq[k].wts = h.wts /\ ~(seq[k].rts > cid[c])
        BY <3>1, <3>3 DEF PutsBack
      <4> QED
        BY <1>1, <1>3, <4>1
    <3> QED
      BY <3>2, <3>3
  <2>5. seq' \in [Keys -> Header] /\ (\A j \in Keys \ {k} : seq'[j] = seq[j])
        /\ seq'[k] = Lease(h.wts, cid[c])
    BY <1>3, <2>1, <2>2
  <2>6. raced \subseteq raced' /\ raced' \subseteq raced \cup {k}
    BY <2>1
  <2>7. seq'[k] = Lease(item[c][k].wts, cid[c])
    BY <1>4, <2>5
  <2>8. k \notin raced' =>
          lock[k] = 0 /\ seq[k].wts = item[c][k].wts /\ seq[k].rts <= cid[c]
    BY <1>4, <2>4
  <2> QED
    BY <1>4, <2>5, <2>6, <2>7, <2>8
<1> QED
  BY <1>5, <1>6

\* The lease of the newest version grows.
LEMMA LeaseGrown ==
  ASSUME Inv, TypeOK', NEW k \in Keys, Good(k), hist'[k] = hist[k], lease'[k] = lease[k],
         NEW x \in Nat, seq'[k] = Lease(Top(k), x), seq[k].wts = Top(k), seq[k].rts <= x
  PROVE  /\ Keeps(k) /\ Covered(k, Len(hist[k]), x)' /\ OrderOf(k)'
<1>1. OrderOf(k) /\ TypeOK
  BY DEF Inv
<1>2. /\ seq[k].wts \in Nat /\ seq[k].rts \in Nat /\ Top(k) \in Nat /\ Len(hist[k]) \in Nat
      /\ Len(hist[k]) \in 1 .. Len(hist[k])
      /\ \A i \in 1 .. Len(hist[k]) : hist[k][i] \in Nat /\ lease[k][i] \in Nat
  BY <1>1, RecordTypes
<1>3. seq'[k].wts = Top(k) /\ seq'[k].rts = x
  BY DEF Lease
<1>4. Top(k)' = Top(k) /\ Ends(k) = seq[k].rts /\ Ends(k)' = x
  BY <1>3 DEF Top, Ends
<1>5. ASSUME NEW v \in 1 .. Len(hist[k]), NEW y \in Nat, Covered(k, v, y) PROVE Covered(k, v, y)'
  <2>1. CASE v < Len(hist[k])
    BY <1>5, <2>1 DEF Covered
  <2>2. CASE ~(v < Len(hist[k]))
    BY <1>2, <1>4, <1>5, <2>2 DEF Covered
  <2> QED
    BY <2>1, <2>2
<1>6. Keeps(k)
  BY <1>2, <1>5 DEF Keeps
<1>7. Covered(k, Len(hist[k]), x)'
  BY <1>2, <1>4 DEF Covered
<1>8. Top(k) <= seq[k].rts
  BY <1>1 DEF OrderOf, HeaderFits
<1>9. HeaderFits(k, seq[k])'
  <2>1. Top(k) <= x
    BY <1>2, <1>8
  <2>2. Covered(k, Len(hist[k]), seq[k].rts)'
    BY <1>3, <1>7
  <2>3. seq'[k].wts = hist'[k][Len(hist[k])] /\ seq'[k].wts <= seq'[k].rts
    BY <1>3, <2>1 DEF Top
  <2> QED
    BY <1>2, <2>2, <2>3 DEF HeaderFits
<1>10. (\A i \in 1 .. Len(hist[k]) : Covered(k, i, lease[k][i]))'
  BY <1>1, <1>2, <1>5 DEF OrderOf
<1>11. OrderOf(k)'
  BY <1>1, <1>3, <1>4, <1>9, <1>10 DEF OrderOf
<1> QED
  BY <1>6, <1>7, <1>11

LEMMA RenewItemKeeps ==
  ASSUME Inv, NEW c \in Cors, NEW k \in Keys, RenewItem(c, k)
  PROVE  Inv'
<1>1. /\ pc[c] = "renew" /\ k \in open[c] /\ pend' = [pend EXCEPT ![c] = pend[c] \ {k}]
      /\ open' = [open EXCEPT ![c] = open[c] \ {k}]
      /\ verbs' = verbs /\ lock' = lock /\ data' = data /\ hist' = hist
      /\ lease' = lease /\ pc' = pc /\ ts' = ts /\ cid' = cid /\ rset' = rset
      /\ wset' = wset /\ last' = last /\ item' = item /\ ver' = ver /\ hdr' = hdr
      /\ left' = left /\ renewed' = renewed /\ begun' = begun /\ stray' = stray
      /\ over' = over
  BY DEF RenewItem, Served, Serve, txn
<1>2. TypeOK /\ PhaseOf(c) /\ StampOf(c)
  BY OwnFacts
<1>3. /\ seq' \in [Keys -> Header] /\ \A j \in Keys \ {k} : seq'[j] = seq[j]
      /\ raced \subseteq raced' /\ raced' \subseteq raced \cup {k}
      /\ item[c][k].wts = hdr[c][k][2].wts
  BY Extended
<1>4. TypeOK'
  <2>1. pend' \in [Cors -> SUBSET Keys] /\ open' \in [Cors -> SUBSET Keys] /\ raced' \subseteq Keys
    BY <1>1, <1>2, <1>3 DEF TypeOK
  <2> QED
    BY <1>1, <1>2, <1>3, <2>1 DEF TypeOK
<1>5. OnlyOf(c) /\ pend'[c] = pend[c] \ {k} /\ open'[c] = open[c] \ {k}
  BY <1>1, <1>2 DEF OnlyOf, TypeOK
<1>6. PhaseOf(c)' /\ StampOf(c)' /\ k \in rset[c] /\ k \notin wset[c] /\ k \in pend[c]
  BY <1>1, <1>2, <1>5 DEF PhaseOf, StampOf
<1>7. Holds(c)' = Holds(c) /\ k \notin Holds(c)
  BY <1>1, <1>6 DEF Holds
<1>8. NoLockLeaked'
  <2>1. ASSUME NEW d \in Cors PROVE Holds(d)' = Holds(d)
    BY <1>1, <1>5, <1>7, OthersKeep
  <2> QED
    BY <1>1, <2>1 DEF Inv, NoLockLeaked
<1>9. cid[c] \in Nat /\ cid[c] <= cid'[c]
  BY <1>1, <1>2 DEF TypeOK
<1>10. ASSUME NEW j \in Keys \ {k}
       PROVE  /\ SameAt(c, j) /\ PlainAt(c, j) /\ lock'[j] = lock[j]
              /\ j \in Holds(c)' => j \in Holds(c)
  <2>1. SameAt(c, j)
    BY <1>1, <1>3 DEF SameAt, Writer
  <2>2. PlainAt(c, j)
    BY <1>1, <1>5, <1>7
       DEF PlainAt, Copied, Writing, Copying, Reading, HasRead, Fetched, Renewed
  <2> QED
    BY <1>1, <1>7, <2>1, <2>2
<1>11. /\ ~Writer(c, k)' /\ ~Copied(c, k)' /\ ~Writing(c, k)' /\ ~Copying(c, k)'
       /\ ~Reading(c, k)' /\ ~Fetched(c, k)' /\ HasRead(c, k) /\ Fetched(c, k) /\ ~Writer(c, k)
  BY <1>1, <1>5, <1>6, <1>7
     DEF Writer, Copied, Writing, Copying, Reading, Fetched, HasRead
<1>12. HeldOf(c, k)'
  BY <1>7, <1>11 DEF HeldOf
<1>13. Calm(k)' <=> Calm(k)
  BY <1>1, <1>5, <1>11, OthersKeep DEF Calm
<1>14. k \notin stray => DataOf(k)'
  BY <1>1, <1>13 DEF Inv, DataOf, Contents
<1>15. ASSUME Good(k)'
       PROVE  /\ Keeps(k) /\ OrderOf(k)' /\ WithinLease(c, k)'
              /\ \A d \in Cors : k \in Holds(d) => seq'[k] = seq[k]
  <2>1. Good(k) /\ k \notin raced' /\ k \notin stray
    BY <1>1, <1>3, <1>15 DEF Good
  <2>2. CASE cid[c] <= hdr[c][k][2].rts /\ seq' = seq
    <3>1. SameAt(c, k)
      BY <1>1, <1>11, <2>2 DEF SameAt
    <3>2. OrderOf(k)' /\ Keeps(k)
      BY <1>1, <1>5, <2>1, <2>2, <3>1, SameOrder, SameRecord
    <3>3. PICK x \in Nat : x = hdr[c][k][2].rts
      BY <1>2, HeaderTypes
    <3>4. HeaderFits(k, hdr[c][k][2])
      BY <1>11, <2>1 DEF Inv, LeaseOf
    <3>5. PICK v \in 1 .. Len(hist[k]) : hdr[c][k][2].wts = hist[k][v] /\ Covered(k, v, x)
      BY <3>3, <3>4 DEF HeaderFits
    <3>6. Covered(k, v, cid[c])
      BY <1>2, <1>9, <2>2, <3>3, <3>5, CoveredBefore
    <3>7. seq'[k] = seq[k] /\ hist'[k] = hist[k]
      BY <1>1, <2>2
    <3>8. Covered(k, v, cid[c])'
      <4>1. \A y : Covered(k, v, y)' <=> Covered(k, v, y)
        BY <3>7, SameRecord
      <4>2. PICK y : y = cid[c]
        OBVIOUS
      <4> QED
        BY <1>1, <3>6, <4>1, <4>2
    <3>9. WithinLease(c, k)'
      BY <1>1, <1>3, <3>5, <3>8 DEF WithinLease
    <3> QED
      BY <2>2, <3>2, <3>9
  <2>3. CASE /\ seq'[k] = Lease(item[c][k].wts, cid[c])
             /\ lock[k] = 0 /\ seq[k].wts = item[c][k].wts /\ seq[k].rts <= cid[c]
    <3>1. Calm(k) /\ \A d \in Cors : k \notin Holds(d)
      BY <2>1, <2>3, FreeRecord
    <3>2. seq[k].wts = Top(k)
      BY <2>1, <3>1, CalmRecord
    <3>3. hist'[k] = hist[k] /\ lease'[k] = lease[k] /\ seq'[k] = Lease(Top(k), cid[c])
      BY <1>1, <2>3, <3>2
    <3>4. Keeps(k) /\ Covered(k, Len(hist[k]), cid[c])' /\ OrderOf(k)'
      <4>1. PICK x \in Nat : x = cid[c]
        BY <1>9
      <4>2. Keeps(k) /\ Covered(k, Len(hist[k]), x)' /\ OrderOf(k)'
        BY <1>4, <2>1, <2>3, <3>2, <3>3, <4>1, LeaseGrown
      <4> QED
        BY <1>1, <4>1, <4>2
    <3>5. Len(hist[k]) \in 1 .. Len(hist[k])
      BY <1>2, RecordTypes
    <3>6. item[c][k].wts = hist[k][Len(hist[k])]
      BY <2>3, <3>2 DEF Top
    <3>7. WithinLease(c, k)'
      BY <1>1, <3>4, <3>5, <3>6 DEF WithinLease
    <3> QED
      BY <3>1, <3>4, <3>7
  <2> QED
    BY <2>1, <2>2, <2>3, Extended
<1>16. ASSUME Good(k)' PROVE LeaseOf(c, k)'
  <2>1. k \notin over[c] => WholeCopy(c, k)
    BY <1>1, <1>3, <1>11, <1>16 DEF Inv, LeaseOf, Good
  <2>2. (k \notin over[c] => WholeCopy(c, k))'
    BY <1>1, <2>1 DEF WholeCopy, Contents
  <2> QED
    BY <1>11, <1>15, <1>16, <2>2 DEF LeaseOf
<1>17. ASSUME NEW d \in Cors \ {c}, Good(k)', Reading(d, k), k \notin over'[d]
       PROVE  Calm(k)' /\ hist'[k] = hist[k]
  <2>1. Calm(k)
    BY <1>1, <1>3, <1>17 DEF Inv, LeaseOf, Good
  <2> QED
    BY <1>1, <1>13, <2>1
<1> QED
  BY <1>1, <1>3, <1>4, <1>5, <1>6, <1>8, <1>9, <1>10, <1>12, <1>14, <1>15, <1>16, <1>17,
     OneRecordFrame DEF Own

\* Versions with the same commit id are the same.
LEMMA VersionsDiffer ==
  ASSUME TypeOK, NEW k \in Keys, OrderOf(k), NEW i \in 1 .. Len(hist[k]),
         NEW j \in 1 .. Len(hist[k]), hist[k][i] = hist[k][j]
  PROVE  i = j
<1>1. hist[k][i] \in Nat /\ hist[k][j] \in Nat /\ Len(hist[k]) \in Nat
  BY RecordTypes
<1>2. ~(i < j) /\ ~(j < i)
  BY <1>1 DEF OrderOf
<1> QED
  BY <1>1, <1>2

\* A function on 1 .. n is a sequence, and what Append makes of one.
LEMMA SequenceFacts ==
  ASSUME NEW n \in Nat, NEW f \in [1 .. n -> Nat]
  PROVE  f \in Seq(Nat) /\ Len(f) = n
OBVIOUS

LEMMA AppendFacts ==
  ASSUME NEW s \in Seq(Nat), NEW x \in Nat, NEW n, n = Len(s), NEW t, t = Append(s, x)
  PROVE  /\ t \in Seq(Nat) /\ Len(t) = n + 1 /\ t[n + 1] = x
         /\ \A i \in 1 .. n : t[i] = s[i]
<1>1. /\ Append(s, x) \in Seq(Nat) /\ Len(Append(s, x)) = Len(s) + 1
      /\ Append(s, x)[Len(s) + 1] = x
      /\ \A i \in 1 .. Len(s) : Append(s, x)[i] = s[i]
  BY AppendProperties
<1> QED
  BY <1>1

\* The transaction commits in every lease it has read.
LEMMA CommitKeeps ==
  ASSUME Inv, NEW c \in Cors, Commit(c)
  PROVE  Inv'
<1>1. /\ pc[c] = "renew" /\ pend[c] = {}
      /\ lease' = [k \in Keys |-> [i \in DOMAIN lease[k] |->
           IF k \in rset[c] /\ ReadVersion(c, k, i)
           THEN Larger(lease[k][i], cid[c]) ELSE lease[k][i]]]
      /\ pc' = [pc EXCEPT ![c] = "upd"] /\ pend' = [pend EXCEPT ![c] = wset[c]]
      /\ verbs' = verbs /\ lock' = lock /\ seq' = seq /\ data' = data
      /\ hist' = hist /\ ts' = ts /\ cid' = cid /\ rset' = rset /\ wset' = wset
      /\ last' = last /\ item' = item /\ ver' = ver /\ hdr' = hdr /\ open' = open
      /\ left' = left /\ renewed' = renewed /\ begun' = begun /\ stray' = stray
      /\ raced' = raced /\ over' = over
  BY DEF Commit, Goto, Serve, txn, ghost
<1>2. TypeOK /\ PhaseOf(c) /\ StampOf(c)
  BY OwnFacts
<1>3. ASSUME NEW k \in Keys
      PROVE  /\ lease'[k] \in Seq(Nat) /\ Len(lease'[k]) = Len(hist[k])
             /\ \A i \in 1 .. Len(hist[k]) :
                  \/ lease'[k][i] = lease[k][i]
                  \/ /\ k \in rset[c] /\ item[c][k].wts = hist[k][i]
                     /\ lease'[k][i] = Larger(lease[k][i], cid[c])
  <2>1. /\ hist[k] \in Seq(Nat) /\ Len(hist[k]) \in Nat /\ lease[k] \in Seq(Nat)
        /\ Len(lease[k]) = Len(hist[k]) /\ cid[c] \in Nat
        /\ \A i \in 1 .. Len(hist[k]) : lease[k][i] \in Nat
    BY <1>2, RecordTypes DEF TypeOK
  <2>2. DOMAIN lease[k] = 1 .. Len(hist[k])
    BY <2>1
  <2>3. lease'[k] = [i \in 1 .. Len(hist[k]) |->
           IF k \in rset[c] /\ ReadVersion(c, k, i)
           THEN Larger(lease[k][i], cid[c]) ELSE lease[k][i]]
    BY <1>1, <2>2
  <2>4. ASSUME NEW i \in 1 .. Len(hist[k]) PROVE Larger(lease[k][i], cid[c]) \in Nat
    BY <2>1, LargerFacts
  <2>5. lease'[k] \in [1 .. Len(hist[k]) -> Nat]
    BY <2>1, <2>3, <2>4
  <2>6. lease'[k] \in Seq(Nat) /\ Len(lease'[k]) = Len(hist[k])
    BY <2>1, <2>5, SequenceFacts
  <2>7. ASSUME NEW i \in 1 .. Len(hist[k])
        PROVE  \/ lease'[k][i] = lease[k][i]
               \/ /\ k \in rset[c] /\ item[c][k].wts = hist[k][i]
                  /\ lease'[k][i] = Larger(lease[k][i], cid[c])
    BY <2>3 DEF ReadVersion
  <2> QED
    BY <2>6, <2>7
<1>4. TypeOK'
  <2>1. lease' \in [Keys -> Seq(Nat)]
    <3>1. lease' = [k \in Keys |-> lease'[k]]
      BY <1>1
    <3> QED
      BY <1>3, <3>1
  <2>2. \A k \in Keys : Len(lease'[k]) = Len(hist'[k]) /\ Len(hist'[k]) > 0
    BY <1>1, <1>2, <1>3, RecordTypes
  <2>3. pc' \in [Cors -> Labels] /\ pend' \in [Cors -> SUBSET Keys]
    BY <1>1, <1>2 DEF TypeOK, Labels
  <2> QED
    BY <1>1, <1>2, <2>1, <2>2, <2>3 DEF TypeOK, Labels
<1>5. OnlyOf(c) /\ pc'[c] = "upd" /\ pend'[c] = wset[c]
  BY <1>1, <1>2 DEF OnlyOf, TypeOK
<1>6. last[c] = {} /\ open[c] = {}
  BY <1>1, <1>2 DEF PhaseOf
<1>7. PhaseOf(c)' /\ StampOf(c)'
  BY <1>1, <1>2, <1>5, <1>6 DEF PhaseOf, StampOf
<1>8. Holds(c)' = Holds(c)
  <2>1. wset[c] \ {} = wset[c]
    OBVIOUS
  <2> QED
    BY <1>1, <1>5, <1>6, <2>1 DEF Holds
<1>9. NoLockLeaked'
  <2>1. ASSUME NEW d \in Cors PROVE Holds(d)' = Holds(d)
    BY <1>1, <1>5, <1>8, OthersKeep
  <2> QED
    BY <1>1, <2>1 DEF Inv, NoLockLeaked
<1>10. ASSUME NEW k \in Keys PROVE (Calm(k)' <=> Calm(k)) /\ ~Writer(c, k) /\ ~Writer(c, k)'
  <2>1. ~Writer(c, k) /\ ~Writer(c, k)'
    BY <1>1, <1>5, <1>6 DEF Writer
  <2> QED
    BY <1>1, <1>5, <2>1, OthersKeep DEF Calm
<1>11. ASSUME NEW k \in Keys PROVE Keeps(k) /\ (\A v, x : Covered(k, v, x)' <=> Covered(k, v, x))
                                   /\ Top(k)' = Top(k) /\ (HeaderFits(k, seq[k])' <=> HeaderFits(k, seq[k]))
  <2>1. seq'[k] = seq[k] /\ hist'[k] = hist[k]
    BY <1>1
  <2>2. PICK h : h = seq[k]
    OBVIOUS
  <2>3. HeaderFits(k, h)' <=> HeaderFits(k, h)
    BY <2>1, SameRecord
  <2>4. HeaderFits(k, seq[k])' <=> HeaderFits(k, seq[k])
    BY <2>1, <2>2, <2>3
  <2> QED
    BY <2>1, <2>4, SameRecord
<1>12. Held(c) /\ Seen
  BY <1>1, <1>11 DEF Held, Seen
<1>13. Copies(c)
  <2> SUFFICES ASSUME NEW k \in Keys, NEW d \in Cors \ {c}, Good(k)', Reading(d, k), k \notin over'[d]
      PROVE Calm(k)' /\ hist'[k] = hist[k]
    BY DEF Copies
  <2>1. Calm(k)
    BY <1>1 DEF Inv, LeaseOf, Good
  <2> QED
    BY <1>1, <1>10, <2>1
<1>14. ASSUME NEW k \in Keys, k \notin stray' PROVE DataOf(k)' /\ HeldOf(c, k)'
  <2>1. DataOf(k) /\ HeldOf(c, k)
    BY <1>1, <1>14 DEF Inv
  <2>2. Copied(c, k)' => Copied(c, k)
    BY <1>1, <1>8 DEF Copied
  <2>3. DataOf(k)'
    BY <1>1, <1>10, <2>1 DEF DataOf, Contents
  <2>4. HeldOf(c, k)'
    BY <1>1, <1>8, <1>10, <2>1, <2>2 DEF HeldOf
  <2> QED
    BY <2>3, <2>4
<1>15. ASSUME NEW k \in Keys, Good(k)' PROVE OrderOf(k)' /\ LeaseOf(c, k)'
  <2>1. OrderOf(k) /\ LeaseOf(c, k)
    BY <1>1, <1>15 DEF Inv, Good
  <2>2. ASSUME NEW i \in 1 .. Len(hist[k]) PROVE Covered(k, i, lease'[k][i])
    <3>1. Covered(k, i, lease[k][i])
      BY <2>1 DEF OrderOf
    <3>2. CASE lease'[k][i] = lease[k][i]
      BY <3>1, <3>2
    <3>3. CASE /\ k \in rset[c] /\ item[c][k].wts = hist[k][i]
               /\ lease'[k][i] = Larger(lease[k][i], cid[c])
      <4>1. WithinLease(c, k)
        BY <1>1, <2>1, <3>3 DEF LeaseOf, Renewed
      <4>2. PICK v \in 1 .. Len(hist[k]) : item[c][k].wts = hist[k][v] /\ Covered(k, v, cid[c])
        BY <4>1 DEF WithinLease
      <4>3. v = i
        BY <1>2, <2>1, <3>3, <4>2, VersionsDiffer
      <4>4. Covered(k, i, cid[c])
        BY <4>2, <4>3
      <4>5. Larger(lease[k][i], cid[c]) = lease[k][i] \/ Larger(lease[k][i], cid[c]) = cid[c]
        BY DEF Larger
      <4> QED
        BY <3>1, <3>3, <4>4, <4>5
    <3> QED
      BY <1>3, <3>2, <3>3
  <2>3. (\A i \in 1 .. Len(hist[k]) : Covered(k, i, lease[k][i]))'
    BY <1>1, <1>11, <2>2
  <2>4. OrderOf(k)'
    BY <1>1, <1>10, <1>11, <2>1, <2>3 DEF OrderOf
  <2>5. /\ Writing(c, k)' => Writing(c, k)
        /\ HasRead(c, k)' => HasRead(c, k)
        /\ ~Copying(c, k)' /\ ~Reading(c, k)' /\ ~Fetched(c, k)' /\ ~Renewed(c, k)'
    BY <1>1, <1>5, <1>8 DEF Writing, HasRead, Copying, Reading, Fetched, Renewed
  <2>6. (HasRead(c, k) /\ k \notin over[c] => WholeCopy(c, k))'
    BY <1>1, <2>1, <2>5 DEF LeaseOf, WholeCopy, Contents
  <2>7. (Writing(c, k) => seq[k].rts < cid[c])'
    BY <1>1, <2>1, <2>5 DEF LeaseOf
  <2> QED
    BY <1>10, <2>4, <2>5, <2>6, <2>7 DEF LeaseOf
<1> QED
  BY <1>1, <1>4, <1>5, <1>7, <1>9, <1>12, <1>13, <1>14, <1>15, RecordFrame DEF Own

\* A version is added behind the versions and the leases there are.
LEMMA VersionAdded ==
  ASSUME Inv, TypeOK', NEW k \in Keys, Good(k), Calm(k), NEW x \in Nat, seq[k].rts < x,
         seq'[k] = seq[k], hist'[k] = Append(hist[k], x), lease'[k] = Append(lease[k], 0),
         ~Calm(k)'
  PROVE  Keeps(k) /\ OrderOf(k)' /\ Top(k)' = x /\ seq'[k].wts # x
<1>1. OrderOf(k) /\ TypeOK
  BY DEF Inv
<1>2. PICK n \in Nat : n = Len(hist[k]) /\ n > 0 /\ n = Len(lease[k])
  BY <1>1, RecordTypes
<1>3. /\ seq[k].wts \in Nat /\ seq[k].rts \in Nat /\ Top(k) \in Nat
      /\ \A i \in 1 .. n : hist[k][i] \in Nat /\ lease[k][i] \in Nat
      /\ hist[k] \in Seq(Nat) /\ lease[k] \in Seq(Nat)
  BY <1>1, <1>2, RecordTypes
<1>4. seq[k].wts = Top(k) /\ Ends(k) = seq[k].rts
  BY CalmRecord DEF Ends
<1>5. Top(k) <= seq[k].rts
  BY <1>1, <1>4 DEF OrderOf, HeaderFits
<1>6. /\ Len(hist'[k]) = n + 1 /\ hist'[k][n + 1] = x
      /\ \A i \in 1 .. n : hist'[k][i] = hist[k][i]
  <2>1. PICK s \in Seq(Nat) : s = hist[k]
    BY <1>3
  <2>2. PICK t : t = hist'[k] /\ t = Append(s, x)
    BY <2>1
  <2>3. n = Len(s)
    BY <1>2, <2>1
  <2>4. Len(t) = n + 1 /\ t[n + 1] = x /\ \A i \in 1 .. n : t[i] = s[i]
    BY <2>2, <2>3, AppendFacts
  <2> QED
    BY <2>1, <2>2, <2>4
<1>7. /\ lease'[k][n + 1] = 0
      /\ \A i \in 1 .. n : lease'[k][i] = lease[k][i]
  <2>1. PICK z \in Nat : z = 0
    OBVIOUS
  <2>2. lease'[k] = Append(lease[k], z)
    BY <2>1
  <2>3. lease'[k][n + 1] = z /\ \A i \in 1 .. n : lease'[k][i] = lease[k][i]
    BY <1>2, <1>3, <2>2, AppendFacts
  <2> QED
    BY <2>1, <2>3
<1>8. Top(k)' = x
  BY <1>6 DEF Top
<1>9. seq[k].wts < x
  BY <1>3, <1>4, <1>5
<1>10. Ends(k)' = x
  BY <1>3, <1>8, <1>9 DEF Ends
<1>11. ASSUME NEW v \in 1 .. n, NEW y \in Nat, Covered(k, v, y) PROVE Covered(k, v, y)'
  <2>1. v < Len(hist'[k])
    BY <1>2, <1>6
  <2>2. y < hist'[k][v + 1]
    <3>1. CASE v < n
      <4>1. y < hist[k][v + 1] /\ v + 1 \in 1 .. n
        BY <1>2, <1>11, <3>1 DEF Covered
      <4> QED
        BY <1>6, <4>1
    <3>2. CASE ~(v < n)
      <4>1. v = n
        BY <3>2
      <4>2. y <= seq[k].rts
        BY <1>2, <1>4, <1>11, <3>2 DEF Covered
      <4> QED
        BY <1>3, <1>6, <4>1, <4>2
    <3> QED
      BY <3>1, <3>2
  <2> QED
    BY <2>1, <2>2 DEF Covered
<1>12. Keeps(k)
  BY <1>2, <1>6, <1>11 DEF Keeps
<1>13. (\A i, j \in 1 .. Len(hist[k]) : i < j => hist[k][i] < hist[k][j])'
  <2> SUFFICES ASSUME NEW i \in 1 .. n + 1, NEW j \in 1 .. n + 1, i < j
      PROVE hist'[k][i] < hist'[k][j]
    BY <1>6
  <2>1. i \in 1 .. n
    BY <1>2
  <2>2. CASE j \in 1 .. n
    BY <1>1, <1>2, <1>6, <2>1, <2>2 DEF OrderOf
  <2>3. CASE j = n + 1
    <3>1. hist[k][i] <= Top(k)
      <4>1. CASE i = n
        BY <1>2, <1>3, <4>1 DEF Top
      <4>2. CASE i # n
        <5>1. hist[k][i] < hist[k][n] /\ n \in 1 .. n
          BY <1>1, <1>2, <2>1, <4>2 DEF OrderOf
        <5>2. hist[k][n] = Top(k) /\ hist[k][i] \in Nat
          BY <1>2, <1>3, <2>1 DEF Top
        <5> QED
          BY <1>3, <5>1, <5>2
      <4> QED
        BY <4>1, <4>2
    <3> QED
      BY <1>3, <1>4, <1>6, <1>9, <2>1, <2>3, <3>1
  <2>4. j \in 1 .. n \/ j = n + 1
    BY <1>2
  <2> QED
    BY <2>2, <2>3, <2>4
<1>14. (\A i \in 1 .. Len(hist[k]) : Covered(k, i, lease[k][i]))'
  <2> SUFFICES ASSUME NEW i \in 1 .. n + 1 PROVE Covered(k, i, lease[k][i])'
    BY <1>6
  <2>1. CASE i \in 1 .. n
    <3>1. PICK y \in Nat : y = lease[k][i]
      BY <1>3, <2>1
    <3>2. Covered(k, i, y)
      BY <1>1, <1>2, <2>1, <3>1 DEF OrderOf
    <3>3. Covered(k, i, y)'
      BY <1>11, <2>1, <3>2
    <3> QED
      BY <1>7, <2>1, <3>1, <3>3
  <2>2. CASE i = n + 1
    <3>1. ~(i < Len(hist'[k])) /\ lease'[k][i] <= Ends(k)'
      BY <1>2, <1>6, <1>7, <1>10, <2>2
    <3> QED
      BY <3>1 DEF Covered
  <2>3. i \in 1 .. n \/ i = n + 1
    BY <1>2
  <2> QED
    BY <2>1, <2>2, <2>3
<1>15. HeaderFits(k, seq[k])'
  <2>1. PICK h : h = seq[k]
    OBVIOUS
  <2>2. HeaderFits(k, h)'
    BY <1>1, <1>3, <1>12, <2>1, KeptHeader DEF OrderOf
  <2> QED
    BY <2>1, <2>2
<1>16. OrderOf(k)'
  BY <1>13, <1>14, <1>15 DEF OrderOf
<1>17. seq'[k].wts # x
  BY <1>3, <1>9
<1> QED
  BY <1>8, <1>12, <1>16, <1>17

LEMMA UpdateItemKeeps ==
  ASSUME Inv, NEW c \in Cors, NEW k \in Keys, UpdateItem(c, k)
  PROVE  Inv'
<1>1. /\ pc[c] = "upd" /\ k \in pend[c] /\ k \notin open[c]
      /\ left' = [left EXCEPT ![c][k] = 1 .. 3] /\ open' = [open EXCEPT ![c] = @ \cup {k}]
      /\ verbs' = verbs /\ lock' = lock /\ data' = data /\ pc' = pc /\ ts' = ts
      /\ cid' = cid /\ rset' = rset /\ wset' = wset /\ last' = last /\ hdr' = hdr
      /\ pend' = pend /\ renewed' = renewed /\ begun' = begun /\ stray' = stray
      /\ raced' = raced
  BY DEF UpdateItem
<1>2. TypeOK /\ PhaseOf(c) /\ StampOf(c)
  BY OwnFacts
<1>3. PICK n \in Nat : n = Len(hist[k]) /\ n > 0
  BY <1>2, RecordTypes
<1>4. PICK x \in Nat : x = cid[c]
  BY <1>2 DEF TypeOK
<1>5. PICK u \in Header :
        /\ item' = [item EXCEPT ![c][k] = u]
        /\ verbs => u = Lease(x, x)
  <2>1. seq[k].wts \in Nat /\ seq[k].rts \in Nat
    BY <1>2, RecordTypes
  <2>2. Lease(x, x) \in Header /\ Lease(seq[k].wts, seq[k].rts + 2) \in Header
    BY <2>1 DEF Lease, Header
  <2> QED
    BY <1>4, <2>2 DEF UpdateItem, Updated
<1>6. PICK w \in [1 .. 2 -> Nat] : ver' = [ver EXCEPT ![c][k] = w] /\ w = Contents(n + 1)
  <2>1. n + 1 \in Nat
    OBVIOUS
  <2>2. Contents(n + 1) \in [1 .. 2 -> Nat]
    BY <2>1, ContentsFacts
  <2> QED
    BY <1>3, <2>2 DEF UpdateItem
<1>7. /\ seq' \in [Keys -> Header] /\ (\A j \in Keys \ {k} : seq'[j] = seq[j])
      /\ verbs => seq' = seq
  <2>1. ConflictFlag \in Header
    BY DEF ConflictFlag, Lease, Header
  <2>2. seq' = (IF verbs THEN seq ELSE [seq EXCEPT ![k] = ConflictFlag])
    BY DEF UpdateItem
  <2> QED
    BY <1>2, <2>1, <2>2 DEF TypeOK
<1>8. /\ hist' \in [Keys -> Seq(Nat)] /\ (\A j \in Keys \ {k} : hist'[j] = hist[j])
      /\ hist'[k] = Append(hist[k], x) /\ Len(hist'[k]) = n + 1
  <2>1. hist' = [hist EXCEPT ![k] = Append(hist[k], x)]
    BY <1>4 DEF UpdateItem
  <2>2. PICK s \in Seq(Nat) : s = hist[k] /\ n = Len(s)
    BY <1>2, <1>3, RecordTypes
  <2>3. PICK t : t = Append(s, x)
    OBVIOUS
  <2>4. t \in Seq(Nat) /\ Len(t) = n + 1
    <3>1. n = Len(s)
      BY <2>2
    <3> QED
      BY <2>3, <3>1, AppendFacts
  <2> QED
    BY <1>2, <2>1, <2>2, <2>3, <2>4 DEF TypeOK
<1>9. /\ lease' \in [Keys -> Seq(Nat)] /\ (\A j \in Keys \ {k} : lease'[j] = lease[j])
      /\ lease'[k] = Append(lease[k], 0) /\ Len(lease'[k]) = n + 1
  <2>1. PICK z \in Nat : z = 0
    OBVIOUS
  <2>2. lease' = [lease EXCEPT ![k] = Append(lease[k], z)]
    BY <2>1 DEF UpdateItem
  <2>3. PICK s \in Seq(Nat) : s = lease[k] /\ n = Len(s)
    BY <1>2, <1>3, RecordTypes
  <2>4. PICK t : t = Append(s, z)
    OBVIOUS
  <2>5. t \in Seq(Nat) /\ Len(t) = n + 1
    <3>1. n = Len(s)
      BY <2>3
    <3> QED
      BY <2>4, <3>1, AppendFacts
  <2> QED
    BY <1>2, <2>1, <2>2, <2>3, <2>4, <2>5 DEF TypeOK
<1>10. /\ over' \in [Cors -> SUBSET Keys] /\ \A d \in Cors : over[d] \subseteq over'[d]
       /\ \A d \in Cors : Reading(d, k) => k \in over'[d]
  BY <1>2 DEF UpdateItem, TypeOK, Reading
<1>11. TypeOK'
  <2>1. item' \in [Cors -> [Keys -> Header]]
    BY <1>2, <1>5 DEF TypeOK
  <2>2. ver' \in [Cors -> [Keys -> [1 .. 2 -> Nat]]]
    BY <1>2, <1>6 DEF TypeOK
  <2>3. left' \in [Cors -> [Keys -> SUBSET (1 .. 3)]] /\ open' \in [Cors -> SUBSET Keys]
    <3>1. 1 .. 3 \in SUBSET (1 .. 3) /\ left \in [Cors -> [Keys -> SUBSET (1 .. 3)]]
      BY <1>2 DEF TypeOK
    <3>2. PICK W \in SUBSET (1 .. 3) : W = 1 .. 3
      BY <3>1
    <3>3. left' = [left EXCEPT ![c][k] = W]
      BY <1>1, <3>2
    <3>4. left' \in [Cors -> [Keys -> SUBSET (1 .. 3)]]
      BY <3>1, <3>3
    <3> QED
      BY <1>1, <1>2, <3>4 DEF TypeOK
  <2>4. \A j \in Keys : Len(lease'[j]) = Len(hist'[j]) /\ Len(hist'[j]) > 0
    <3>1. ASSUME NEW j \in Keys \ {k} PROVE Len(lease'[j]) = Len(hist'[j]) /\ Len(hist'[j]) > 0
      BY <1>2, <1>8, <1>9, RecordTypes
    <3>2. Len(lease'[k]) = Len(hist'[k]) /\ Len(hist'[k]) > 0
      BY <1>3, <1>8, <1>9
    <3> QED
      BY <3>1, <3>2
  <2> QED
    BY <1>1, <1>2, <1>7, <1>8, <1>9, <1>10, <2>1, <2>2, <2>3, <2>4 DEF TypeOK
<1>12. /\ OnlyOf(c) /\ open'[c] = open[c] \cup {k} /\ left'[c][k] = 1 .. 3
       /\ item'[c][k] = u /\ ver'[c][k] = w
       /\ \A j \in Keys \ {k} :
            item'[c][j] = item[c][j] /\ ver'[c][j] = ver[c][j] /\ left'[c][j] = left[c][j]
  BY <1>1, <1>2, <1>5, <1>6, <1>10 DEF OnlyOf, TypeOK
<1>13. PhaseOf(c)' /\ StampOf(c)'
  BY <1>1, <1>2, <1>12 DEF PhaseOf, StampOf
<1>14. Holds(c)' = Holds(c) /\ k \in Holds(c) /\ k \in wset[c] /\ k \notin rset[c] /\ last[c] = {}
  BY <1>1, <1>2 DEF Holds, PhaseOf
<1>15. NoLockLeaked'
  <2>1. ASSUME NEW d \in Cors PROVE Holds(d)' = Holds(d)
    BY <1>1, <1>12, <1>14, OthersKeep
  <2> QED
    BY <1>1, <2>1 DEF Inv, NoLockLeaked
<1>16. cid[c] <= cid'[c]
  BY <1>1, <1>2 DEF TypeOK
<1>17. ASSUME NEW j \in Keys \ {k}
       PROVE  /\ SameAt(c, j) /\ PlainAt(c, j) /\ lock'[j] = lock[j]
              /\ j \in Holds(c)' => j \in Holds(c)
  <2>1. SameAt(c, j)
    BY <1>1, <1>7, <1>8, <1>9, <1>12 DEF SameAt, Writer
  <2>2. j \in over[c] => j \in over'[c]
    BY <1>10
  <2>3. PlainAt(c, j)
    BY <1>1, <1>12, <1>14, <2>2
       DEF PlainAt, Copied, Writing, Copying, Reading, HasRead, Fetched, Renewed
  <2> QED
    BY <1>1, <1>14, <2>1, <2>3
<1>18. ASSUME NEW d \in Cors \ {c}, k \notin stray, k \in Holds(d) PROVE FALSE
  BY <1>14, <1>18, HoldFacts
<1>19. /\ Writer(c, k)' /\ ~Copied(c, k)' /\ ~Writing(c, k)' /\ ~Copying(c, k)'
       /\ ~Reading(c, k)' /\ ~Fetched(c, k)' /\ ~Renewed(c, k)' /\ ~HasRead(c, k)'
  BY <1>1, <1>12, <1>14
     DEF Writer, Copied, Writing, Copying, Reading, Fetched, Renewed, HasRead
<1>20. ~Calm(k)'
  BY <1>19 DEF Calm
<1>21. ASSUME k \notin stray PROVE DataOf(k)' /\ HeldOf(c, k)'
  <2>1. lock[k] = ts[c]
    BY <1>14, <1>21 DEF Inv, HeldOf
  <2>2. ver'[c][k] = Contents(Len(hist'[k]))
    BY <1>6, <1>8, <1>12
  <2>3. \A m \in 1 .. 2 : m \in left'[c][k]
    BY <1>12
  <2>4. HeldOf(c, k)'
    BY <1>1, <1>19, <2>1, <2>2, <2>3 DEF HeldOf, Contents
  <2> QED
    BY <1>20, <2>4 DEF DataOf
<1>22. ASSUME Good(k)' PROVE Keeps(k) /\ OrderOf(k)' /\ LeaseOf(c, k)'
  <2>1. Good(k) /\ k \notin stray /\ verbs
    BY <1>1, <1>22 DEF Good
  <2>2. Calm(k)
    BY <1>1, <1>14, <2>1, HeldCalm
  <2>3. seq[k].rts < x
    <3>1. Writing(c, k)
      BY <1>1, <1>14 DEF Writing
    <3> QED
      BY <1>4, <2>1, <3>1 DEF Inv, LeaseOf
  <2>4. seq'[k] = seq[k]
    BY <1>7, <2>1
  <2>5. Keeps(k) /\ OrderOf(k)' /\ Top(k)' = x /\ seq'[k].wts # x
    BY <1>8, <1>9, <1>11, <1>20, <2>1, <2>2, <2>3, <2>4, VersionAdded
  <2>6. 3 \in left'[c][k] /\ item'[c][k] = Lease(x, x)
    BY <1>5, <1>12, <2>1
  <2> QED
    BY <1>19, <2>5, <2>6 DEF LeaseOf, Lease
<1>23. ASSUME NEW d \in Cors \ {c}, Reading(d, k), k \notin over'[d] PROVE FALSE
  BY <1>10, <1>23
<1> QED
  BY <1>1, <1>11, <1>12, <1>13, <1>15, <1>16, <1>17, <1>18, <1>21, <1>22, <1>23,
     OneRecordFrame DEF Own

\* A half or the word of the new version lands.
LEMMA UpdatePartKeeps ==
  ASSUME Inv, NEW c \in Cors, NEW k \in Keys, UpdatePart(c, k)
  PROVE  Inv'
<1>1. /\ pc[c] = "upd" /\ k \in open[c]
      /\ verbs' = verbs /\ lock' = lock /\ hist' = hist /\ lease' = lease
      /\ pc' = pc /\ ts' = ts /\ cid' = cid /\ rset' = rset /\ wset' = wset
      /\ last' = last /\ item' = item /\ ver' = ver /\ hdr' = hdr /\ pend' = pend
      /\ open' = open /\ renewed' = renewed /\ begun' = begun /\ stray' = stray
      /\ raced' = raced /\ over' = over
  BY DEF UpdatePart, txn, ghost
<1>2. TypeOK /\ PhaseOf(c) /\ StampOf(c)
  BY OwnFacts
<1>3. PICK n \in left[c][k] :
        /\ left' = [left EXCEPT ![c][k] = @ \ {n}]
        /\ IF n = 3 THEN seq' = [seq EXCEPT ![k] = item[c][k]] /\ data' = data
           ELSE data' = [data EXCEPT ![k][n] = ver[c][k][n]] /\ seq' = seq
  BY DEF UpdatePart
<1>4. left[c][k] \subseteq 1 .. 3 /\ item[c][k] \in Header /\ ver[c][k] \in [1 .. 2 -> Nat]
      /\ data[k] \in [1 .. 2 -> Nat]
  BY <1>2 DEF TypeOK
<1>5. n \in 1 .. 3 /\ (n # 3 => n \in 1 .. 2)
  BY <1>3, <1>4
<1>6. /\ seq' \in [Keys -> Header] /\ (\A j \in Keys \ {k} : seq'[j] = seq[j])
      /\ (n = 3 => seq'[k] = item[c][k]) /\ (n # 3 => seq'[k] = seq[k])
  BY <1>2, <1>3, <1>4 DEF TypeOK
<1>7. /\ data' \in [Keys -> [1 .. 2 -> Nat]] /\ (\A j \in Keys \ {k} : data'[j] = data[j])
      /\ \A m \in 1 .. 2 : data'[k][m] = IF m = n THEN ver[c][k][m] ELSE data[k][m]
  <2>1. CASE n = 3
    BY <1>2, <1>3, <2>1 DEF TypeOK
  <2>2. CASE n # 3
    <3>1. ver[c][k][n] \in Nat /\ data \in [Keys -> [1 .. 2 -> Nat]]
      BY <1>2, <1>4, <1>5, <2>2 DEF TypeOK
    <3>2. data' = [data EXCEPT ![k][n] = ver[c][k][n]]
      BY <1>3, <2>2
    <3>3. data'[k] = [data[k] EXCEPT ![n] = ver[c][k][n]]
      BY <3>1, <3>2
    <3> QED
      BY <1>4, <1>5, <2>2, <3>1, <3>2, <3>3
  <2> QED
    BY <2>1, <2>2
<1>8. TypeOK'
  <2>1. left' \in [Cors -> [Keys -> SUBSET (1 .. 3)]]
    BY <1>2, <1>3, <1>4 DEF TypeOK
  <2> QED
    BY <1>1, <1>2, <1>6, <1>7, <2>1 DEF TypeOK
<1>9. /\ OnlyOf(c) /\ left'[c][k] = left[c][k] \ {n}
      /\ \A j \in Keys \ {k} : left'[c][j] = left[c][j]
  BY <1>1, <1>2, <1>3 DEF OnlyOf, TypeOK
<1>10. PhaseOf(c)' /\ StampOf(c)'
  BY <1>1, <1>2 DEF PhaseOf, StampOf
<1>11. Holds(c)' = Holds(c) /\ k \in Holds(c) /\ k \in wset[c] /\ k \notin rset[c] /\ last[c] = {}
  BY <1>1, <1>2 DEF Holds, PhaseOf
<1>12. NoLockLeaked'
  <2>1. ASSUME NEW d \in Cors PROVE Holds(d)' = Holds(d)
    BY <1>1 DEF Holds
  <2> QED
    BY <1>1, <2>1 DEF Inv, NoLockLeaked
<1>13. cid[c] <= cid'[c]
  BY <1>1, <1>2 DEF TypeOK
<1>14. ASSUME NEW j \in Keys \ {k}
       PROVE  /\ SameAt(c, j) /\ PlainAt(c, j) /\ lock'[j] = lock[j]
              /\ j \in Holds(c)' => j \in Holds(c)
  <2>1. SameAt(c, j)
    BY <1>1, <1>6, <1>7 DEF SameAt, Writer
  <2>2. PlainAt(c, j)
    BY <1>1, <1>9, <1>11
       DEF PlainAt, Copied, Writing, Copying, Reading, HasRead, Fetched, Renewed
  <2> QED
    BY <1>1, <1>11, <2>1, <2>2
<1>15. ASSUME NEW d \in Cors \ {c}, k \notin stray, k \in Holds(d) PROVE FALSE
  BY <1>11, <1>15, HoldFacts
<1>16. /\ Writer(c, k) /\ Writer(c, k)' /\ ~Copied(c, k)' /\ ~Writing(c, k)' /\ ~Copying(c, k)'
       /\ ~Reading(c, k)' /\ ~Fetched(c, k)' /\ ~Renewed(c, k)' /\ ~HasRead(c, k)'
  BY <1>1, <1>11
     DEF Writer, Copied, Writing, Copying, Reading, Fetched, Renewed, HasRead
<1>17. ~Calm(k) /\ ~Calm(k)'
  BY <1>16 DEF Calm
<1>18. ASSUME k \notin stray PROVE DataOf(k)' /\ HeldOf(c, k)'
  <2>1. HeldOf(c, k) /\ Len(hist[k]) \in Nat
    BY <1>2, <1>18, RecordTypes DEF Inv
  <2>2. ver[c][k] = Contents(Len(hist[k])) /\ lock[k] = ts[c]
    BY <1>11, <1>16, <2>1 DEF HeldOf
  <2>3. ASSUME NEW m \in 1 .. 2 PROVE m \in left'[c][k] \/ data'[k][m] = Len(hist[k])
    <3>1. m \in left[c][k] \/ data[k][m] = Len(hist[k])
      BY <1>16, <2>1 DEF HeldOf
    <3>2. ver[c][k][m] = Len(hist[k])
      BY <2>1, <2>2, ContentsFacts
    <3> QED
      BY <1>7, <1>9, <3>1, <3>2
  <2>4. HeldOf(c, k)'
    BY <1>1, <1>16, <2>2, <2>3 DEF HeldOf, Contents
  <2> QED
    BY <1>17, <2>4 DEF DataOf
<1>19. ASSUME Good(k)' PROVE Keeps(k) /\ OrderOf(k)' /\ LeaseOf(c, k)'
  <2>1. OrderOf(k) /\ LeaseOf(c, k)
    BY <1>1, <1>19 DEF Inv, Good
  <2>2. item[c][k] = Lease(Top(k), Top(k)) /\ (3 \in left[c][k] <=> seq[k].wts # Top(k))
    BY <1>16, <2>1 DEF LeaseOf
  <2>3. /\ Top(k) \in Nat /\ Len(hist[k]) \in 1 .. Len(hist[k]) /\ hist'[k] = hist[k]
        /\ Len(hist[k]) \in Nat /\ Top(k)' = Top(k)
    BY <1>1, <1>2, RecordTypes DEF Top
  <2>4. CASE n = 3
    <3>1. seq'[k].wts = Top(k) /\ seq'[k].rts = Top(k) /\ seq[k].wts # Top(k)
      BY <1>3, <1>6, <2>2, <2>4 DEF Lease
    <3>2. Ends(k)' = Ends(k) /\ Ends(k) = Top(k)
      BY <2>3, <3>1 DEF Ends
    <3>3. \A v, y : Covered(k, v, y)' <=> Covered(k, v, y)
      BY <2>3, <3>2 DEF Covered
    <3>4. Keeps(k)
      BY <2>3, <3>3 DEF Keeps
    <3>5. Covered(k, Len(hist[k]), seq[k].rts)'
      BY <2>3, <3>1, <3>2 DEF Covered
    <3>6. HeaderFits(k, seq[k])'
      <4>1. seq'[k].wts = hist'[k][Len(hist[k])] /\ seq'[k].wts <= seq'[k].rts
        BY <2>3, <3>1 DEF Top
      <4> QED
        BY <2>3, <3>5, <4>1 DEF HeaderFits
    <3>7. OrderOf(k)'
      BY <1>1, <1>17, <2>1, <2>3, <3>3, <3>6 DEF OrderOf
    <3>8. 3 \notin left'[c][k]
      BY <1>9, <2>4
    <3>9. LeaseOf(c, k)'
      BY <1>1, <1>16, <2>2, <2>3, <3>1, <3>8 DEF LeaseOf, Lease
    <3> QED
      BY <3>4, <3>7, <3>9
  <2>5. CASE n # 3
    <3>1. seq'[k] = seq[k]
      BY <1>6, <2>5
    <3>2. Keeps(k) /\ \A v, y : Covered(k, v, y)' <=> Covered(k, v, y)
      BY <2>3, <3>1, SameRecord
    <3>3. PICK h : h = seq[k]
      OBVIOUS
    <3>4. HeaderFits(k, h)' <=> HeaderFits(k, h)
      BY <2>3, <3>1, SameRecord
    <3>5. HeaderFits(k, seq[k])'
      BY <2>1, <3>1, <3>3, <3>4 DEF OrderOf
    <3>6. OrderOf(k)'
      BY <1>1, <1>17, <2>1, <2>3, <3>2, <3>5 DEF OrderOf
    <3>7. 3 \in left'[c][k] <=> 3 \in left[c][k]
      BY <1>9, <2>5
    <3>8. LeaseOf(c, k)'
      BY <1>1, <1>16, <2>2, <2>3, <3>1, <3>7 DEF LeaseOf, Lease
    <3> QED
      BY <3>2, <3>6, <3>8
  <2> QED
    BY <2>4, <2>5
<1>20. ASSUME NEW d \in Cors \ {c}, Good(k)', Reading(d, k), k \notin over'[d] PROVE FALSE
  <2>1. Calm(k)
    BY <1>1, <1>20 DEF Inv, LeaseOf, Good
  <2> QED
    BY <1>17, <2>1
<1> QED
  BY <1>1, <1>8, <1>9, <1>10, <1>12, <1>13, <1>14, <1>15, <1>18, <1>19, <1>20,
     OneRecordFrame DEF Own
-----------------------------------------------------------------------------
(* The invariant holds                                                     *)
-----------------------------------------------------------------------------
LEMMA InvInit == Init => Inv
<1> SUFFICES ASSUME Init PROVE Inv
  OBVIOUS
<1>1. TypeOK
  <2>1. Lease(0, 0) \in Header
    BY DEF Lease, Header
  <2>2. << 0 >> \in Seq(Nat) /\ Len(<< 0 >>) = 1
    OBVIOUS
  <2>3. /\ hist \in [Keys -> Seq(Nat)] /\ lease \in [Keys -> Seq(Nat)]
        /\ \A k \in Keys : Len(lease[k]) = Len(hist[k]) /\ Len(hist[k]) > 0
    BY <2>2 DEF Init
  <2>4. seq \in [Keys -> Header] /\ item \in [Cors -> [Keys -> Header]]
    BY <2>1 DEF Init
  <2>5. hdr \in [Cors -> [Keys -> Nat \X Header]]
    BY <2>1 DEF Init
  <2>6. Contents(0) \in [1 .. 2 -> Nat] /\ Contents(1) \in [1 .. 2 -> Nat]
    BY ContentsFacts
  <2>7. data \in [Keys -> [1 .. 2 -> Nat]] /\ ver \in [Cors -> [Keys -> [1 .. 2 -> Nat]]]
    BY <2>6 DEF Init
  <2>8. renewed \in [Cors -> BOOLEAN] /\ begun \in 0 .. MaxTxns
    BY SundialAssumption DEF Init
  <2>9. left \in [Cors -> [Keys -> SUBSET (1 .. 3)]]
    BY DEF Init
  <2> QED
    BY <2>3, <2>4, <2>5, <2>7, <2>8, <2>9 DEF Init, TypeOK
<1>2. ASSUME NEW c \in Cors PROVE Own(c) /\ Holds(c) = {} /\ rset[c] = {} /\ pc[c] = "idle"
  BY DEF Init, Own, PhaseOf, StampOf, Holds
<1>3. NoLockLeaked
  BY DEF Init, NoLockLeaked
<1>4. ASSUME NEW c \in Cors, NEW k \in Keys PROVE HeldOf(c, k) /\ LeaseOf(c, k)
  <2>1. /\ ~Writer(c, k) /\ ~Copied(c, k) /\ ~Writing(c, k) /\ ~Copying(c, k)
        /\ ~Reading(c, k) /\ ~Fetched(c, k) /\ ~Renewed(c, k) /\ ~HasRead(c, k)
    BY <1>2 DEF Writer, Copied, Writing, Copying, Reading, Fetched, Renewed, HasRead
  <2> QED
    BY <1>2, <2>1 DEF HeldOf, LeaseOf
<1>5. ASSUME NEW k \in Keys PROVE DataOf(k) /\ OrderOf(k)
  <2>1. /\ hist[k] = << 0 >> /\ lease[k] = << 0 >> /\ seq[k].wts = 0 /\ seq[k].rts = 0
        /\ data[k] = Contents(1)
    BY DEF Init, Lease
  <2>2. Len(hist[k]) = 1 /\ hist[k][1] = 0 /\ lease[k][1] = 0
    BY <2>1
  <2>3. Top(k) = 0 /\ Ends(k) = 0
    BY <2>1, <2>2 DEF Top, Ends
  <2>4. Covered(k, 1, 0)
    BY <2>2, <2>3 DEF Covered
  <2>5. \A i \in 1 .. 1 : i = 1
    OBVIOUS
  <2>6. HeaderFits(k, seq[k])
    BY <2>1, <2>2, <2>4 DEF HeaderFits
  <2>7. OrderOf(k)
    BY <2>1, <2>2, <2>3, <2>4, <2>5, <2>6 DEF OrderOf
  <2> QED
    BY <2>1, <2>2, <2>7 DEF DataOf
<1> QED
  BY <1>1, <1>2, <1>3, <1>4, <1>5 DEF Inv

LEMMA InvStutter ==
  ASSUME Inv, UNCHANGED vars PROVE Inv'
<1>1. /\ TRUE
      /\ verbs' = verbs /\ lock' = lock /\ seq' = seq /\ data' = data
      /\ hist' = hist /\ lease' = lease /\ pc' = pc /\ ts' = ts /\ cid' = cid
      /\ rset' = rset /\ wset' = wset /\ last' = last /\ item' = item /\ ver' = ver
      /\ hdr' = hdr /\ pend' = pend /\ open' = open /\ left' = left
      /\ renewed' = renewed /\ begun' = begun /\ stray' = stray /\ raced' = raced
      /\ over' = over
  BY DEF vars
<1>2. TypeOK' /\ NoLockLeaked'
  BY <1>1 DEF Inv, TypeOK, NoLockLeaked, Holds
<1>3. ASSUME NEW c \in Cors, NEW k \in Keys
      PROVE  /\ Holds(c)' = Holds(c)
             /\ (Writer(c, k)' <=> Writer(c, k)) /\ (Copied(c, k)' <=> Copied(c, k))
             /\ (Writing(c, k)' <=> Writing(c, k)) /\ (Copying(c, k)' <=> Copying(c, k))
             /\ (Reading(c, k)' <=> Reading(c, k)) /\ (HasRead(c, k)' <=> HasRead(c, k))
             /\ (Fetched(c, k)' <=> Fetched(c, k)) /\ (Renewed(c, k)' <=> Renewed(c, k))
  BY <1>1 DEF Holds, Writer, Copied, Writing, Copying, Reading, HasRead, Fetched, Renewed
<1>4. ASSUME NEW c \in Cors PROVE Own(c)'
  <2>1. PhaseOf(c) /\ StampOf(c)
    BY OwnFacts
  <2>2. PhaseOf(c)'
    BY <1>1, <2>1 DEF PhaseOf
  <2>3. StampOf(c)'
    BY <1>1, <2>1 DEF StampOf
  <2> QED
    BY <2>2, <2>3 DEF Own
<1>5. ASSUME NEW k \in Keys
      PROVE  (Calm(k)' <=> Calm(k)) /\ (Good(k)' <=> Good(k)) /\ (k \in stray' <=> k \in stray)
  BY <1>1, <1>3 DEF Calm, Good
<1>6. ASSUME NEW k \in Keys
      PROVE  /\ Top(k)' = Top(k) /\ \A v, x : Covered(k, v, x)' <=> Covered(k, v, x)
             /\ \A h : HeaderFits(k, h)' <=> HeaderFits(k, h)
  <2>1. seq'[k] = seq[k] /\ hist'[k] = hist[k]
    BY <1>1
  <2> QED
    BY <2>1, SameRecord
<1>7. ASSUME NEW k \in Keys, k \notin stray PROVE DataOf(k)'
  BY <1>1, <1>5, <1>7 DEF Inv, DataOf, Contents
<1>8. ASSUME NEW c \in Cors, NEW k \in Keys, k \notin stray PROVE HeldOf(c, k)'
  <2>1. HeldOf(c, k)
    BY <1>8 DEF Inv
  <2> QED
    BY <1>1, <1>3, <2>1 DEF HeldOf, Contents
<1>9. ASSUME NEW k \in Keys, Good(k) PROVE OrderOf(k)'
  <2>1. OrderOf(k)
    BY <1>9 DEF Inv
  <2>2. PICK h : h = seq[k]
    OBVIOUS
  <2>3. HeaderFits(k, h)'
    BY <1>6, <2>1, <2>2 DEF OrderOf
  <2>4. HeaderFits(k, seq[k])'
    BY <1>1, <2>2, <2>3
  <2> QED
    BY <1>1, <1>5, <1>6, <2>1, <2>4 DEF OrderOf
<1>10. ASSUME NEW c \in Cors, NEW k \in Keys, Good(k) PROVE LeaseOf(c, k)'
  <2>1. LeaseOf(c, k)
    BY <1>10 DEF Inv
  <2>2. (Fetched(c, k) => HeaderFits(k, hdr[c][k][2]))'
    <3>1. PICK h : h = hdr[c][k][2]
      OBVIOUS
    <3>2. Fetched(c, k)' => HeaderFits(k, h)'
      BY <1>3, <1>6, <2>1, <3>1 DEF LeaseOf
    <3> QED
      BY <1>1, <3>1, <3>2
  <2>3. (Renewed(c, k) => WithinLease(c, k))'
    BY <1>1, <1>3, <1>6, <2>1 DEF LeaseOf, WithinLease
  <2>4. (HasRead(c, k) /\ k \notin over[c] => WholeCopy(c, k))'
    BY <1>1, <1>3, <2>1 DEF LeaseOf, WholeCopy, Contents
  <2>5. (Reading(c, k) /\ k \notin over[c] =>
          Calm(k) /\ item[c][k].wts = Top(k) /\ ver[c][k] = Contents(Len(hist[k])))'
    BY <1>1, <1>3, <1>5, <1>6, <2>1 DEF LeaseOf, Contents
  <2>6. (Writer(c, k) => /\ item[c][k] = Lease(Top(k), Top(k))
                         /\ 3 \in left[c][k] <=> seq[k].wts # Top(k))'
    BY <1>1, <1>3, <1>6, <2>1 DEF LeaseOf, Lease
  <2>7. (Writing(c, k) => seq[k].rts < cid[c])' /\ (Copying(c, k) => item[c][k] = seq[k])'
    BY <1>1, <1>3, <2>1 DEF LeaseOf
  <2> QED
    BY <2>2, <2>3, <2>4, <2>5, <2>6, <2>7 DEF LeaseOf
<1> QED
  BY <1>2, <1>4, <1>5, <1>7, <1>8, <1>9, <1>10 DEF Inv

LEMMA InvNext ==
  ASSUME Inv, Next \/ Exhausted PROVE Inv'
<1>1. CASE Exhausted
  BY <1>1, InvStutter DEF Exhausted
<1>2. CASE Next
  <2>1. PICK c \in Cors : Begin(c) \/ Step(c)
    BY <1>2 DEF Next
  <2>2. CASE Begin(c)
    BY <2>2, BeginKeeps
  <2>3. ASSUME NEW k \in Keys,
               Read(c, k) \/ Write(c, k) \/ ReadRecord(c, k) \/ ReadPart(c, k) \/ ReadDone(c, k)
        PROVE  Inv'
    BY <2>3, ReadKeeps, WriteKeeps, ReadRecordKeeps, ReadPartKeeps, ReadOverKeeps, ReturnKeeps
  <2>4. ASSUME NEW k \in Keys, RereadOK(c, k) PROVE Inv'
    BY <2>4, RereadOKKeeps
  <2>5. ASSUME NEW k \in Keys, RereadFailed(c, k) \/ LockFailed(c, k) \/ NotifyFailed(c, k)
        PROVE  Inv'
    <3>1. Fail(c) /\ pc[c] \in {"reread", "lock", "wait"}
      BY <2>5 DEF RereadFailed, LockFailed, NotifyFailed
    <3> QED
      BY <3>1, FailKeeps
  <2>6. ASSUME NEW k \in Keys, LockGranted(c, k) \/ LockParked(c, k) \/ NotifyGranted(c, k)
        PROVE  Inv'
    BY <2>6, LockGrantedKeeps, LockParkedKeeps, NotifyGrantedKeeps
  <2>7. ASSUME NEW k \in Keys, LockRetried(c, k) \/ NotifyLater(c, k) PROVE Inv'
    <3>1. UNCHANGED vars
      BY <2>7 DEF LockRetried, NotifyLater
    <3> QED
      BY <3>1, InvStutter
  <2>8. ASSUME NEW k \in Keys, ReleaseItem(c, k) \/ FetchHeader(c, k) \/ FetchPart(c, k)
        PROVE  Inv'
    BY <2>8, ReleaseItemKeeps, FetchHeaderKeeps, FetchPartKeeps
  <2>9. ASSUME NEW k \in Keys, RenewItem(c, k) \/ RenewRefused(c, k) PROVE Inv'
    BY <2>9, RenewItemKeeps, RenewRefusedKeeps
  <2>10. ASSUME NEW k \in Keys, UpdateItem(c, k) \/ UpdatePart(c, k) \/ UnlockItem(c, k)
         PROVE  Inv'
    BY <2>10, UpdateItemKeeps, UpdatePartKeeps, UnlockItemKeeps
  <2>11. CASE ReleaseDone(c) \/ Prepare(c) \/ FetchDone(c) \/ PrepareFailed(c) \/ Commit(c) \/ End(c)
    BY <2>11, ReleaseDoneKeeps, PrepareKeeps, FetchDoneKeeps, PrepareFailedKeeps, CommitKeeps, EndKeeps
  <2> QED
    BY <2>1, <2>2, <2>3, <2>4, <2>5, <2>6, <2>7, <2>8, <2>9, <2>10, <2>11 DEF Step
<1> QED
  BY <1>1, <1>2
-----------------------------------------------------------------------------
(* The theorems                                                            *)
-----------------------------------------------------------------------------
\* The inductive invariant holds.
THEOREM Invariance == Spec => []Inv
<1>1. Init => Inv
  BY InvInit
<1>2. Inv /\ [Next \/ Exhausted]_vars => Inv'
  BY InvNext, InvStutter
<1> QED
  BY <1>1, <1>2, PTL DEF Spec

\* Every variable keeps its type: the versions a copy is made of are numbers
\* whatever interleaving made it, and every version has its lease.
THEOREM TypeCorrect == Spec => []TypeOK
<1>1. Inv => TypeOK
  BY DEF Inv
<1> QED
  BY <1>1, Invariance, PTL

\* A lock word that is not zero is the stamp of a transaction that has still to
\* free it: no refused call, refused renewal or repeated release leaves a record
\* locked for ever, even when a release has zeroed the word of another.
THEOREM NoLockIsLeaked == Spec => []NoLockLeaked
<1>1. Inv => NoLockLeaked
  BY DEF Inv
<1> QED
  BY <1>1, Invariance, PTL

\* Until commit() repeats a release and zeroes a word of the record that somebody
\* else has taken meanwhile, the record has one holder, the word is its stamp,
\* and the contents handed out with the lock are whole and the newest, though
\* versions land and copies are made part by part: no update is lost.
THEOREM LocksExcludeEachOther == Spec => []LocksExclude
<1>1. Inv => LocksExclude
  <2> SUFFICES ASSUME Inv, NEW c \in Cors, NEW k \in Holds(c) \ stray
               PROVE  /\ lock[k] = ts[c]
                      /\ \A d \in Cors \ {c} : k \notin Holds(d)
                      /\ k \notin last[c] \cup open[c] =>
                           ver[c][k] = data[k] /\ data[k] = Contents(Len(hist[k]))
    BY DEF LocksExclude
  <2>1. k \in Keys /\ k \notin stray /\ k \in Holds(c)
    BY HoldsKeys DEF Inv
  <2>2. HeldOf(c, k) /\ DataOf(k)
    BY <2>1 DEF Inv
  <2>3. ASSUME k \notin last[c] \cup open[c]
        PROVE  ver[c][k] = data[k] /\ data[k] = Contents(Len(hist[k]))
    <3>1. Copied(c, k)
      BY <2>1, <2>3 DEF Copied
    <3>2. Calm(k)
      BY <2>1, <2>3, HeldCalm
    <3> QED
      BY <2>2, <3>1, <3>2 DEF HeldOf, DataOf
  <2> QED
    BY <2>1, <2>3, HoldFacts
<1> QED
  BY <1>1, Invariance, PTL

\* In the one-sided build the versions of a record are ordered by their commit
\* ids and lie behind every transaction that committed with a lease on an
\* earlier one, and a reader has the contents of the version of its lease unless
\* they were written while it copied them.  It holds for every record whose
\* words were spared by the repeated release and by a renewal that puts back a
\* header: these are the only ways to lose it.
THEOREM LeasesAreOrdered == Spec => []LeasesOrder
<1>1. Inv => LeasesOrder
  <2> SUFFICES ASSUME Inv, verbs, NEW k \in Keys \ (stray \cup raced)
               PROVE  /\ \A i \in 1 .. Len(hist[k]) - 1 :
                           hist[k][i] < hist[k][i + 1] /\ lease[k][i] < hist[k][i + 1]
                      /\ \A c \in Cors : k \in rset[c] \ (last[c] \cup over[c]) =>
                           \E i \in 1 .. Len(hist[k]) :
                             ReadVersion(c, k, i) /\ ver[c][k] = Contents(i)
    BY DEF LeasesOrder
  <2>1. Good(k) /\ OrderOf(k) /\ TypeOK
    BY DEF Inv, Good
  <2>2. PICK n \in Nat : n = Len(hist[k])
    BY <2>1, RecordTypes
  <2>3. ASSUME NEW i \in 1 .. n - 1
        PROVE  hist[k][i] < hist[k][i + 1] /\ lease[k][i] < hist[k][i + 1]
    <3>1. i \in 1 .. n /\ i + 1 \in 1 .. n /\ i < i + 1 /\ i < n
      BY <2>2
    <3>2. Covered(k, i, lease[k][i])
      BY <2>1, <2>2, <3>1 DEF OrderOf
    <3> QED
      BY <2>1, <2>2, <3>1, <3>2 DEF OrderOf, Covered
  <2>4. ASSUME NEW c \in Cors, k \in rset[c] \ (last[c] \cup over[c])
        PROVE  \E i \in 1 .. Len(hist[k]) : ReadVersion(c, k, i) /\ ver[c][k] = Contents(i)
    <3>1. HasRead(c, k) /\ k \notin over[c]
      BY <2>4 DEF HasRead
    <3>2. PICK v \in 1 .. Len(hist[k]) : item[c][k].wts = hist[k][v] /\ ver[c][k] = Contents(v)
      BY <2>1, <3>1 DEF Inv, LeaseOf, WholeCopy
    <3>3. DOMAIN hist[k] = 1 .. Len(hist[k])
      BY <2>1, RecordTypes
    <3> QED
      BY <3>2, <3>3 DEF ReadVersion
  <2> QED
    BY <2>2, <2>3, <2>4
<1> QED
  BY <1>1, Invariance, PTL
=============================================================================
