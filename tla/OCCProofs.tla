----------------------------- MODULE OCCProofs -----------------------------
(***************************************************************************)
(* Theorems about OCC for every set of coroutines and records, every       *)
(* placement and replication factor, and every build that releases with    *)
(* verbs only where it locks with verbs.                                   *)
(***************************************************************************)
EXTENDS OCC, TLAPS

\* "can only work with lock_w_rdma" (release_writes_w_rdma): the verbs go by
\* the lock word that the one-sided lock stage leaves in the buffer.
ReleaseWithLock == \A b \in Builds : "release" \in b => "lock" \in b

-----------------------------------------------------------------------------
(* The inductive invariant                                                 *)
-----------------------------------------------------------------------------
Types ==
  /\ sided \in Builds
  /\ lock \in [Keys -> Nat] /\ seq \in [Keys -> Nat] /\ data \in [Keys -> Nat \X Nat]
  /\ pc \in [Cors -> Stages \cup {"idle", "log", "ack"}]
  /\ rset \in [Cors -> SUBSET Keys] /\ wset \in [Cors -> SUBSET Keys]
  /\ item \in [Cors -> [Keys -> Copies]]
  /\ free \in [Cors -> SUBSET Keys]
  /\ pend \in [Cors -> SUBSET Keys]
  /\ at \in [Cors -> [Keys -> 0 .. 4]]
  /\ okay \in [Cors -> BOOLEAN]
  /\ mac \in [Cors -> SUBSET Macs] /\ wait \in [Cors -> SUBSET Macs]
  /\ backup \in [Macs -> [Keys -> Nat \X Nat]]

\* The batch of a stage, how far its operations get, mac_set_ and the wait for
\* the backups.
BatchOf(c) ==
  /\ rset[c] \cap wset[c] = {}
  /\ pend[c] \subseteq rset[c] \cup wset[c]
  /\ pc[c] = "idle" => rset[c] = {} /\ wset[c] = {}
  /\ pc[c] \in {"idle", "log", "ack"} => pend[c] = {}
  /\ pc[c] \in {"lock", "commit", "release"} => pend[c] \subseteq wset[c]
  /\ pc[c] = "validate" => pend[c] \subseteq rset[c]
  /\ pc[c] \in {"lock", "validate", "log", "ack"} => mac[c] = { Home[k] : k \in wset[c] }
  /\ wait[c] # {} => pc[c] \in {"log", "ack"}
  /\ \A k \in Keys :
       /\ at[c][k] # 0 => k \in pend[c]
       /\ pc[c] = "lock" => at[c][k] <= 1
       /\ pc[c] = "read" => at[c][k] <= 3
       /\ pc[c] = "commit" /\ "commit" \in sided => at[c][k] <= 1
       /\ pc[c] = "release" => at[c][k] = 0

BatchOK == \A c \in Cors : BatchOf(c)

\* The transaction has the lock of the record.
MustHold(c, k) ==
  /\ k \in wset[c]
  /\ \/ /\ pc[c] = "lock"
        /\ IF k \in pend[c] THEN at[c][k] = 1
                            ELSE okay[c] \/ ("lock" \in sided /\ k \in free[c])
     \/ pc[c] \in {"validate", "log", "ack"}
     \/ pc[c] = "commit" /\ k \in pend[c]
     \/ pc[c] = "release" /\ k \in pend[c] /\ "release" \in sided

\* The transaction can have the lock of the record; if it has, the release
\* finds it in the write set or, with verbs, by the buffered lock word.
MayHold(c, k) ==
  /\ k \in wset[c]
  /\ \/ pc[c] = "lock" /\ (k \in pend[c] => at[c][k] = 1) /\ ("release" \in sided => k \in free[c])
     \/ pc[c] = "validate" /\ ("release" \in sided => k \in free[c])
     \/ pc[c] \in {"log", "ack"}
     \/ pc[c] \in {"commit", "release"} /\ k \in pend[c]

HoldsOK ==
  /\ \A c \in Cors, k \in Keys : MustHold(c, k) => lock[k] = Word(c)
  /\ \A c \in Cors, k \in Keys : lock[k] = Word(c) => MayHold(c, k)
  /\ \A k \in Keys : lock[k] # 0 => \E c \in Cors : lock[k] = Word(c)

\* A write item that has been locked and checked and not yet been written.
Checked(c, k) ==
  /\ k \in wset[c]
  /\ \/ pc[c] = "lock" /\ k \notin pend[c] /\ okay[c]
     \/ pc[c] \in {"validate", "log", "ack"}
     \/ pc[c] = "commit" /\ k \in pend[c] /\ at[c][k] = 0

CheckedOf(c, k) ==
  Checked(c, k) => seq[k] = item[c][k].seq

CheckedOK == \A c \in Cors, k \in Keys : CheckedOf(c, k)

\* The record is being written.
Writing(c, k) == pc[c] = "commit" /\ k \in pend[c] /\ at[c][k] > 0

\* A record is a version, except while it is being written.
RecordFree(k) ==
  ~torn /\ (\A c \in Cors : ~Writing(c, k)) => data[k][1] = data[k][2] /\ seq[k] = 2 * data[k][1]

\* How far inplace_write_op has got; the parts of a WRITE land in any order.
InPlace(i, q, x, n) ==
  /\ q = IF n = 4 THEN i.seq + 2 ELSE CONFLICT_WRITE_FLAG
  /\ x[1] = IF n >= 2 THEN i.data[1] + 1 ELSE i.data[1]
  /\ x[2] = IF n >= 3 THEN i.data[2] + 1 ELSE i.data[2]

Landing(i, q, x) ==
  /\ q \in {i.seq, i.seq + 2}
  /\ x[1] \in {i.data[1], i.data[1] + 1}
  /\ x[2] \in {i.data[2], i.data[2] + 1}

WrittenOf(c, k) ==
  Writing(c, k) =>
    /\ "commit" \notin sided =>
         /\ at[c][k] >= 2 => data[k][1] = item[c][k].data[1] + 1
         /\ at[c][k] >= 3 => data[k][2] = item[c][k].data[2] + 1
    /\ ~torn =>
         /\ Whole(item[c][k])
         /\ IF "commit" \in sided THEN Landing(item[c][k], seq[k], data[k])
            ELSE InPlace(item[c][k], seq[k], data[k], at[c][k])

RecordOK ==
  /\ \A k \in Keys : RecordFree(k)
  /\ \A c \in Cors, k \in Keys : WrittenOf(c, k)

\* Records are read and written by RPC only.
Rpc == "read" \notin sided /\ "commit" \notin sided

CopyOf(c, k) ==
  k \in Loaded(c) =>
    /\ Rpc => Whole(item[c][k])
    /\ ~torn /\ pc[c] \in {"log", "ack", "commit"} => Whole(item[c][k])

CopiesOK == \A c \in Cors, k \in Keys : CopyOf(c, k)

TornOK == torn => ~Rpc

\* local_get_op under way: as long as the sequence word has not changed, the
\* halves copied so far are those of the record, and the word never comes back.
Reading(c, k) ==
  /\ Rpc /\ pc[c] = "read" /\ k \in pend[c] /\ at[c][k] > 0
  /\ item[c][k].seq # CONFLICT_WRITE_FLAG

ReadingOf(c, k) ==
  Reading(c, k) =>
    /\ seq[k] # CONFLICT_WRITE_FLAG => item[c][k].seq <= seq[k]
    /\ \A d \in Cors : Writing(d, k) /\ seq[k] = CONFLICT_WRITE_FLAG =>
         item[c][k].seq <= item[d][k].seq
    /\ seq[k] = item[c][k].seq =>
         /\ at[c][k] >= 2 => item[c][k].data[1] = data[k][1]
         /\ at[c][k] = 3 => item[c][k].data[2] = data[k][2]

ReadingOK == \A c \in Cors, k \in Keys : ReadingOf(c, k)

\* The backup has the new contents of the record before its primary.
Applied(c, k, m) ==
  /\ k \in wset[c]
  /\ \/ pc[c] = "ack" /\ m \notin wait[c]
     \/ pc[c] = "commit" /\ k \in pend[c]

BackupOf(k, m) ==
  /\ \A c \in Cors : Applied(c, k, m) =>
       backup[m][k] = << item[c][k].data[1] + 1, item[c][k].data[2] + 1 >>
  /\ (\A c \in Cors : ~Applied(c, k, m)) => backup[m][k] = data[k]

BackupOK == \A k \in Keys, m \in Macs : m \in mapping_(Home[k]) => BackupOf(k, m)

Inv == Types /\ BatchOK /\ HoldsOK /\ CheckedOK /\ RecordOK /\ CopiesOK
       /\ TornOK /\ ReadingOK /\ BackupOK
-----------------------------------------------------------------------------
(* Types                                                                   *)
-----------------------------------------------------------------------------
LEMMA WordFacts ==
  /\ \A c \in Cors : Word(c) \in Nat /\ Word(c) # 0
  /\ \A c, d \in Cors : Word(c) = Word(d) => c = d
<1> DEFINE Tids == 0 .. 63
           Cids == 0 .. 1022
           W(n, s, x) == n * 65536 + s * 1024 + x + 1
<1>1. \A c \in Cors : Node[c] \in Nat /\ Tid[c] \in Tids /\ Cid[c] \in Cids
  BY OCCAssumption, ReplicationAssumption DEF Macs
<1>2. \A n \in Nat, s \in Tids, x \in Cids : W(n, s, x) \in Nat /\ W(n, s, x) # 0
  OBVIOUS
<1>3. \A n, m \in Nat, s, t \in Tids, x, y \in Cids :
        W(n, s, x) = W(m, t, y) => n = m /\ s = t /\ x = y
  OBVIOUS
<1>4. \A c \in Cors : Word(c) = W(Node[c], Tid[c], Cid[c])
  BY DEF Word
<1> HIDE DEF Tids, Cids, W
<1>5. \A c \in Cors : Word(c) \in Nat /\ Word(c) # 0
  BY <1>1, <1>2, <1>4, Zenon
<1>6. \A c, d \in Cors : Word(c) = Word(d) =>
        Node[c] = Node[d] /\ Tid[c] = Tid[d] /\ Cid[c] = Cid[d]
  <2> TAKE c, d \in Cors
  <2> HAVE Word(c) = Word(d)
  <2>1. W(Node[c], Tid[c], Cid[c]) = W(Node[d], Tid[d], Cid[d])
    BY <1>4
  <2> QED
    BY <1>1, <1>3, <2>1
<1>7. \A c, d \in Cors : c # d => ~(Node[c] = Node[d] /\ Tid[c] = Tid[d] /\ Cid[c] = Cid[d])
  <2>1. \A c, d \in Cors : c # d => << Node[c], Tid[c], Cid[c] >> # << Node[d], Tid[d], Cid[d] >>
    BY OCCAssumption, SMT
  <2> QED
    BY <2>1, Zenon
<1> QED
  BY <1>5, <1>6, <1>7, Zenon

\* What an assignment to one half of the contents does.
LEMMA HalfSet ==
  ASSUME NEW p \in Nat \X Nat, NEW n \in 1 .. 2, NEW x \in Nat
  PROVE  LET q == [p EXCEPT ![n] = x] IN
         /\ q \in Nat \X Nat
         /\ q = << IF n = 1 THEN x ELSE p[1], IF n = 2 THEN x ELSE p[2] >>
OBVIOUS

LEMMA Machines ==
  /\ \A i \in Macs : mapping_(i) \subseteq Macs
  /\ \A S \in SUBSET Macs, i \in Macs :
       /\ LogMachines(S, i) \subseteq Macs
       /\ \A j \in S : mapping_(j) \subseteq LogMachines(S, i)
<1>1. \A i \in Macs : mapping_(i) \subseteq Macs
  BY ReplicationAssumption DEF Macs, mapping_, rep_factor_
<1> QED
  BY <1>1 DEF LogMachines, add_backup

-----------------------------------------------------------------------------
(* How a batch moves on                                                    *)
-----------------------------------------------------------------------------
\* The operation on k goes on, is over or begins anew; a failed one may take
\* items with it that no operation has touched.
Moved(c, k) ==
  /\ pend' \in [Cors -> SUBSET Keys] /\ at' \in [Cors -> [Keys -> 0 .. 4]]
  /\ \A d \in Cors : d # c => pend'[d] = pend[d] /\ at'[d] = at[d]
  /\ \A j \in Keys : j # k => at'[c][j] = at[c][j]
  /\ pend'[c] \subseteq pend[c]
  /\ \A j \in pend[c] : j # k /\ j \notin pend'[c] => at[c][j] = 0 /\ ~OneSided(pc[c])
  /\ at'[c][k] # 0 => k \in pend'[c]

LEMMA StepMoves ==
  ASSUME Types, NEW c \in Cors, NEW k \in Keys, NEW s, NEW n \in 0 .. 3, Serving(c, k, s, n),
         Step(c, k)
  PROVE  Moved(c, k) /\ at'[c][k] = n + 1 /\ pend' = pend
<1>1. at[c][k] = n /\ k \in pend[c] /\ pend' = pend /\ at' = [at EXCEPT ![c][k] = @ + 1]
  BY DEF Serving, Step
<1>2. at' \in [Cors -> [Keys -> 0 .. 4]] /\ at'[c][k] = n + 1
  BY <1>1 DEF Types
<1> QED
  BY <1>1, <1>2 DEF Types, Moved

LEMMA ServedMoves ==
  ASSUME Types, NEW c \in Cors, NEW k \in Keys, Served(c, k)
  PROVE  Moved(c, k) /\ at'[c][k] = 0 /\ pend'[c] = pend[c] \ {k}
BY DEF Types, Moved, Served

LEMMA FailedMoves ==
  ASSUME Types, NEW c \in Cors, NEW k \in Keys, NEW s, NEW n, Serving(c, k, s, n), Failed(c, k)
  PROVE  /\ Moved(c, k) /\ at'[c][k] = 0 /\ k \notin pend'[c]
         /\ okay' \in [Cors -> BOOLEAN] /\ ~okay'[c]
         /\ \A d \in Cors : d # c => okay'[d] = okay[d]
<1>1. okay' \in [Cors -> BOOLEAN] /\ ~okay'[c] /\ \A d \in Cors : d # c => okay'[d] = okay[d]
  BY DEF Types, Failed
<1>2. /\ at' \in [Cors -> [Keys -> 0 .. 4]] /\ at'[c][k] = 0
      /\ \A d \in Cors : d # c => at'[d] = at[d]
      /\ \A j \in Keys : j # k => at'[c][j] = at[c][j]
  BY DEF Types, Failed
<1>3. /\ pend' \in [Cors -> SUBSET Keys] /\ \A d \in Cors : d # c => pend'[d] = pend[d]
      /\ pend'[c] = IF OneSided(pc[c]) THEN pend[c] \ {k}
                    ELSE { j \in pend[c] : Home[j] # Home[k] }
  BY DEF Types, Failed
<1>4. OneSided(pc[c]) \/ \A j \in pend[c] \ {k} : Home[j] = Home[k] => at[c][j] = 0
  BY DEF Serving
<1>5. k \notin pend'[c] /\ pend'[c] \subseteq pend[c]
  BY <1>3
<1>6. \A j \in pend[c] : j # k /\ j \notin pend'[c] => at[c][j] = 0 /\ ~OneSided(pc[c])
  BY <1>3, <1>4
<1>7. Moved(c, k)
  BY <1>2, <1>3, <1>5, <1>6, Zenon DEF Moved
<1> QED
  BY <1>1, <1>2, <1>5, <1>7, Zenon

\* A batch that moves on stays in its stage.
LEMMA MovedBatch ==
  ASSUME Types, BatchOK, NEW c \in Cors, NEW k \in Keys, Moved(c, k),
         UNCHANGED << sided, pc, rset, wset, mac, wait >>,
         at'[c][k] > 1 => \/ pc[c] = "read" /\ at'[c][k] <= 3
                          \/ pc[c] = "commit" /\ "commit" \notin sided,
         pc[c] = "release" => at'[c][k] = 0
  PROVE  BatchOK'
<1>1. ASSUME NEW d \in Cors, d # c PROVE BatchOf(d)'
  BY <1>1 DEF Moved, BatchOK, BatchOf
<1>2. BatchOf(c)'
  <2>1. BatchOf(c) /\ c \in Cors /\ at[c] \in [Keys -> 0 .. 4]
    BY DEF BatchOK, Types
  <2>2. \A j \in Keys : at'[c][j] \in 0 .. 4
    BY DEF Moved
  <2>3. \A j \in Keys : at'[c][j] # 0 => j \in pend'[c]
    BY <2>1 DEF Moved, BatchOf
  <2>4. \A j \in Keys :
          /\ pc[c] = "lock" => at'[c][j] <= 1
          /\ pc[c] = "read" => at'[c][j] <= 3
          /\ pc[c] = "commit" /\ "commit" \in sided => at'[c][j] <= 1
          /\ pc[c] = "release" => at'[c][j] = 0
    BY <2>1, <2>2 DEF Moved, BatchOf
  <2> QED
    BY <2>1, <2>3, <2>4 DEF Moved, BatchOf
<1> QED
  BY <1>1, <1>2 DEF BatchOK
-----------------------------------------------------------------------------
(* The read stage                                                          *)
-----------------------------------------------------------------------------
\* A record that nobody is in the middle of writing is a version.
LEMMA RecordWhole ==
  ASSUME Inv, ~torn, NEW k \in Keys,
         (seq[k] # CONFLICT_WRITE_FLAG /\ "commit" \notin sided) \/ lock[k] = 0
  PROVE  data[k][1] = data[k][2] /\ seq[k] = 2 * data[k][1]
<1>1. CASE \A c \in Cors : ~Writing(c, k)
  BY <1>1 DEF Inv, RecordOK, RecordFree
<1>2. ASSUME NEW c \in Cors, Writing(c, k)
      PROVE  data[k][1] = data[k][2] /\ seq[k] = 2 * data[k][1]
  <2>1. lock[k] = Word(c)
    BY <1>2 DEF Inv, HoldsOK, MustHold, Writing, BatchOK, BatchOf
  <2>2. seq[k] # CONFLICT_WRITE_FLAG /\ "commit" \notin sided
    BY <2>1, WordFacts
  <2>3. item[c][k].data \in Nat \X Nat /\ item[c][k].seq \in Nat
    BY DEF Inv, Types, Copies
  <2>4. Whole(item[c][k]) /\ InPlace(item[c][k], seq[k], data[k], at[c][k])
    BY <1>2, <2>2 DEF Inv, RecordOK, WrittenOf
  <2>5. /\ seq[k] = item[c][k].seq + 2
        /\ data[k][1] = item[c][k].data[1] + 1 /\ data[k][2] = item[c][k].data[2] + 1
    BY <2>2, <2>4 DEF InPlace
  <2> QED
    BY <2>3, <2>4, <2>5 DEF Whole
<1> QED
  BY <1>1, <1>2

\* What the read stage leaves alone, and what it has to show of its copy.
LEMMA ReadStage ==
  ASSUME Inv, NEW c \in Cors, NEW k \in Keys, Moved(c, k), pc[c] = "read",
         UNCHANGED << sided, lock, seq, data, pc, rset, wset, okay, mac, torn, backup, wait >>,
         pend[c] \ {k} \subseteq pend'[c], at'[c][k] <= 3,
         free' \in [Cors -> SUBSET Keys], item' \in [Cors -> [Keys -> Copies]],
         \A d \in Cors : d # c => free'[d] = free[d] /\ item'[d] = item[d],
         \A j \in Keys : j # k => item'[c][j] = item[c][j],
         k \notin pend'[c] /\ Rpc => Whole(item'[c][k]),
         ReadingOf(c, k)'
  PROVE  Inv'
<1>1. Types'
  BY DEF Inv, Types, Moved
<1>2. BatchOK'
  BY MovedBatch DEF Inv
<1>3. /\ \A d \in Cors, j \in Keys :
           /\ Writing(d, j)' = Writing(d, j) /\ (Writing(d, j) => d # c)
           /\ Checked(d, j)' = Checked(d, j) /\ (Checked(d, j) => d # c)
           /\ MustHold(d, j)' = MustHold(d, j) /\ MayHold(d, j)' = MayHold(d, j)
      /\ \A d \in Cors, j \in Keys, m \in Macs :
           (Applied(d, j, m)' <=> Applied(d, j, m)) /\ (Applied(d, j, m) => d # c)
  BY DEF Moved, Writing, Checked, MustHold, MayHold, Applied
<1>4. HoldsOK'
  BY <1>3 DEF Inv, HoldsOK, Word
<1>5. CheckedOK'
  BY <1>3 DEF Inv, CheckedOK, CheckedOf
<1>6. RecordOK'
  <2>1. ASSUME NEW j \in Keys PROVE RecordFree(j)'
    BY <1>3 DEF Inv, RecordOK, RecordFree
  <2>2. ASSUME NEW d \in Cors, NEW j \in Keys PROVE WrittenOf(d, j)'
    BY <1>3 DEF Inv, RecordOK, WrittenOf, Moved
  <2> QED
    BY <2>1, <2>2 DEF RecordOK
<1>7. CopiesOK'
  <2>1. ASSUME NEW d \in Cors, NEW j \in Keys, d # c \/ j # k PROVE CopyOf(d, j)'
    <3>1. CopyOf(d, j) /\ (j \in Loaded(d)' => j \in Loaded(d)) /\ item'[d][j] = item[d][j]
      BY <2>1 DEF Inv, CopiesOK, Loaded, Moved
    <3> QED
      BY <2>1, <3>1 DEF CopyOf, Rpc
  <2>2. CopyOf(c, k)'
    BY DEF CopyOf, Rpc, Loaded
  <2> QED
    BY <2>1, <2>2 DEF CopiesOK
<1>8. ReadingOK'
  <2>1. ASSUME NEW d \in Cors, NEW j \in Keys, d # c \/ j # k PROVE ReadingOf(d, j)'
    <3>1. ReadingOf(d, j) /\ Reading(d, j)' = Reading(d, j)
          /\ item'[d][j] = item[d][j] /\ at'[d][j] = at[d][j]
      BY <2>1 DEF Inv, ReadingOK, Reading, Rpc, Moved
    <3> QED
      BY <1>3, <3>1 DEF ReadingOf
  <2> QED
    BY <2>1 DEF ReadingOK
<1>9. BackupOK'
  BY <1>3 DEF Inv, BackupOK, BackupOf
<1>10. TornOK'
  BY DEF Inv, TornOK, Rpc
<1> QED
  BY <1>1, <1>2, <1>4, <1>5, <1>6, <1>7, <1>8, <1>9, <1>10 DEF Inv

\* The buffered lock word of one write item.
LEMMA BufferedMoves ==
  ASSUME Types, NEW c \in Cors, NEW k \in Keys, SetBufferedLock(c, k)
  PROVE  /\ free' \in [Cors -> SUBSET Keys]
         /\ \A d \in Cors : d # c => free'[d] = free[d]
<1>1. PICK f \in BufferedLock(c, k) : free' = [free EXCEPT ![c] = f]
  BY DEF SetBufferedLock
<1>2. f \subseteq Keys
  BY DEF BufferedLock, Types
<1> QED
  BY <1>1, <1>2 DEF Types

\* A READ may hit the middle of a write: nothing is known of its copy.
LEMMA ReadRecordStep ==
  ASSUME Inv, NEW c \in Cors, NEW k \in Keys, ReadRecord(c, k)
  PROVE  Inv'
<1>0. /\ Serving(c, k, "read", 0) /\ "read" \in sided /\ pc[c] = "read" /\ SetBufferedLock(c, k)
      /\ Step(c, k)
      /\ item' = [item EXCEPT ![c][k] = [seq |-> seq[k], data |-> data[k]]]
      /\ UNCHANGED << sided, lock, seq, data, pc, rset, wset, okay, mac, torn, backup, wait >>
  BY DEF ReadRecord, Serving, OneSided, record, sets, ghost, replica
<1>1. /\ free' \in [Cors -> SUBSET Keys]
      /\ \A d \in Cors : d # c => free'[d] = free[d]
  BY <1>0, BufferedMoves DEF Inv
<1>2. Moved(c, k) /\ at'[c][k] = 1 /\ pend' = pend
  BY <1>0, StepMoves DEF Inv
<1>3. /\ item' \in [Cors -> [Keys -> Copies]]
      /\ \A d \in Cors : d # c => item'[d] = item[d]
      /\ \A j \in Keys : j # k => item'[c][j] = item[c][j]
  BY <1>0 DEF Inv, Types, Copies
<1>4. ReadingOf(c, k)' /\ ~Rpc
  BY <1>0 DEF ReadingOf, Reading, Rpc
<1> QED
  BY <1>0, <1>1, <1>2, <1>3, <1>4, ReadStage

LEMMA ReadPartStep ==
  ASSUME Inv, NEW c \in Cors, NEW k \in Keys, ReadPart(c, k)
  PROVE  Inv'
<1>0. /\ Serving(c, k, "read", 1) /\ "read" \in sided /\ pc[c] = "read" /\ k \in pend[c]
      /\ at[c][k] = 1
      /\ UNCHANGED << sided, lock, seq, data, pc, rset, wset, pend, at, okay, mac, torn, backup, wait >>
  BY DEF ReadPart, Serving, OneSided, record, sets, ghost, replica
<1>1. /\ free' \in [Cors -> SUBSET Keys]
      /\ \A d \in Cors : d # c => free'[d] = free[d]
  <2>1. CASE SetBufferedLock(c, k)
    BY <2>1, BufferedMoves DEF Inv
  <2>2. CASE free' = free
    BY <2>2 DEF Inv, Types
  <2> QED
    BY <2>1, <2>2 DEF ReadPart
<1>2. Moved(c, k) /\ at'[c][k] = 1
  BY <1>0 DEF Inv, Types, Moved
<1>3. /\ item' \in [Cors -> [Keys -> Copies]]
      /\ \A d \in Cors : d # c => item'[d] = item[d]
      /\ \A j \in Keys : j # k => item'[c][j] = item[c][j]
  <2>1. item[c][k] \in Copies /\ seq[k] \in Nat /\ data[k] \in Nat \X Nat
        /\ item \in [Cors -> [Keys -> Copies]]
    BY DEF Inv, Types
  <2>2. CASE item' = [item EXCEPT ![c][k].seq = seq[k]]
    <3>1. [item[c][k] EXCEPT !.seq = seq[k]] \in Copies
      BY <2>1 DEF Copies
    <3>2. item' = [item EXCEPT ![c] = [item[c] EXCEPT ![k] = [item[c][k] EXCEPT !.seq = seq[k]]]]
      BY <2>2
    <3> QED
      BY <2>1, <3>1, <3>2
  <2>3. ASSUME NEW n \in 1 .. 2, item' = [item EXCEPT ![c][k].data[n] = data[k][n]]
        PROVE  /\ item' \in [Cors -> [Keys -> Copies]]
               /\ \A d \in Cors : d # c => item'[d] = item[d]
               /\ \A j \in Keys : j # k => item'[c][j] = item[c][j]
    <3>1. [item[c][k].data EXCEPT ![n] = data[k][n]] \in Nat \X Nat
      BY <2>1, HalfSet DEF Copies
    <3> QED
      BY <2>1, <2>3, <3>1 DEF Copies
  <2> QED
    BY <2>2, <2>3 DEF ReadPart
<1>4. ReadingOf(c, k)' /\ ~Rpc
  BY <1>0 DEF ReadingOf, Reading, Rpc
<1> QED
  BY <1>0, <1>1, <1>2, <1>3, <1>4, ReadStage

LEMMA ReadDoneStep ==
  ASSUME Inv, NEW c \in Cors, NEW k \in Keys, ReadDone(c, k)
  PROVE  Inv'
<1>0. /\ "read" \in sided /\ pc[c] = "read" /\ Served(c, k)
      /\ UNCHANGED << sided, lock, seq, data, pc, rset, wset, item, free, okay, mac, torn, backup, wait >>
  BY DEF ReadDone, Serving, OneSided, record, sets, buffers, ghost, replica
<1>1. Moved(c, k) /\ at'[c][k] = 0 /\ pend'[c] = pend[c] \ {k}
  BY <1>0, ServedMoves DEF Inv
<1>2. free' \in [Cors -> SUBSET Keys] /\ item' \in [Cors -> [Keys -> Copies]]
  BY <1>0 DEF Inv, Types
<1>3. ReadingOf(c, k)' /\ ~Rpc
  BY <1>0 DEF ReadingOf, Reading, Rpc
<1> QED
  BY <1>0, <1>1, <1>2, <1>3, ReadStage

LEMMA GetSeqStep ==
  ASSUME Inv, NEW c \in Cors, NEW k \in Keys, GetSeq(c, k)
  PROVE  Inv'
<1>0. /\ Serving(c, k, "read", 0) /\ pc[c] = "read" /\ k \in pend[c] /\ Step(c, k)
      /\ item' = [item EXCEPT ![c][k].seq = seq[k]]
      /\ UNCHANGED << sided, lock, seq, data, pc, rset, wset, free, okay, mac, torn, backup, wait >>
  BY DEF GetSeq, Serving, record, sets, ghost, replica
<1>1. Moved(c, k) /\ at'[c][k] = 1 /\ pend' = pend
  BY <1>0, StepMoves DEF Inv
<1>2. /\ item' \in [Cors -> [Keys -> Copies]]
      /\ \A d \in Cors : d # c => item'[d] = item[d]
      /\ \A j \in Keys : j # k => item'[c][j] = item[c][j]
      /\ item'[c][k].seq = seq[k]
  <2>1. item[c][k] \in Copies /\ seq[k] \in Nat
    BY DEF Inv, Types
  <2>2. [item[c][k] EXCEPT !.seq = seq[k]] \in Copies
    BY <2>1 DEF Copies
  <2>3. item' = [item EXCEPT ![c] = [item[c] EXCEPT ![k] = [item[c][k] EXCEPT !.seq = seq[k]]]]
    BY <1>0
  <2>4. item \in [Cors -> [Keys -> Copies]]
    BY DEF Inv, Types
  <2>5. item'[c][k] = [item[c][k] EXCEPT !.seq = seq[k]]
    BY <2>3, <2>4
  <2>6. [item[c][k] EXCEPT !.seq = seq[k]].seq = seq[k]
    BY <2>1 DEF Copies
  <2> QED
    BY <2>2, <2>3, <2>4, <2>5, <2>6
<1>3. ReadingOf(c, k)'
  <2>1. seq[k] \in Nat
    BY DEF Inv, Types
  <2> QED
    BY <1>0, <1>1, <1>2, <2>1 DEF ReadingOf, Reading
<1>4. at'[c][k] <= 3 /\ free' \in [Cors -> SUBSET Keys]
  BY <1>0, <1>1 DEF Inv, Types
<1> QED
  BY <1>0, <1>1, <1>2, <1>3, <1>4, ReadStage

LEMMA GetHalfStep ==
  ASSUME Inv, NEW c \in Cors, NEW k \in Keys, GetHalf(c, k)
  PROVE  Inv'
<1>1. PICK n \in 1 .. 2 : /\ Serving(c, k, "read", n)
                          /\ item' = [item EXCEPT ![c][k].data[n] = data[k][n]]
  BY DEF GetHalf
<1>0. /\ pc[c] = "read" /\ k \in pend[c] /\ at[c][k] = n /\ Step(c, k)
      /\ UNCHANGED << sided, lock, seq, data, pc, rset, wset, free, okay, mac, torn, backup, wait >>
  BY <1>1 DEF GetHalf, Serving, record, sets, ghost, replica
<1>2. Moved(c, k) /\ at'[c][k] = n + 1 /\ pend' = pend
  BY <1>0, <1>1, StepMoves DEF Inv
<1>3. item[c][k] \in Copies /\ data[k] \in Nat \X Nat /\ data[k][n] \in Nat
  BY DEF Inv, Types
<1>4. [item[c][k].data EXCEPT ![n] = data[k][n]] \in Nat \X Nat
  BY <1>3, HalfSet DEF Copies
<1>5. /\ item' \in [Cors -> [Keys -> Copies]]
      /\ \A d \in Cors : d # c => item'[d] = item[d]
      /\ \A j \in Keys : j # k => item'[c][j] = item[c][j]
      /\ item'[c][k].seq = item[c][k].seq
      /\ item'[c][k].data = [item[c][k].data EXCEPT ![n] = data[k][n]]
  BY <1>1, <1>3, <1>4 DEF Inv, Types, Copies
<1>6. /\ item'[c][k].data[n] = data[k][n]
      /\ n = 2 => item'[c][k].data[1] = item[c][k].data[1]
  BY <1>3, <1>5, HalfSet DEF Copies
<1>7. ReadingOf(c, k)'
  <2>1. ReadingOf(c, k) /\ (Reading(c, k)' => Reading(c, k))
    BY <1>0, <1>5 DEF Inv, ReadingOK, Reading, Rpc, OneSided
  <2>2. \A d \in Cors : Writing(d, k)' = Writing(d, k) /\ (Writing(d, k) => d # c)
    BY <1>0, <1>2 DEF Writing, Moved
  <2> QED
    BY <1>0, <1>2, <1>5, <1>6, <2>1, <2>2 DEF ReadingOf
<1>8. at'[c][k] <= 3 /\ free' \in [Cors -> SUBSET Keys]
  BY <1>0, <1>2 DEF Inv, Types
<1> QED
  BY <1>0, <1>2, <1>5, <1>7, <1>8, ReadStage

\* The sequence word has not changed: neither have the contents.
LEMMA GetRecheckStep ==
  ASSUME Inv, NEW c \in Cors, NEW k \in Keys, GetRecheck(c, k)
  PROVE  Inv'
<1>0. /\ Serving(c, k, "read", 3) /\ pc[c] = "read" /\ k \in pend[c] /\ at[c][k] = 3
      /\ UNCHANGED << sided, lock, seq, data, pc, rset, wset, item, okay, mac, torn, backup, wait >>
  BY DEF GetRecheck, Serving, record, sets, ghost, replica
<1>1. item' \in [Cors -> [Keys -> Copies]]
  BY <1>0 DEF Inv, Types
<1>2. CASE seq[k] # item[c][k].seq \/ item[c][k].seq = CONFLICT_WRITE_FLAG
  <2>1. at' = [at EXCEPT ![c][k] = 0] /\ pend' = pend /\ free' = free
    BY <1>2 DEF GetRecheck
  <2>2. Moved(c, k) /\ at'[c][k] = 0
    BY <2>1 DEF Inv, Types, Moved
  <2>3. ReadingOf(c, k)'
    BY <2>2 DEF ReadingOf, Reading
  <2>4. free' \in [Cors -> SUBSET Keys]
    BY <2>1 DEF Inv, Types
  <2> QED
    BY <1>0, <1>1, <2>1, <2>2, <2>3, <2>4, ReadStage
<1>3. CASE seq[k] = item[c][k].seq /\ item[c][k].seq # CONFLICT_WRITE_FLAG
  <2>1. /\ Served(c, k) /\ free' \in [Cors -> SUBSET Keys]
        /\ \A d \in Cors : d # c => free'[d] = free[d]
    <3>1. SetBufferedLock(c, k) /\ Served(c, k)
      BY <1>3 DEF GetRecheck
    <3> QED
      BY <3>1, BufferedMoves DEF Inv
  <2>2. Moved(c, k) /\ at'[c][k] = 0 /\ pend'[c] = pend[c] \ {k}
    BY <2>1, ServedMoves DEF Inv
  <2>3. ReadingOf(c, k)'
    BY <2>2 DEF ReadingOf, Reading
  <2>4. Rpc => item[c][k].data[1] = data[k][1] /\ item[c][k].data[2] = data[k][2]
    BY <1>0, <1>3 DEF Inv, ReadingOK, ReadingOf, Reading
  <2>5. Rpc => Whole(item'[c][k])
    <3>1. Rpc => ~torn /\ "commit" \notin sided
      BY DEF Inv, TornOK, Rpc
    <3> QED
      BY <1>0, <1>3, <2>4, <3>1, RecordWhole DEF Whole
  <2> QED
    BY <1>0, <1>1, <2>1, <2>2, <2>3, <2>5, ReadStage
<1> QED
  BY <1>2, <1>3
-----------------------------------------------------------------------------
(* Steps that leave the contents of the records alone                      *)
-----------------------------------------------------------------------------
\* A step of c is no step of anybody else.
OthersSame(c) ==
  \A d \in Cors : d # c =>
    /\ pc'[d] = pc[d] /\ rset'[d] = rset[d] /\ wset'[d] = wset[d] /\ item'[d] = item[d]
    /\ free'[d] = free[d] /\ pend'[d] = pend[d] /\ at'[d] = at[d] /\ okay'[d] = okay[d]
    /\ mac'[d] = mac[d] /\ wait'[d] = wait[d]

LEMMA OthersBatch ==
  ASSUME Inv, NEW c \in Cors, OthersSame(c), sided' = sided, BatchOf(c)'
  PROVE  BatchOK'
<1>1. ASSUME NEW d \in Cors, d # c PROVE BatchOf(d)'
  BY <1>1 DEF Inv, OthersSame, BatchOK, BatchOf
<1> QED
  BY <1>1 DEF BatchOK

LEMMA OthersHold ==
  ASSUME Inv, NEW c \in Cors, OthersSame(c), sided' = sided, lock' = lock,
         \A j \in Keys : MustHold(c, j)' => lock[j] = Word(c),
         \A j \in Keys : lock[j] = Word(c) => MayHold(c, j)'
  PROVE  HoldsOK'
<1>1. \A d \in Cors, j \in Keys : d # c =>
        MustHold(d, j)' = MustHold(d, j) /\ MayHold(d, j)' = MayHold(d, j)
  BY DEF OthersSame, MustHold, MayHold
<1>2. \A d \in Cors : Word(d)' = Word(d)
  BY DEF Word
<1> QED
  BY <1>1, <1>2 DEF Inv, HoldsOK

\* Neither the record nor the copy of it is being moved.
Still(c) ==
  \A j \in Keys : /\ ~Writing(c, j) /\ ~Writing(c, j)' /\ ~Reading(c, j)'
                  /\ CheckedOf(c, j)' /\ CopyOf(c, j)'

LEMMA SameRecords ==
  ASSUME Inv, NEW c \in Cors, OthersSame(c), Types', BatchOf(c)', HoldsOK', BackupOK',
         UNCHANGED << sided, seq, data >>, torn => torn', torn' => torn \/ ~Rpc, Still(c)
  PROVE  Inv'
<1>0. \A j \in Keys : /\ ~Writing(c, j) /\ ~Writing(c, j)' /\ ~Reading(c, j)'
                      /\ CheckedOf(c, j)' /\ CopyOf(c, j)'
  BY DEF Still
<1>1. BatchOK'
  BY OthersBatch
<1>2. \A d \in Cors, j \in Keys : Writing(d, j)' = Writing(d, j)
  BY <1>0 DEF OthersSame, Writing
<1>3. CheckedOK'
  <2>1. ASSUME NEW d \in Cors, NEW j \in Keys, d # c PROVE CheckedOf(d, j)'
    <3>1. Checked(d, j)' = Checked(d, j)
      BY <2>1 DEF OthersSame, Checked
    <3>2. CheckedOf(d, j) /\ item'[d] = item[d]
      BY <2>1 DEF OthersSame, Inv, CheckedOK
    <3> QED
      BY <3>1, <3>2 DEF CheckedOf
  <2> QED
    BY <1>0, <2>1 DEF CheckedOK
<1>4. RecordOK'
  <2>1. ASSUME NEW j \in Keys PROVE RecordFree(j)'
    BY <1>2 DEF Inv, RecordOK, RecordFree
  <2>2. ASSUME NEW d \in Cors, NEW j \in Keys PROVE WrittenOf(d, j)'
    <3>1. Writing(d, j) => at'[d] = at[d] /\ item'[d] = item[d]
      BY <1>0 DEF OthersSame
    <3> QED
      BY <1>2, <3>1 DEF Inv, RecordOK, WrittenOf
  <2> QED
    BY <2>1, <2>2 DEF RecordOK
<1>5. CopiesOK'
  <2>1. ASSUME NEW d \in Cors, NEW j \in Keys, d # c PROVE CopyOf(d, j)'
    <3>1. Loaded(d)' = Loaded(d) /\ CopyOf(d, j)
      BY <2>1 DEF Inv, OthersSame, Loaded, CopiesOK
    <3> QED
      BY <2>1, <3>1 DEF OthersSame, CopyOf, Rpc
  <2> QED
    BY <1>0, <2>1 DEF CopiesOK
<1>6. ReadingOK'
  <2>1. ASSUME NEW d \in Cors, NEW j \in Keys PROVE ReadingOf(d, j)'
    <3>1. CASE d = c
      BY <1>0, <3>1 DEF ReadingOf
    <3>2. CASE d # c
      <4>1. Reading(d, j)' = Reading(d, j) /\ at'[d] = at[d] /\ ReadingOf(d, j)
        BY <3>2 DEF OthersSame, Reading, Rpc, Inv, ReadingOK
      <4> QED
        BY <1>0, <1>2, <3>2, <4>1 DEF OthersSame, ReadingOf
    <3> QED
      BY <3>1, <3>2
  <2> QED
    BY <2>1 DEF ReadingOK
<1>7. TornOK'
  BY DEF Inv, TornOK, Rpc
<1> QED
  BY <1>1, <1>3, <1>4, <1>5, <1>6, <1>7 DEF Inv

LEMMA SameContents ==
  ASSUME Inv, NEW c \in Cors, OthersSame(c), Types', BatchOf(c)', HoldsOK',
         UNCHANGED << sided, seq, data, backup >>, torn => torn', torn' => torn \/ ~Rpc,
         \A j \in Keys : ~Writing(c, j) /\ ~Writing(c, j)' /\ ~Reading(c, j)',
         \A j \in Keys : \A m \in mapping_(Home[j]) :
           /\ Applied(c, j, m)' <=> Applied(c, j, m)
           /\ Applied(c, j, m) => item'[c][j] = item[c][j],
         \A j \in Keys : CheckedOf(c, j)' /\ CopyOf(c, j)'
  PROVE  Inv'
<1>1. BackupOK'
  <2>1. ASSUME NEW j \in Keys, NEW m \in Macs, m \in mapping_(Home[j]) PROVE BackupOf(j, m)'
    <3>1. \A d \in Cors : /\ Applied(d, j, m)' <=> Applied(d, j, m)
                          /\ Applied(d, j, m) => item'[d][j] = item[d][j]
      BY <2>1 DEF OthersSame, Applied
    <3>2. BackupOf(j, m)
      BY <2>1 DEF Inv, BackupOK
    <3> QED
      BY <3>1, <3>2 DEF BackupOf
  <2> QED
    BY <2>1 DEF BackupOK
<1> QED
  BY <1>1, SameRecords DEF Still

LEMMA UnlockHolds ==
  ASSUME Inv, NEW c \in Cors, NEW k \in Keys, OthersSame(c), sided' = sided,
         lock[k] = Word(c), lock' = [lock EXCEPT ![k] = 0],
         \A j \in Keys : MustHold(c, j)' => j # k /\ lock[j] = Word(c),
         \A j \in Keys : j # k /\ lock[j] = Word(c) => MayHold(c, j)'
  PROVE  HoldsOK'
<1>1. \A d \in Cors, j \in Keys : d # c =>
        MustHold(d, j)' = MustHold(d, j) /\ MayHold(d, j)' = MayHold(d, j)
  BY DEF OthersSame, MustHold, MayHold
<1>2. \A d \in Cors : Word(d)' = Word(d) /\ Word(d) # 0 /\ (d # c => lock[k] # Word(d))
  BY WordFacts DEF Word
<1>3. lock'[k] = 0 /\ \A j \in Keys : j # k => lock'[j] = lock[j]
  BY DEF Inv, Types
<1> QED
  BY <1>1, <1>2, <1>3 DEF Inv, HoldsOK
-----------------------------------------------------------------------------
(* The lock stage                                                          *)
-----------------------------------------------------------------------------
LEMMA CommitStep ==
  ASSUME Inv, NEW c \in Cors, Commit(c)
  PROVE  Inv'
<1>0. /\ pc[c] = "read" /\ pend[c] = {}
      /\ pc' = [pc EXCEPT ![c] = "lock"] /\ pend' = [pend EXCEPT ![c] = wset[c]]
      /\ mac' = [mac EXCEPT ![c] = { Home[k] : k \in wset[c] }]
      /\ UNCHANGED << sided, lock, seq, data, rset, wset, item, free, at, okay, torn, backup, wait >>
  BY DEF Commit, Stage, record, sets, buffers, ghost, replica
<1>1. BatchOf(c) /\ wset[c] \subseteq Keys /\ { Home[k] : k \in wset[c] } \subseteq Macs
  BY ReplicationAssumption DEF Inv, Types, BatchOK
<1>2. Types' /\ OthersSame(c)
  BY <1>0, <1>1 DEF Inv, Types, OthersSame, Stages
<1>3. pc'[c] = "lock" /\ pend'[c] = wset[c] /\ mac'[c] = { Home[k] : k \in wset[c] }
  BY <1>0 DEF Inv, Types
<1>4. \A j \in Keys : at[c][j] = 0
  BY <1>0, <1>1 DEF BatchOf
<1>5. BatchOf(c)'
  BY <1>0, <1>1, <1>3, <1>4 DEF BatchOf
<1>6. HoldsOK'
  <2>1. \A j \in Keys : ~MustHold(c, j)' /\ lock[j] # Word(c)
    BY <1>0, <1>3, <1>4 DEF MustHold, MayHold, Inv, HoldsOK
  <2> QED
    BY <1>0, <1>2, <2>1, OthersHold
<1>7. \A j \in Keys : CheckedOf(c, j)'
  BY <1>3, <1>0 DEF CheckedOf, Checked
<1>8. \A j \in Keys : CopyOf(c, j)'
  <2>1. \A j \in Keys : CopyOf(c, j)
    BY DEF Inv, CopiesOK
  <2> QED
    BY <1>0, <1>3, <2>1 DEF CopyOf, Rpc, Loaded
<1>9. \A j \in Keys : ~Writing(c, j) /\ ~Writing(c, j)' /\ ~Reading(c, j)'
  BY <1>0, <1>3 DEF Writing, Reading
<1>10. \A j \in Keys : \A m \in mapping_(Home[j]) : ~Applied(c, j, m) /\ ~Applied(c, j, m)'
  BY <1>0, <1>3 DEF Applied
<1> QED
  BY <1>0, <1>2, <1>5, <1>6, <1>7, <1>8, <1>9, <1>10, SameContents

LEMMA LockItemStep ==
  ASSUME Inv, NEW c \in Cors, NEW k \in Keys, LockItem(c, k)
  PROVE  Inv'
<1>0. /\ Serving(c, k, "lock", 0) /\ pc[c] = "lock" /\ k \in pend[c] /\ at[c][k] = 0
      /\ lock[k] = 0 /\ lock' = [lock EXCEPT ![k] = Word(c)]
      /\ MarkLocked(c, k, TRUE) /\ Step(c, k)
      /\ UNCHANGED << sided, seq, data, pc, rset, wset, item, okay, mac, torn, backup, wait >>
  BY DEF LockItem, Serving, sets, ghost, replica
<1>1. Moved(c, k) /\ at'[c][k] = 1 /\ pend' = pend
  BY <1>0, StepMoves DEF Inv
<1>2. /\ free' \in [Cors -> SUBSET Keys] /\ \A d \in Cors : d # c => free'[d] = free[d]
      /\ "release" \in sided => k \in free'[c]
      /\ \A j \in Keys : j # k => (j \in free'[c] <=> j \in free[c])
  BY <1>0 DEF Inv, Types, MarkLocked, OneSided
<1>3. Types'
  BY <1>0, <1>1, <1>2, WordFacts DEF Inv, Types, Moved
<1>4. OthersSame(c)
  BY <1>0, <1>1, <1>2 DEF OthersSame, Moved
<1>5. BatchOf(c)' /\ BatchOf(c)
  <2>1. BatchOK'
    BY <1>0, <1>1, MovedBatch DEF Inv
  <2> QED
    BY <2>1 DEF Inv, BatchOK
<1>6. HoldsOK'
  <2>1. lock'[k] = Word(c) /\ \A j \in Keys : j # k => lock'[j] = lock[j]
    BY <1>0 DEF Inv, Types
  <2>2. \A d \in Cors : Word(d)' = Word(d) /\ Word(d) # 0 /\ (d # c => Word(d) # Word(c))
    BY WordFacts DEF Word
  <2>3. \A d \in Cors, j \in Keys : d # c \/ j # k =>
          MustHold(d, j)' = MustHold(d, j) /\ MayHold(d, j)' = MayHold(d, j)
    BY <1>0, <1>1, <1>2, <1>4 DEF OthersSame, Moved, MustHold, MayHold
  <2>4. MayHold(c, k)'
    BY <1>0, <1>1, <1>2, <1>5 DEF MayHold, BatchOf
  <2> QED
    BY <1>0, <2>1, <2>2, <2>3, <2>4 DEF Inv, HoldsOK
<1>7. \A j \in Keys : CheckedOf(c, j)'
  <2>1. \A j \in Keys : CheckedOf(c, j) /\ (Checked(c, j)' => Checked(c, j))
    BY <1>0, <1>1 DEF Inv, CheckedOK, Checked
  <2> QED
    BY <1>0, <2>1 DEF CheckedOf
<1>8. \A j \in Keys : CopyOf(c, j)'
  <2>1. \A j \in Keys : CopyOf(c, j)
    BY DEF Inv, CopiesOK
  <2> QED
    BY <1>0, <1>1, <2>1 DEF CopyOf, Rpc, Loaded
<1>9. \A j \in Keys : ~Writing(c, j) /\ ~Writing(c, j)' /\ ~Reading(c, j)'
  BY <1>0 DEF Writing, Reading
<1>10. \A j \in Keys : \A m \in mapping_(Home[j]) : ~Applied(c, j, m) /\ ~Applied(c, j, m)'
  BY <1>0 DEF Applied
<1> QED
  BY <1>0, <1>3, <1>4, <1>5, <1>6, <1>7, <1>8, <1>9, <1>10, SameContents

\* A step of a batch of the lock or the validation stage that leaves the
\* records alone.
LEMMA QuietMove ==
  ASSUME Inv, NEW c \in Cors, NEW k \in Keys, Moved(c, k), pc[c] \in {"lock", "validate"},
         UNCHANGED << sided, lock, seq, data, pc, rset, wset, item, mac, backup, wait >>,
         torn' = torn, at'[c][k] <= 1,
         free' \in [Cors -> SUBSET Keys], okay' \in [Cors -> BOOLEAN],
         \A d \in Cors : d # c => free'[d] = free[d] /\ okay'[d] = okay[d],
         \A j \in Keys : MustHold(c, j)' => lock[j] = Word(c),
         \A j \in Keys : lock[j] = Word(c) => MayHold(c, j)',
         \A j \in Keys : CheckedOf(c, j)' /\ CopyOf(c, j)'
  PROVE  Inv'
<1>1. Types' /\ OthersSame(c)
  BY DEF Inv, Types, OthersSame, Moved
<1>2. BatchOf(c)'
  <2>1. at'[c][k] \in 0 .. 4
    BY DEF Moved
  <2>2. BatchOK'
    BY <2>1, MovedBatch DEF Inv
  <2> QED
    BY <2>2 DEF BatchOK
<1>3. HoldsOK'
  BY <1>1, OthersHold
<1>4. \A j \in Keys : ~Writing(c, j) /\ ~Writing(c, j)' /\ ~Reading(c, j)'
  BY DEF Writing, Reading
<1>5. \A j \in Keys : \A m \in mapping_(Home[j]) : ~Applied(c, j, m) /\ ~Applied(c, j, m)'
  BY DEF Applied
<1> QED
  BY <1>1, <1>2, <1>3, <1>4, <1>5, SameContents

\* A lock item that fails: what the transaction has locked it can still find.
LEMMA LockFailed ==
  ASSUME Inv, NEW c \in Cors, NEW k \in Keys, NEW n \in {0, 1}, Serving(c, k, "lock", n),
         Failed(c, k),
         UNCHANGED << sided, lock, seq, data, pc, rset, wset, item, mac, torn, backup, wait >>,
         free' \in [Cors -> SUBSET Keys], \A d \in Cors : d # c => free'[d] = free[d],
         \A j \in Keys : j # k => (j \in free'[c] <=> j \in free[c]),
         "lock" \in sided => (k \in free'[c] <=> n = 1 /\ k \in free[c]),
         n = 1 => free' = free
  PROVE  Inv'
<1>0. pc[c] = "lock" /\ k \in pend[c] /\ at[c][k] = n
  BY DEF Serving
<1>1. /\ Moved(c, k) /\ at'[c][k] = 0 /\ k \notin pend'[c]
      /\ okay' \in [Cors -> BOOLEAN] /\ ~okay'[c]
      /\ \A d \in Cors : d # c => okay'[d] = okay[d]
  BY FailedMoves DEF Inv
<1>2. /\ \A j \in Keys : MustHold(c, j) => lock[j] = Word(c)
      /\ \A j \in Keys : lock[j] = Word(c) => MayHold(c, j)
  BY DEF Inv, HoldsOK
<1>3. ASSUME NEW j \in Keys, MustHold(c, j)' PROVE lock[j] = Word(c)
  <2>1. j \in wset[c] /\ (IF j \in pend'[c] THEN at'[c][j] = 1
                                            ELSE "lock" \in sided /\ j \in free'[c])
    BY <1>0, <1>1, <1>3 DEF MustHold
  <2>2. CASE j = k
    BY <1>0, <1>1, <1>2, <2>1, <2>2 DEF MustHold
  <2>3. CASE j # k
    <3>1. j \in pend[c] /\ j \notin pend'[c] => "lock" \notin sided
      BY <1>0, <1>1, <2>3 DEF Moved, OneSided
    <3>2. MustHold(c, j)
      BY <1>0, <1>1, <2>1, <2>3, <3>1 DEF Moved, MustHold
    <3> QED
      BY <1>2, <3>2
  <2> QED
    BY <2>2, <2>3
<1>4. ASSUME NEW j \in Keys, lock[j] = Word(c) PROVE MayHold(c, j)'
  <2>1. MayHold(c, j)
    BY <1>2, <1>4
  <2>2. CASE j = k
    BY <1>0, <1>1, <2>1, <2>2 DEF MayHold
  <2>3. CASE j # k
    BY <1>0, <1>1, <2>1, <2>3 DEF MayHold, Moved
  <2> QED
    BY <2>2, <2>3
<1>5. \A j \in Keys : CheckedOf(c, j)'
  BY <1>0, <1>1 DEF CheckedOf, Checked
<1>6. \A j \in Keys : CopyOf(c, j)'
  <2>1. \A j \in Keys : CopyOf(c, j)
    BY DEF Inv, CopiesOK
  <2> QED
    BY <1>0, <2>1 DEF CopyOf, Rpc, Loaded
<1>7. at'[c][k] <= 1
  BY <1>1
<1> QED
  BY <1>0, <1>1, <1>3, <1>4, <1>5, <1>6, <1>7, QuietMove

LEMMA LockLostStep ==
  ASSUME Inv, NEW c \in Cors, NEW k \in Keys, LockLost(c, k)
  PROVE  Inv'
<1>0. /\ Serving(c, k, "lock", 0) /\ MarkLocked(c, k, FALSE) /\ Failed(c, k)
      /\ UNCHANGED << sided, lock, seq, data, pc, rset, wset, item, mac, torn, backup, wait >>
  BY DEF LockLost, record, sets, ghost, replica
<1>1. /\ free' \in [Cors -> SUBSET Keys] /\ \A d \in Cors : d # c => free'[d] = free[d]
      /\ \A j \in Keys : j # k => (j \in free'[c] <=> j \in free[c])
      /\ "lock" \in sided => k \notin free'[c]
  BY <1>0 DEF Inv, Types, MarkLocked, OneSided
<1> QED
  BY <1>0, <1>1, LockFailed

\* Nobody writes a record that the transaction has locked.
LEMMA HeldWhole ==
  ASSUME Inv, ~torn, NEW c \in Cors, NEW k \in Keys, lock[k] = Word(c), ~Writing(c, k)
  PROVE  data[k][1] = data[k][2] /\ seq[k] = 2 * data[k][1]
<1>1. ASSUME NEW d \in Cors, Writing(d, k) PROVE FALSE
  <2>1. lock[k] = Word(d)
    BY <1>1 DEF Inv, HoldsOK, MustHold, Writing, BatchOK, BatchOf
  <2> QED
    BY <1>1, <2>1, WordFacts
<1> QED
  BY <1>1 DEF Inv, RecordOK, RecordFree

\* A whole copy with the sequence word of a version is that version.
LEMMA CopyIsVersion ==
  ASSUME NEW i \in Copies, Whole(i), NEW x \in Nat \X Nat, x[1] = x[2], i.seq = 2 * x[1]
  PROVE  x = i.data
<1>1. i.data \in Nat \X Nat
  BY DEF Copies
<1>2. i.data[1] = x[1] /\ i.data[2] = x[2]
  BY <1>1 DEF Whole
<1> QED
  BY <1>1, <1>2

LEMMA CheckLockedStep ==
  ASSUME Inv, NEW c \in Cors, NEW k \in Keys, CheckLocked(c, k)
  PROVE  Inv'
<1>0. /\ Serving(c, k, "lock", 1) /\ pc[c] = "lock" /\ k \in pend[c] /\ at[c][k] = 1
      /\ UNCHANGED << sided, lock, seq, data, pc, rset, wset, item, free, mac, torn, backup, wait >>
  BY DEF CheckLocked, Serving, record, sets, buffers, ghost, replica
<1>1. CASE seq[k] # item[c][k].seq
  <2>1. Failed(c, k)
    BY <1>1 DEF CheckLocked
  <2>2. free' \in [Cors -> SUBSET Keys]
    BY <1>0 DEF Inv, Types
  <2> QED
    BY <1>0, <2>1, <2>2, LockFailed
<1>2. CASE seq[k] = item[c][k].seq
  <2>1. Served(c, k) /\ okay' = okay
    BY <1>2 DEF CheckLocked
  <2>2. Moved(c, k) /\ at'[c][k] = 0 /\ pend'[c] = pend[c] \ {k}
    BY <2>1, ServedMoves DEF Inv
  <2>3. /\ \A j \in Keys : MustHold(c, j) => lock[j] = Word(c)
        /\ \A j \in Keys : lock[j] = Word(c) => MayHold(c, j)
        /\ k \in wset[c]
    BY <1>0 DEF Inv, HoldsOK, BatchOK, BatchOf
  <2>4. lock[k] = Word(c)
    BY <1>0, <2>3 DEF MustHold
  <2>5. ASSUME NEW j \in Keys, MustHold(c, j)' PROVE lock[j] = Word(c)
    BY <1>0, <2>1, <2>2, <2>3, <2>4, <2>5 DEF MustHold, Moved
  <2>6. ASSUME NEW j \in Keys, lock[j] = Word(c) PROVE MayHold(c, j)'
    BY <1>0, <2>1, <2>2, <2>3, <2>6 DEF MayHold, Moved
  <2>8. ASSUME NEW j \in Keys PROVE CheckedOf(c, j)'
    <3>1. CASE j = k
      BY <1>0, <1>2, <3>1 DEF CheckedOf
    <3>2. CASE j # k
      <4>1. CheckedOf(c, j) /\ (Checked(c, j)' => Checked(c, j))
        BY <1>0, <2>1, <2>2, <3>2 DEF Inv, CheckedOK, Checked
      <4> QED
        BY <1>0, <4>1 DEF CheckedOf
    <3> QED
      BY <3>1, <3>2
  <2>9. \A j \in Keys : CopyOf(c, j)'
    <3>1. \A j \in Keys : CopyOf(c, j)
      BY DEF Inv, CopiesOK
    <3> QED
      BY <1>0, <3>1 DEF CopyOf, Rpc, Loaded
  <2>10. at'[c][k] <= 1 /\ free' \in [Cors -> SUBSET Keys] /\ okay' \in [Cors -> BOOLEAN]
    BY <1>0, <2>1, <2>2 DEF Inv, Types
  <2> QED
    BY <1>0, <2>1, <2>2, <2>5, <2>6, <2>8, <2>9, <2>10, QuietMove
<1> QED
  BY <1>1, <1>2

LEMMA LockDoneStep ==
  ASSUME Inv, NEW c \in Cors, LockDone(c)
  PROVE  Inv'
<1>0. /\ pc[c] = "lock" /\ pend[c] = {} /\ okay[c]
      /\ pc' = [pc EXCEPT ![c] = "validate"] /\ pend' = [pend EXCEPT ![c] = rset[c]]
      /\ UNCHANGED << sided, lock, seq, data, rset, wset, item, free, at, okay, mac, torn, backup, wait >>
  BY DEF LockDone, Stage, record, sets, buffers, ghost, replica
<1>1. BatchOf(c) /\ rset[c] \subseteq Keys
  BY DEF Inv, Types, BatchOK
<1>2. Types' /\ OthersSame(c)
  BY <1>0, <1>1 DEF Inv, Types, OthersSame, Stages
<1>3. pc'[c] = "validate" /\ pend'[c] = rset[c]
  BY <1>0 DEF Inv, Types
<1>4. \A j \in Keys : at[c][j] = 0
  BY <1>0, <1>1 DEF BatchOf
<1>5. BatchOf(c)'
  BY <1>0, <1>1, <1>3, <1>4 DEF BatchOf
<1>6. HoldsOK'
  <2>1. \A j \in Keys : MustHold(c, j)' => MustHold(c, j)
    BY <1>0, <1>3 DEF MustHold
  <2>2. \A j \in Keys : MayHold(c, j) => MayHold(c, j)'
    BY <1>0, <1>3 DEF MayHold
  <2> QED
    BY <1>0, <1>2, <2>1, <2>2, OthersHold DEF Inv, HoldsOK
<1>7. \A j \in Keys : CheckedOf(c, j)'
  <2>1. \A j \in Keys : CheckedOf(c, j) /\ (Checked(c, j)' => Checked(c, j))
    BY <1>0, <1>3 DEF Inv, CheckedOK, Checked
  <2> QED
    BY <1>0, <2>1 DEF CheckedOf
<1>8. \A j \in Keys : CopyOf(c, j)'
  <2>1. \A j \in Keys : CopyOf(c, j)
    BY DEF Inv, CopiesOK
  <2> QED
    BY <1>0, <1>3, <2>1 DEF CopyOf, Rpc, Loaded
<1>9. \A j \in Keys : ~Writing(c, j) /\ ~Writing(c, j)' /\ ~Reading(c, j)'
  BY <1>0, <1>3 DEF Writing, Reading
<1>10. \A j \in Keys : \A m \in mapping_(Home[j]) : ~Applied(c, j, m) /\ ~Applied(c, j, m)'
  BY <1>0, <1>3 DEF Applied
<1> QED
  BY <1>0, <1>2, <1>5, <1>6, <1>7, <1>8, <1>9, <1>10, SameContents
-----------------------------------------------------------------------------
(* Validation                                                              *)
-----------------------------------------------------------------------------
LEMMA ValidateMove ==
  ASSUME Inv, NEW c \in Cors, NEW k \in Keys, Moved(c, k), pc[c] = "validate",
         UNCHANGED << sided, lock, seq, data, pc, rset, wset, item, free, mac, backup, wait >>,
         torn' = torn, at'[c][k] <= 1, okay' \in [Cors -> BOOLEAN],
         \A d \in Cors : d # c => okay'[d] = okay[d]
  PROVE  Inv'
<1>1. \A j \in Keys :
        /\ MustHold(c, j)' <=> MustHold(c, j)
        /\ MayHold(c, j)' <=> MayHold(c, j)
        /\ Checked(c, j)' <=> Checked(c, j)
  BY DEF MustHold, MayHold, Checked
<1>2. \A j \in Keys : CheckedOf(c, j)'
  BY <1>1 DEF Inv, CheckedOK, CheckedOf
<1>3. ASSUME NEW j \in Keys PROVE CopyOf(c, j)'
  <2>1. CopyOf(c, j) /\ Loaded(c)' = Loaded(c)
    BY DEF Inv, CopiesOK, Loaded
  <2> QED
    BY <2>1 DEF CopyOf, Rpc
<1>4. free' \in [Cors -> SUBSET Keys]
  BY DEF Inv, Types
<1> QED
  BY <1>1, <1>2, <1>3, <1>4, QuietMove DEF Inv, HoldsOK

LEMMA ValidateFailed ==
  ASSUME Inv, NEW c \in Cors, NEW k \in Keys, NEW n, Serving(c, k, "validate", n), Failed(c, k),
         UNCHANGED << sided, lock, seq, data, pc, rset, wset, item, free, mac, torn, backup, wait >>
  PROVE  Inv'
<1>1. /\ Moved(c, k) /\ at'[c][k] = 0 /\ k \notin pend'[c]
      /\ okay' \in [Cors -> BOOLEAN] /\ ~okay'[c]
      /\ \A d \in Cors : d # c => okay'[d] = okay[d]
  BY FailedMoves DEF Inv
<1>2. pc[c] = "validate" /\ at'[c][k] <= 1
  BY <1>1 DEF Serving
<1> QED
  BY <1>1, <1>2, ValidateMove

\* A whole copy with the present sequence word of a record that nobody is
\* writing has its present contents.
LEMMA CopyCurrent ==
  ASSUME Inv, ~torn, NEW c \in Cors, NEW k \in Keys, Whole(item[c][k]), seq[k] = item[c][k].seq,
         lock[k] = 0 \/ (lock[k] = Word(c) /\ ~Writing(c, k))
  PROVE  data[k] = item[c][k].data
<1>1. data[k][1] = data[k][2] /\ seq[k] = 2 * data[k][1]
  BY RecordWhole, HeldWhole
<1>2. item[c][k] \in Copies /\ data[k] \in Nat \X Nat
  BY DEF Inv, Types
<1> QED
  BY <1>1, <1>2, CopyIsVersion

LEMMA ValidateRecordStep ==
  ASSUME Inv, NEW c \in Cors, NEW k \in Keys, ValidateRecord(c, k)
  PROVE  Inv'
<1>0. /\ Serving(c, k, "validate", 0) /\ pc[c] = "validate" /\ k \in pend[c]
      /\ UNCHANGED << sided, lock, seq, data, pc, rset, wset, item, free, mac, torn, backup, wait >>
  BY DEF ValidateRecord, Serving, record, sets, buffers, ghost, replica
<1>1. CASE ~(seq[k] = item[c][k].seq /\ lock[k] = 0)
  BY <1>0, <1>1, ValidateFailed DEF ValidateRecord
<1>2. CASE seq[k] = item[c][k].seq /\ lock[k] = 0
  <2>1. Served(c, k) /\ okay' = okay
    BY <1>2 DEF ValidateRecord
  <2>2. Moved(c, k) /\ at'[c][k] = 0 /\ pend'[c] = pend[c] \ {k}
    BY <2>1, ServedMoves DEF Inv
  <2>3. at'[c][k] <= 1 /\ okay' \in [Cors -> BOOLEAN]
    BY <2>1, <2>2 DEF Inv, Types
  <2> QED
    BY <1>0, <2>1, <2>2, <2>3, ValidateMove
<1> QED
  BY <1>1, <1>2

LEMMA ValidateSeqStep ==
  ASSUME Inv, NEW c \in Cors, NEW k \in Keys, ValidateSeq(c, k)
  PROVE  Inv'
<1>0. /\ Serving(c, k, "validate", 0) /\ pc[c] = "validate" /\ k \in pend[c]
      /\ UNCHANGED << sided, lock, seq, data, pc, rset, wset, item, free, mac, torn, backup, wait >>
  BY DEF ValidateSeq, Serving, record, sets, buffers, ghost, replica
<1>1. CASE seq[k] # item[c][k].seq
  BY <1>0, <1>1, ValidateFailed DEF ValidateSeq
<1>2. CASE seq[k] = item[c][k].seq
  <2>1. Step(c, k) /\ okay' = okay
    BY <1>2 DEF ValidateSeq
  <2>2. Moved(c, k) /\ at'[c][k] = 1 /\ pend' = pend
    BY <1>0, <2>1, StepMoves DEF Inv
  <2>3. at'[c][k] <= 1 /\ okay' \in [Cors -> BOOLEAN]
    BY <2>1, <2>2 DEF Inv, Types
  <2> QED
    BY <1>0, <2>1, <2>2, <2>3, ValidateMove
<1> QED
  BY <1>1, <1>2

LEMMA ValidateLockStep ==
  ASSUME Inv, NEW c \in Cors, NEW k \in Keys, ValidateLock(c, k)
  PROVE  Inv'
<1>0. /\ Serving(c, k, "validate", 1) /\ pc[c] = "validate" /\ k \in pend[c]
      /\ UNCHANGED << sided, lock, seq, data, pc, rset, wset, item, free, mac, torn, backup, wait >>
  BY DEF ValidateLock, Serving, record, sets, buffers, replica
<1>1. CASE lock[k] # 0
  BY <1>0, <1>1, ValidateFailed DEF ValidateLock
<1>2. CASE lock[k] = 0
  <2>1. Served(c, k) /\ okay' = okay
    BY <1>2 DEF ValidateLock
  <2>2. Moved(c, k) /\ at'[c][k] = 0 /\ pend'[c] = pend[c] \ {k}
    BY <2>1, ServedMoves DEF Inv
  <2>3. at'[c][k] <= 1 /\ okay' \in [Cors -> BOOLEAN]
    BY <2>1, <2>2 DEF Inv, Types
  <2> QED
    BY <1>0, <2>1, <2>2, <2>3, ValidateMove
<1> QED
  BY <1>1, <1>2

LEMMA ValidateDoneStep ==
  ASSUME Inv, NEW c \in Cors, ValidateDone(c)
  PROVE  Inv'
<1> DEFINE logs == wset[c] # {} /\ rep_factor_ > 0
<1>0. /\ pc[c] = "validate" /\ pend[c] = {} /\ okay[c]
      /\ UNCHANGED << sided, lock, seq, data, rset, wset, item, free, at, okay, mac, backup >>
      /\ torn' = (torn \/ \E k \in rset[c] \cup wset[c] : ~Whole(item[c][k]))
  BY DEF ValidateDone, record, sets, buffers
<1>1. /\ pc' = [pc EXCEPT ![c] = IF logs THEN "log" ELSE "commit"]
      /\ pend' = [pend EXCEPT ![c] = IF logs THEN {} ELSE wset[c]]
      /\ wait' = [wait EXCEPT ![c] = IF logs THEN LogMachines(mac[c], Node[c]) ELSE wait[c]]
  <2>1. CASE logs
    BY <2>1 DEF ValidateDone, Stage, Broadcast
  <2>2. CASE ~logs
    <3>1. Stage(c, "commit", wset[c]) /\ wait' = wait
      BY <2>2 DEF ValidateDone
    <3> QED
      BY <2>2, <3>1 DEF Stage, Inv, Types
  <2> QED
    BY <2>1, <2>2
<1> HIDE DEF logs
<1>2. BatchOf(c) /\ wset[c] \subseteq Keys /\ wait[c] \subseteq Macs /\ LogMachines(mac[c], Node[c]) \subseteq Macs
  BY Machines, OCCAssumption DEF Inv, Types, BatchOK
<1>3. /\ pc'[c] = IF logs THEN "log" ELSE "commit"
      /\ pend'[c] = IF logs THEN {} ELSE wset[c]
      /\ ~logs => wait'[c] = {}
  BY <1>0, <1>1, <1>2 DEF Inv, Types, BatchOf
<1>4. Types'
  <2>1. pc' \in [Cors -> Stages \cup {"idle", "log", "ack"}]
    BY <1>1 DEF Inv, Types, Stages
  <2>2. pend' \in [Cors -> SUBSET Keys]
    BY <1>1, <1>2 DEF Inv, Types
  <2>3. wait' \in [Cors -> SUBSET Macs]
    BY <1>1, <1>2 DEF Inv, Types
  <2> QED
    BY <1>0, <2>1, <2>2, <2>3 DEF Inv, Types
<1>5. OthersSame(c)
  BY <1>0, <1>1 DEF Inv, Types, OthersSame
<1>6. \A j \in Keys : at[c][j] = 0
  BY <1>0, <1>2 DEF BatchOf
<1>7. BatchOf(c)'
  BY <1>0, <1>2, <1>3, <1>6 DEF BatchOf
<1>8. HoldsOK'
  <2>1. \A j \in Keys : MustHold(c, j)' => MustHold(c, j)
    BY <1>0, <1>3 DEF MustHold
  <2>2. \A j \in Keys : MayHold(c, j) => MayHold(c, j)'
    BY <1>0, <1>3 DEF MayHold
  <2> QED
    BY <1>0, <1>5, <2>1, <2>2, OthersHold DEF Inv, HoldsOK
<1>9. \A j \in Keys : CheckedOf(c, j)'
  <2>1. \A j \in Keys : CheckedOf(c, j) /\ (Checked(c, j)' => Checked(c, j))
    BY <1>0, <1>3 DEF Inv, CheckedOK, Checked
  <2> QED
    BY <1>0, <2>1 DEF CheckedOf
<1>10. ASSUME NEW j \in Keys PROVE CopyOf(c, j)'
  <2>1. CopyOf(c, j) /\ Loaded(c)' = Loaded(c) /\ Loaded(c) \subseteq rset[c] \cup wset[c]
    BY <1>0, <1>3 DEF Inv, CopiesOK, Loaded
  <2>2. ~torn' /\ j \in rset[c] \cup wset[c] => Whole(item[c][j])
    BY <1>0
  <2> QED
    BY <1>0, <2>1, <2>2 DEF CopyOf, Rpc, Whole
<1>13. torn' => torn \/ ~Rpc
  <2>1. ASSUME NEW j \in rset[c] \cup wset[c], Rpc PROVE Whole(item[c][j])
    <3>1. CopyOf(c, j) /\ j \in Loaded(c)
      BY <1>0 DEF Inv, Types, CopiesOK, Loaded
    <3> QED
      BY <2>1, <3>1 DEF CopyOf
  <2> QED
    BY <1>0, <2>1
<1>11. \A j \in Keys : ~Writing(c, j) /\ ~Writing(c, j)' /\ ~Reading(c, j)'
  BY <1>0, <1>3, <1>6 DEF Writing, Reading
<1>12. ASSUME NEW j \in Keys, NEW m \in mapping_(Home[j])
       PROVE  ~Applied(c, j, m) /\ ~Applied(c, j, m)'
  <2>1. rep_factor_ > 0
    BY ReplicationAssumption DEF mapping_, rep_factor_
  <2>2. j \in wset[c] => logs
    BY <2>1 DEF logs
  <2> QED
    BY <1>0, <1>3, <2>2 DEF Applied
<1> QED
  BY <1>0, <1>4, <1>5, <1>7, <1>8, <1>9, <1>10, <1>11, <1>12, <1>13, SameContents

\* The release finds all that the transaction has locked, and nothing else.
LEMMA AbortStep ==
  ASSUME Inv, ReleaseWithLock, NEW c \in Cors, Abort(c)
  PROVE  Inv'
<1>0. /\ pc[c] \in {"lock", "validate"} /\ pend[c] = {} /\ ~okay[c]
      /\ pc' = [pc EXCEPT ![c] = "release"] /\ pend' = [pend EXCEPT ![c] = ToRelease(c)]
      /\ UNCHANGED << sided, lock, seq, data, rset, wset, item, free, at, okay, mac, torn, backup, wait >>
  BY DEF Abort, Stage, record, sets, buffers, ghost, replica
<1>1. BatchOf(c) /\ ToRelease(c) \subseteq wset[c] /\ wset[c] \subseteq Keys
  BY DEF Inv, Types, BatchOK, ToRelease
<1>2. Types' /\ OthersSame(c)
  BY <1>0, <1>1 DEF Inv, Types, OthersSame, Stages
<1>3. pc'[c] = "release" /\ pend'[c] = ToRelease(c)
  BY <1>0 DEF Inv, Types
<1>4. \A j \in Keys : at[c][j] = 0
  BY <1>0, <1>1 DEF BatchOf
<1>5. BatchOf(c)'
  BY <1>0, <1>1, <1>3, <1>4 DEF BatchOf
<1>6. HoldsOK'
  <2>1. "release" \in sided => "lock" \in sided
    BY DEF ReleaseWithLock, Inv, Types
  <2>2. \A j \in Keys : MustHold(c, j)' => MustHold(c, j)
    BY <1>0, <1>3, <2>1 DEF MustHold, ToRelease, OneSided
  <2>3. \A j \in Keys : MayHold(c, j) => MayHold(c, j)'
    BY <1>0, <1>3 DEF MayHold, ToRelease, OneSided
  <2> QED
    BY <1>0, <1>2, <2>2, <2>3, OthersHold DEF Inv, HoldsOK
<1>7. \A j \in Keys : CheckedOf(c, j)'
  BY <1>3 DEF CheckedOf, Checked
<1>8. \A j \in Keys : CopyOf(c, j)'
  <2>1. \A j \in Keys : CopyOf(c, j)
    BY DEF Inv, CopiesOK
  <2> QED
    BY <1>0, <1>3, <2>1 DEF CopyOf, Rpc, Loaded
<1>9. \A j \in Keys : ~Writing(c, j) /\ ~Writing(c, j)' /\ ~Reading(c, j)'
  BY <1>0, <1>3 DEF Writing, Reading
<1>10. \A j \in Keys : \A m \in mapping_(Home[j]) : ~Applied(c, j, m) /\ ~Applied(c, j, m)'
  BY <1>0, <1>3 DEF Applied
<1> QED
  BY <1>0, <1>2, <1>5, <1>6, <1>7, <1>8, <1>9, <1>10, SameContents
-----------------------------------------------------------------------------
(* The log                                                                 *)
-----------------------------------------------------------------------------
LEMMA LogStep ==
  ASSUME Inv, NEW c \in Cors, NEW m \in Macs, Log(c, m)
  PROVE  Inv'
<1>0. /\ pc[c] = "log" /\ wait' = [wait EXCEPT ![c] = @ \ {m}]
      /\ UNCHANGED << sided, lock, seq, data, pc, rset, wset, item, free, pend, at, okay, mac, torn, backup >>
  BY DEF Log, LogEntry, Answer, record, sets, buffers, ghost
<1>1. Types' /\ OthersSame(c)
  BY <1>0 DEF Inv, Types, OthersSame
<1>2. BatchOf(c)'
  BY <1>0 DEF Inv, BatchOK, BatchOf
<1>3. HoldsOK'
  BY <1>0 DEF Inv, HoldsOK, MustHold, MayHold, Word
<1>4. \A j \in Keys : CheckedOf(c, j)'
  BY <1>0 DEF Inv, CheckedOK, CheckedOf, Checked
<1>5. \A j \in Keys : CopyOf(c, j)'
  BY <1>0 DEF Inv, CopiesOK, CopyOf, Rpc, Loaded
<1>6. \A j \in Keys : ~Writing(c, j) /\ ~Writing(c, j)' /\ ~Reading(c, j)'
  BY <1>0 DEF Writing, Reading
<1>7. \A j \in Keys : \A n \in mapping_(Home[j]) : ~Applied(c, j, n) /\ ~Applied(c, j, n)'
  BY <1>0 DEF Applied
<1> QED
  BY <1>0, <1>1, <1>2, <1>3, <1>4, <1>5, <1>6, <1>7, SameContents

LEMMA LogAckStep ==
  ASSUME Inv, NEW c \in Cors, LogAck(c)
  PROVE  Inv'
<1>0. /\ pc[c] = "log"
      /\ pc' = [pc EXCEPT ![c] = "ack"] /\ pend' = [pend EXCEPT ![c] = {}]
      /\ wait' = [wait EXCEPT ![c] = LogMachines(mac[c], Node[c])]
      /\ UNCHANGED << sided, lock, seq, data, rset, wset, item, free, at, okay, mac, torn, backup >>
  BY DEF LogAck, Stage, Broadcast, record, sets, buffers, ghost
<1>1. BatchOf(c) /\ pend[c] = {} /\ LogMachines(mac[c], Node[c]) \subseteq Macs
  <2>1. BatchOf(c) /\ pend[c] = {}
    BY <1>0 DEF Inv, BatchOK, BatchOf
  <2>2. mac[c] \in SUBSET Macs /\ Node[c] \in Macs
    BY OCCAssumption DEF Inv, Types
  <2> QED
    BY <2>1, <2>2, Machines
<1>2. /\ pc'[c] = "ack" /\ pend'[c] = {} /\ wait'[c] = LogMachines(mac[c], Node[c])
      /\ OthersSame(c)
  BY <1>0, <1>1 DEF Inv, Types, OthersSame
<1>3. Types'
  BY <1>0, <1>1 DEF Inv, Types
<1>4. BatchOf(c)'
  BY <1>0, <1>1, <1>2 DEF BatchOf
<1>5. HoldsOK'
  <2>1. \A j \in Keys : (MustHold(c, j)' => MustHold(c, j)) /\ (MayHold(c, j) => MayHold(c, j)')
    BY <1>0, <1>2 DEF MustHold, MayHold
  <2> QED
    BY <1>0, <1>2, <2>1, OthersHold DEF Inv, HoldsOK
<1>6. \A j \in Keys : CheckedOf(c, j)'
  BY <1>0, <1>2 DEF Inv, CheckedOK, CheckedOf, Checked
<1>7. \A j \in Keys : CopyOf(c, j)'
  BY <1>0, <1>2 DEF Inv, CopiesOK, CopyOf, Rpc, Loaded
<1>8. \A j \in Keys : ~Writing(c, j) /\ ~Writing(c, j)' /\ ~Reading(c, j)'
  BY <1>0, <1>2 DEF Writing, Reading
<1>9. ASSUME NEW j \in Keys, NEW m \in mapping_(Home[j])
      PROVE  ~Applied(c, j, m) /\ ~Applied(c, j, m)'
  <2>1. j \in wset[c] => Home[j] \in mac[c]
    BY <1>0, <1>1 DEF BatchOf
  <2>2. mac[c] \in SUBSET Macs /\ Node[c] \in Macs
    BY OCCAssumption DEF Inv, Types
  <2>3. j \in wset[c] => m \in wait'[c]
    BY <1>2, <2>1, <2>2, Machines
  <2> QED
    BY <1>0, <1>2, <2>3 DEF Applied
<1> QED
  BY <1>0, <1>2, <1>3, <1>4, <1>5, <1>6, <1>7, <1>8, <1>9, SameContents

LEMMA LogDoneStep ==
  ASSUME Inv, NEW c \in Cors, LogDone(c)
  PROVE  Inv'
<1>0. /\ pc[c] = "ack" /\ wait[c] = {}
      /\ pc' = [pc EXCEPT ![c] = "commit"] /\ pend' = [pend EXCEPT ![c] = wset[c]]
      /\ UNCHANGED << sided, lock, seq, data, rset, wset, item, free, at, okay, mac, torn, backup, wait >>
  BY DEF LogDone, Stage, Answered, record, sets, buffers, ghost, replica
<1>1. BatchOf(c) /\ pend[c] = {} /\ wset[c] \subseteq Keys
  BY <1>0 DEF Inv, Types, BatchOK, BatchOf
<1>2. pc'[c] = "commit" /\ pend'[c] = wset[c] /\ OthersSame(c)
  BY <1>0, <1>1 DEF Inv, Types, OthersSame
<1>3. Types'
  BY <1>0, <1>1 DEF Inv, Types, Stages
<1>4. \A j \in Keys : at[c][j] = 0
  BY <1>1 DEF BatchOf
<1>5. BatchOf(c)'
  BY <1>0, <1>1, <1>2, <1>4 DEF BatchOf
<1>6. HoldsOK'
  <2>1. \A j \in Keys : (MustHold(c, j)' => MustHold(c, j)) /\ (MayHold(c, j) => MayHold(c, j)')
    BY <1>0, <1>2 DEF MustHold, MayHold
  <2> QED
    BY <1>0, <1>2, <2>1, OthersHold DEF Inv, HoldsOK
<1>7. \A j \in Keys : CheckedOf(c, j)'
  BY <1>0, <1>2 DEF Inv, CheckedOK, CheckedOf, Checked
<1>8. \A j \in Keys : CopyOf(c, j)'
  BY <1>0, <1>2 DEF Inv, CopiesOK, CopyOf, Rpc, Loaded
<1>9. \A j \in Keys : ~Writing(c, j) /\ ~Writing(c, j)' /\ ~Reading(c, j)'
  BY <1>0, <1>2, <1>4 DEF Writing, Reading
<1>10. \A j \in Keys : \A m \in mapping_(Home[j]) : Applied(c, j, m)' <=> Applied(c, j, m)
  BY <1>0, <1>2 DEF Applied
<1> QED
  BY <1>0, <1>2, <1>3, <1>5, <1>6, <1>7, <1>8, <1>9, <1>10, SameContents

\* Nobody else has the new contents of a record applied.
LEMMA AppliedAlone ==
  ASSUME Inv, NEW k \in Keys, NEW m, NEW c \in Cors, lock[k] = Word(c), NEW d \in Cors,
         Applied(d, k, m)
  PROVE  d = c
<1>1. lock[k] = Word(d)
  BY DEF Applied, Inv, HoldsOK, MustHold
<1> QED
  BY <1>1, WordFacts

LEMMA CleanLogStep ==
  ASSUME Inv, NEW c \in Cors, NEW m \in Macs, CleanLog(c, m)
  PROVE  Inv'
<1>0. /\ pc[c] = "ack" /\ wait' = [wait EXCEPT ![c] = @ \ {m}]
      /\ backup' = [backup EXCEPT ![m] = [k \in Keys |->
           IF k \in wset[c] /\ m \in mapping_(Home[k]) THEN NewData(c)[k] ELSE @[k]]]
      /\ UNCHANGED << sided, lock, seq, data, pc, rset, wset, item, free, pend, at, okay, mac, torn >>
  BY DEF CleanLog, clean_log, is_backup, Answer, record, sets, buffers, ghost
<1>1. \A k \in wset[c] : /\ NewData(c)[k] = << item[c][k].data[1] + 1, item[c][k].data[2] + 1 >>
                         /\ k \in Keys => NewData(c)[k] \in Nat \X Nat
  <2>1. \A k \in Keys : item[c][k].data \in Nat \X Nat
    BY DEF Inv, Types, Copies
  <2> QED
    BY <2>1 DEF NewData
<1>2. /\ \A k \in Keys : backup'[m][k] =
           IF k \in wset[c] /\ m \in mapping_(Home[k]) THEN NewData(c)[k] ELSE backup[m][k]
      /\ \A n \in Macs : n # m => backup'[n] = backup[n]
  BY <1>0 DEF Inv, Types
<1>3. backup' \in [Macs -> [Keys -> Nat \X Nat]]
  <2>1. \A k \in Keys : backup[m][k] \in Nat \X Nat
    BY DEF Inv, Types
  <2>2. [k \in Keys |-> IF k \in wset[c] /\ m \in mapping_(Home[k]) THEN NewData(c)[k] ELSE backup[m][k]]
          \in [Keys -> Nat \X Nat]
    BY <1>1, <2>1
  <2> QED
    BY <1>0, <2>2 DEF Inv, Types
<1>4. Types' /\ OthersSame(c) /\ wait'[c] = wait[c] \ {m}
  BY <1>0, <1>3 DEF Inv, Types, OthersSame
<1>5. BatchOf(c)'
  BY <1>0, <1>4 DEF Inv, BatchOK, BatchOf
<1>6. HoldsOK'
  BY <1>0 DEF Inv, HoldsOK, MustHold, MayHold, Word
<1>7. ASSUME NEW k \in Keys, NEW n \in Macs, n \in mapping_(Home[k]) PROVE BackupOf(k, n)'
  <2>1. BackupOf(k, n)
    BY <1>7 DEF Inv, BackupOK
  <2>2. CASE k \in wset[c] /\ n = m
    <3>1. lock[k] = Word(c)
      BY <1>0, <2>2 DEF Inv, HoldsOK, MustHold
    <3>2. Applied(c, k, n)'
      BY <1>0, <1>4, <2>2 DEF Applied
    <3>3. ASSUME NEW d \in Cors, Applied(d, k, n)' PROVE d = c
      <4>1. d # c => Applied(d, k, n)
        BY <1>0, <1>4, <3>3 DEF Applied, OthersSame
      <4> QED
        BY <3>1, <4>1, AppliedAlone
    <3>4. backup'[n][k] = << item[c][k].data[1] + 1, item[c][k].data[2] + 1 >>
      BY <1>1, <1>2, <1>7, <2>2
    <3> QED
      BY <1>0, <3>2, <3>3, <3>4 DEF BackupOf
  <2>3. CASE ~(k \in wset[c] /\ n = m)
    <3>1. backup'[n][k] = backup[n][k]
      BY <1>2, <2>3
    <3>2. \A d \in Cors : Applied(d, k, n)' <=> Applied(d, k, n)
      BY <1>0, <1>4, <2>3 DEF Applied, OthersSame
    <3> QED
      BY <1>0, <2>1, <3>1, <3>2 DEF BackupOf
  <2> QED
    BY <2>2, <2>3
<1>8. BackupOK'
  BY <1>7 DEF BackupOK
<1>9. Still(c)
  <2>1. \A j \in Keys : CheckedOf(c, j)'
    BY <1>0 DEF Inv, CheckedOK, CheckedOf, Checked
  <2>2. \A j \in Keys : CopyOf(c, j)'
    BY <1>0 DEF Inv, CopiesOK, CopyOf, Rpc, Loaded
  <2>3. \A j \in Keys : ~Writing(c, j) /\ ~Writing(c, j)' /\ ~Reading(c, j)'
    BY <1>0 DEF Writing, Reading
  <2> QED
    BY <2>1, <2>2, <2>3 DEF Still
<1> QED
  BY <1>0, <1>4, <1>5, <1>6, <1>8, <1>9, SameRecords
-----------------------------------------------------------------------------
(* The beginning, the end and the release                                  *)
-----------------------------------------------------------------------------
LEMMA BeginStep ==
  ASSUME Inv, NEW c \in Cors, Begin(c)
  PROVE  Inv'
<1>1. PICK t \in Txns[c] :
        /\ rset' = [rset EXCEPT ![c] = t[1]] /\ wset' = [wset EXCEPT ![c] = t[2]]
        /\ pc' = [pc EXCEPT ![c] = "read"] /\ pend' = [pend EXCEPT ![c] = t[1] \cup t[2]]
  BY DEF Begin, Stage
<1>2. /\ pc[c] = "idle"
      /\ UNCHANGED << sided, lock, seq, data, item, free, at, okay, mac, torn, backup, wait >>
  BY DEF Begin, record, buffers, replica
<1>3. t[1] \subseteq Keys /\ t[2] \subseteq Keys /\ t[1] \cap t[2] = {}
  BY <1>1, OCCAssumption
<1>4. /\ pc'[c] = "read" /\ rset'[c] = t[1] /\ wset'[c] = t[2] /\ pend'[c] = t[1] \cup t[2]
      /\ OthersSame(c)
  BY <1>1, <1>2 DEF Inv, Types, OthersSame
<1>5. Types'
  BY <1>1, <1>2, <1>3 DEF Inv, Types, Stages
<1>6. BatchOf(c) /\ \A j \in Keys : at[c][j] = 0
  BY <1>2 DEF Inv, BatchOK, BatchOf
<1>7. BatchOf(c)'
  BY <1>2, <1>3, <1>4, <1>6 DEF BatchOf
<1>8. HoldsOK'
  <2>1. \A j \in Keys : ~MustHold(c, j)' /\ lock[j] # Word(c)
    BY <1>2, <1>4 DEF MustHold, MayHold, Inv, HoldsOK
  <2> QED
    BY <1>2, <1>4, <2>1, OthersHold
<1>9. \A j \in Keys : CheckedOf(c, j)' /\ CopyOf(c, j)'
  BY <1>4 DEF CheckedOf, Checked, CopyOf, Loaded
<1>10. \A j \in Keys : ~Writing(c, j) /\ ~Writing(c, j)' /\ ~Reading(c, j)'
  BY <1>2, <1>4, <1>6 DEF Writing, Reading
<1>11. \A j \in Keys : \A m \in mapping_(Home[j]) : ~Applied(c, j, m) /\ ~Applied(c, j, m)'
  BY <1>2, <1>4 DEF Applied
<1> QED
  BY <1>2, <1>4, <1>5, <1>7, <1>8, <1>9, <1>10, <1>11, SameContents

LEMMA OverStep ==
  ASSUME Inv, NEW c \in Cors, pc[c] \in {"commit", "release"}, pend[c] = {}, Over(c)
  PROVE  Inv'
<1>1. /\ pc' = [pc EXCEPT ![c] = "idle"] /\ pend' = [pend EXCEPT ![c] = {}]
      /\ rset' = [rset EXCEPT ![c] = {}] /\ wset' = [wset EXCEPT ![c] = {}]
      /\ item' = [item EXCEPT ![c] = [k \in Keys |-> Blank]]
      /\ free' = [free EXCEPT ![c] = {}] /\ okay' = [okay EXCEPT ![c] = TRUE]
      /\ mac' = [mac EXCEPT ![c] = {}]
      /\ UNCHANGED << sided, lock, seq, data, at, torn, backup, wait >>
  BY DEF Over, Stage, record, ghost, replica
<1>2. /\ pc'[c] = "idle" /\ rset'[c] = {} /\ wset'[c] = {} /\ pend'[c] = {}
      /\ OthersSame(c)
  BY <1>1 DEF Inv, Types, OthersSame
<1>3. Types'
  <2>1. [k \in Keys |-> Blank] \in [Keys -> Copies]
    BY DEF Blank, Copies
  <2>2. item' \in [Cors -> [Keys -> Copies]]
    BY <1>1, <2>1 DEF Inv, Types
  <2> QED
    BY <1>1, <2>2 DEF Inv, Types, Stages
<1>4. BatchOf(c) /\ \A j \in Keys : at[c][j] = 0
  BY DEF Inv, BatchOK, BatchOf
<1>5. BatchOf(c)'
  BY <1>1, <1>2, <1>4 DEF BatchOf
<1>6. HoldsOK'
  <2>1. \A j \in Keys : ~MustHold(c, j)' /\ lock[j] # Word(c)
    BY <1>2 DEF MustHold, MayHold, Inv, HoldsOK
  <2> QED
    BY <1>1, <1>2, <2>1, OthersHold
<1>7. \A j \in Keys : CheckedOf(c, j)' /\ CopyOf(c, j)'
  BY <1>2 DEF CheckedOf, Checked, CopyOf, Loaded
<1>8. \A j \in Keys : ~Writing(c, j) /\ ~Writing(c, j)' /\ ~Reading(c, j)'
  BY <1>2 DEF Writing, Reading
<1>9. \A j \in Keys : \A m \in mapping_(Home[j]) : ~Applied(c, j, m) /\ ~Applied(c, j, m)'
  BY <1>2 DEF Applied
<1> QED
  BY <1>1, <1>2, <1>3, <1>5, <1>6, <1>7, <1>8, <1>9, SameContents

\* A lock that is released is one of the transaction's own, with verbs too.
LEMMA ReleaseItemStep ==
  ASSUME Inv, NEW c \in Cors, NEW k \in Keys, ReleaseItem(c, k)
  PROVE  Inv'
<1>0. /\ pc[c] = "release" /\ k \in pend[c] /\ Served(c, k)
      /\ lock' = [lock EXCEPT ![k] = IF OneSided("release") \/ @ = Word(c) THEN 0 ELSE @]
      /\ UNCHANGED << sided, seq, data, pc, rset, wset, item, free, okay, mac, torn, backup, wait >>
  BY DEF ReleaseItem, Serving, sets, buffers, ghost, replica
<1>1. Moved(c, k) /\ at'[c][k] = 0 /\ pend'[c] = pend[c] \ {k}
  BY <1>0, ServedMoves DEF Inv
<1>2. BatchOf(c)'
  <2>1. BatchOK'
    BY <1>0, <1>1, MovedBatch DEF Inv
  <2> QED
    BY <2>1 DEF BatchOK
<1>3. OthersSame(c)
  BY <1>0, <1>1 DEF OthersSame, Moved
<1>4. "release" \in sided => lock[k] = Word(c)
  BY <1>0 DEF Inv, HoldsOK, MustHold, BatchOK, BatchOf
<1>5. \A j \in Keys : MustHold(c, j)' => j # k /\ lock[j] = Word(c)
  BY <1>0, <1>1 DEF MustHold, Inv, HoldsOK
<1>6. \A j \in Keys : j # k /\ lock[j] = Word(c) => MayHold(c, j)'
  BY <1>0, <1>1 DEF MayHold, Inv, HoldsOK
<1>7. lock' \in [Keys -> Nat]
  BY <1>0 DEF Inv, Types
<1>8. HoldsOK'
  <2>1. CASE lock[k] = Word(c)
    <3>1. lock' = [lock EXCEPT ![k] = 0]
      BY <1>0, <2>1
    <3> QED
      BY <1>0, <1>3, <1>5, <1>6, <2>1, <3>1, UnlockHolds
  <2>2. CASE lock[k] # Word(c)
    <3>1. lock' = lock
      BY <1>0, <1>4, <2>2 DEF OneSided, Inv, Types
    <3> QED
      BY <1>0, <1>3, <1>5, <1>6, <2>2, <3>1, OthersHold
  <2> QED
    BY <2>1, <2>2
<1>9. Types'
  BY <1>0, <1>1, <1>7 DEF Inv, Types, Moved
<1>10. \A j \in Keys : CheckedOf(c, j)'
  BY <1>0 DEF CheckedOf, Checked
<1>11. \A j \in Keys : CopyOf(c, j)'
  BY <1>0 DEF Inv, CopiesOK, CopyOf, Rpc, Loaded
<1>12. \A j \in Keys : ~Writing(c, j) /\ ~Writing(c, j)' /\ ~Reading(c, j)'
  BY <1>0 DEF Writing, Reading
<1>13. \A j \in Keys : \A m \in mapping_(Home[j]) : ~Applied(c, j, m) /\ ~Applied(c, j, m)'
  BY <1>0 DEF Applied
<1> QED
  BY <1>0, <1>2, <1>3, <1>8, <1>9, <1>10, <1>11, <1>12, <1>13, SameContents
-----------------------------------------------------------------------------
(* The write back                                                          *)
-----------------------------------------------------------------------------
\* What writers share: an access to a record that is locked, whose contents go
\* from one version to the next.
LEMMA WriteStep ==
  ASSUME Inv, NEW c \in Cors, NEW k \in Keys, Moved(c, k), pc[c] = "commit", k \in pend[c],
         pend' = pend, at'[c][k] > 0,
         UNCHANGED << sided, lock, pc, rset, wset, item, free, okay, mac, torn, backup, wait >>,
         seq' \in [Keys -> Nat], data' \in [Keys -> Nat \X Nat],
         \A j \in Keys : j # k => seq'[j] = seq[j] /\ data'[j] = data[j],
         at[c][k] = 0 \/ "commit" \in sided \/ at[c][k] <= 3,
         "commit" \in sided => at'[c][k] <= 1,
         WrittenOf(c, k)'
  PROVE  Inv'
<1>1. Types' /\ OthersSame(c)
  BY DEF Inv, Types, OthersSame, Moved
<1>2. BatchOK'
  <2>1. at'[c][k] \in 0 .. 4
    BY DEF Moved
  <2> QED
    BY <2>1, MovedBatch DEF Inv
<1>3. lock[k] = Word(c) /\ k \in wset[c] /\ (at[c][k] = 0 => Checked(c, k))
  BY DEF Inv, HoldsOK, MustHold, BatchOK, BatchOf, Checked
<1>4. \A d \in Cors, j \in Keys :
        /\ MustHold(d, j)' <=> MustHold(d, j)
        /\ MayHold(d, j)' <=> MayHold(d, j)
  BY DEF Moved, MustHold, MayHold
<1>5. HoldsOK'
  BY <1>4 DEF Inv, HoldsOK, Word
<1>6. \A d \in Cors : d # c => ~MustHold(d, k)
  BY <1>3, WordFacts DEF Inv, HoldsOK
<1>7. \A d \in Cors : d # c => ~Writing(d, k) /\ ~Checked(d, k) /\ ~Writing(d, k)' /\ ~Checked(d, k)'
  BY <1>1, <1>6 DEF MustHold, Checked, Writing, OthersSame, Inv, BatchOK, BatchOf
<1>8. Writing(c, k)' /\ ~Checked(c, k)'
  BY DEF Moved, Writing, Checked
<1>9. \A d \in Cors, j \in Keys : j # k =>
        /\ Writing(d, j)' <=> Writing(d, j)
        /\ Checked(d, j)' <=> Checked(d, j)
        /\ at'[d][j] = at[d][j]
  BY DEF Moved, Writing, Checked
<1>10. CheckedOK'
  <2>1. ASSUME NEW d \in Cors, NEW j \in Keys PROVE CheckedOf(d, j)'
    <3>1. CASE j = k
      BY <1>7, <1>8, <3>1 DEF CheckedOf
    <3>2. CASE j # k
      BY <1>9, <3>2 DEF Inv, CheckedOK, CheckedOf
    <3> QED
      BY <3>1, <3>2
  <2> QED
    BY <2>1 DEF CheckedOK
<1>11. RecordOK'
  <2>1. ASSUME NEW j \in Keys PROVE RecordFree(j)'
    <3>1. CASE j = k
      BY <1>8, <3>1 DEF RecordFree
    <3>2. CASE j # k
      BY <1>9, <3>2 DEF Inv, RecordOK, RecordFree
    <3> QED
      BY <3>1, <3>2
  <2>2. ASSUME NEW d \in Cors, NEW j \in Keys PROVE WrittenOf(d, j)'
    <3>1. CASE j = k
      BY <1>7, <3>1 DEF WrittenOf
    <3>2. CASE j # k
      <4>1. WrittenOf(d, j) /\ at'[d][j] = at[d][j]
        BY <1>9, <3>2 DEF Inv, RecordOK
      <4> QED
        BY <1>9, <3>2, <4>1 DEF WrittenOf
    <3> QED
      BY <3>1, <3>2
  <2> QED
    BY <2>1, <2>2 DEF RecordOK
<1>12. CopiesOK'
  BY DEF Inv, CopiesOK, CopyOf, Rpc, Loaded
<1>13. ReadingOK'
  <2>1. ASSUME NEW d \in Cors, NEW j \in Keys PROVE ReadingOf(d, j)'
    <3>1. ReadingOf(d, j) /\ (Reading(d, j)' => Reading(d, j) /\ d # c)
      BY <1>1 DEF Inv, ReadingOK, Reading, Rpc, OthersSame
    <3>2. CASE j # k
      BY <1>9, <3>1, <3>2 DEF ReadingOf
    <3>3. ASSUME j = k, Reading(d, k)' PROVE ReadingOf(d, j)'
      <4> DEFINE r == item[d][k].seq
                 q == item[c][k].seq
      <4>0. Rpc /\ ~torn /\ "commit" \notin sided
        BY <3>1, <3>3 DEF Reading, Inv, TornOK, Rpc
      <4>1. r \in Nat /\ q \in Nat /\ r # CONFLICT_WRITE_FLAG /\ seq[k] \in Nat /\ seq'[k] \in Nat
        BY <3>3 DEF Inv, Types, Copies, Reading
      <4>2. Whole(item[c][k]) /\ (seq'[k] = CONFLICT_WRITE_FLAG \/ seq'[k] = q + 2)
        BY <1>8, <4>0 DEF WrittenOf, InPlace, Whole
      <4>3. item[c][k].data[1] \in Nat
        BY DEF Inv, Types, Copies
      <4>4. q # CONFLICT_WRITE_FLAG /\ q + 2 # CONFLICT_WRITE_FLAG
        <5>1. \A x \in Nat : 2 * x # CONFLICT_WRITE_FLAG /\ 2 * x + 2 # CONFLICT_WRITE_FLAG
          BY DEF CONFLICT_WRITE_FLAG
        <5> QED
          BY <4>2, <4>3, <5>1 DEF Whole
      <4>5. r <= q
        <5>1. CASE at[c][k] = 0
          <6>1. seq[k] = q
            BY <1>3, <5>1 DEF Inv, CheckedOK, CheckedOf
          <6> QED
            BY <3>1, <3>3, <4>4, <6>1 DEF ReadingOf
        <5>2. CASE at[c][k] # 0
          <6>1. Writing(c, k) /\ at[c][k] # 4
            <7>1. at[c][k] \in 0 .. 4
              BY DEF Inv, Types
            <7> QED
              BY <4>0, <5>2, <7>1 DEF Writing
          <6>2. seq[k] = CONFLICT_WRITE_FLAG
            BY <4>0, <6>1 DEF Inv, RecordOK, WrittenOf, InPlace
          <6> QED
            BY <3>1, <3>3, <6>1, <6>2 DEF ReadingOf
        <5> QED
          BY <5>1, <5>2
      <4>6. \A e \in Cors : Writing(e, k)' => e = c
        BY <1>7
      <4>7. seq'[k] # r /\ (seq'[k] # CONFLICT_WRITE_FLAG => r <= seq'[k])
        BY <4>1, <4>2, <4>5
      <4> QED
        BY <3>3, <4>5, <4>6, <4>7 DEF ReadingOf
    <3> QED
      BY <3>2, <3>3 DEF ReadingOf
  <2> QED
    BY <2>1 DEF ReadingOK
<1>14. BackupOK'
  <2>1. ASSUME NEW j \in Keys, NEW m \in Macs, m \in mapping_(Home[j]) PROVE BackupOf(j, m)'
    <3>1. BackupOf(j, m) /\ \A d \in Cors : Applied(d, j, m)' <=> Applied(d, j, m)
      BY <2>1 DEF Inv, BackupOK, Applied
    <3>2. j = k => Applied(c, j, m)
      BY <1>3 DEF Applied
    <3> QED
      BY <3>1, <3>2 DEF BackupOf
  <2> QED
    BY <2>1 DEF BackupOK
<1>15. TornOK'
  BY DEF Inv, TornOK, Rpc
<1> QED
  BY <1>1, <1>2, <1>5, <1>10, <1>11, <1>12, <1>13, <1>14, <1>15 DEF Inv

\* The contents a write item is to get.
LEMMA NewContents ==
  ASSUME Types, NEW c \in Cors, NEW k \in Keys, k \in wset[c]
  PROVE  /\ item[c][k].data \in Nat \X Nat /\ item[c][k].seq \in Nat
         /\ NewData(c)[k] \in Nat \X Nat
         /\ NewData(c)[k] = << item[c][k].data[1] + 1, item[c][k].data[2] + 1 >>
<1>1. item[c][k].data \in Nat \X Nat /\ item[c][k].seq \in Nat
  BY DEF Types, Copies
<1> QED
  BY <1>1 DEF NewData

\* The copy of a transaction that writes back, unless it has been torn.
LEMMA WriterWhole ==
  ASSUME Inv, ~torn, NEW c \in Cors, NEW k \in Keys, pc[c] = "commit", k \in pend[c]
  PROVE  Whole(item[c][k]) /\ (at[c][k] = 0 => data[k] = item[c][k].data /\ seq[k] = item[c][k].seq)
<1>1. k \in wset[c] /\ k \in Loaded(c) /\ CopyOf(c, k) /\ lock[k] = Word(c)
  BY DEF Inv, BatchOK, BatchOf, Loaded, CopiesOK, HoldsOK, MustHold
<1>2. Whole(item[c][k])
  BY <1>1 DEF CopyOf
<1>3. ASSUME at[c][k] = 0 PROVE data[k] = item[c][k].data /\ seq[k] = item[c][k].seq
  <2>1. seq[k] = item[c][k].seq /\ ~Writing(c, k)
    BY <1>1, <1>3 DEF Inv, CheckedOK, CheckedOf, Checked, Writing
  <2> QED
    BY <1>1, <1>2, <2>1, CopyCurrent
<1> QED
  BY <1>2, <1>3

LEMMA WriteRecordStep ==
  ASSUME Inv, NEW c \in Cors, NEW k \in Keys, WriteRecord(c, k)
  PROVE  Inv'
<1>0. /\ pc[c] = "commit" /\ k \in pend[c] /\ at[c][k] \in 0 .. 1
      /\ "commit" \in sided /\ at' = [at EXCEPT ![c][k] = 1] /\ pend' = pend
      /\ UNCHANGED << sided, lock, pc, rset, wset, item, free, okay, mac, torn, backup, wait >>
  BY DEF WriteRecord, Serving, OneSided, sets, buffers, ghost, replica
<1>1. Moved(c, k) /\ at'[c][k] = 1
  BY <1>0 DEF Inv, Types, Moved
<1>2. k \in wset[c] /\ data[k] \in Nat \X Nat /\ seq[k] \in Nat
  BY <1>0 DEF Inv, Types, BatchOK, BatchOf
<1>3. /\ item[c][k].data \in Nat \X Nat /\ item[c][k].seq \in Nat
      /\ NewData(c)[k] \in Nat \X Nat
      /\ NewData(c)[k] = << item[c][k].data[1] + 1, item[c][k].data[2] + 1 >>
  BY <1>2, NewContents DEF Inv
<1>4. ~torn => Whole(item[c][k]) /\ Landing(item[c][k], seq[k], data[k])
  <2>1. CASE at[c][k] = 0
    BY <1>0, <1>3, <2>1, WriterWhole DEF Landing
  <2>2. CASE at[c][k] # 0
    <3>1. Writing(c, k)
      BY <1>0, <2>2 DEF Writing
    <3> QED
      BY <1>0, <3>1 DEF Inv, RecordOK, WrittenOf
  <2> QED
    BY <2>1, <2>2
<1>5. /\ seq' \in [Keys -> Nat] /\ data' \in [Keys -> Nat \X Nat]
      /\ \A j \in Keys : j # k => seq'[j] = seq[j] /\ data'[j] = data[j]
      /\ Landing(item[c][k], seq[k], data[k]) => Landing(item[c][k], seq'[k], data'[k])
  <2>1. CASE seq' = [seq EXCEPT ![k] = item[c][k].seq + 2] /\ data' = data
    <3>1. seq'[k] = item[c][k].seq + 2
      BY <2>1 DEF Inv, Types
    <3>2. Landing(item[c][k], seq[k], data[k]) => Landing(item[c][k], seq'[k], data'[k])
      BY <2>1, <3>1 DEF Landing
    <3> QED
      BY <1>3, <2>1, <3>2 DEF Inv, Types
  <2>2. ASSUME NEW n \in 1 .. 2, data' = [data EXCEPT ![k][n] = NewData(c)[k][n]], seq' = seq
        PROVE  /\ seq' \in [Keys -> Nat] /\ data' \in [Keys -> Nat \X Nat]
               /\ \A j \in Keys : j # k => seq'[j] = seq[j] /\ data'[j] = data[j]
               /\ Landing(item[c][k], seq[k], data[k]) => Landing(item[c][k], seq'[k], data'[k])
    <3>1. NewData(c)[k][n] \in Nat
      BY <1>3
    <3>2. /\ data'[k] = [data[k] EXCEPT ![n] = NewData(c)[k][n]]
          /\ \A j \in Keys : j # k => data'[j] = data[j]
      BY <2>2 DEF Inv, Types
    <3>3. /\ data'[k] \in Nat \X Nat
          /\ data'[k] = << IF n = 1 THEN NewData(c)[k][n] ELSE data[k][1],
                           IF n = 2 THEN NewData(c)[k][n] ELSE data[k][2] >>
      BY <1>2, <3>1, <3>2, HalfSet
    <3>4. data' \in [Keys -> Nat \X Nat] /\ seq' \in [Keys -> Nat]
      BY <2>2, <3>2, <3>3 DEF Inv, Types
    <3>5. CASE n = 1
      BY <1>3, <2>2, <3>2, <3>3, <3>4, <3>5 DEF Landing
    <3>6. CASE n = 2
      BY <1>3, <2>2, <3>2, <3>3, <3>4, <3>6 DEF Landing
    <3> QED
      BY <3>5, <3>6
  <2> QED
    BY <2>1, <2>2 DEF WriteRecord
<1>6. WrittenOf(c, k)'
  BY <1>0, <1>4, <1>5 DEF WrittenOf
<1>7. at'[c][k] > 0 /\ at'[c][k] <= 1
  BY <1>1
<1> QED
  BY <1>0, <1>1, <1>5, <1>6, <1>7, WriteStep

LEMMA FlagSeqStep ==
  ASSUME Inv, NEW c \in Cors, NEW k \in Keys, FlagSeq(c, k)
  PROVE  Inv'
<1>0. /\ Serving(c, k, "commit", 0) /\ pc[c] = "commit" /\ k \in pend[c] /\ at[c][k] = 0
      /\ "commit" \notin sided /\ Step(c, k)
      /\ item' = [item EXCEPT ![c][k].seq = seq[k]]
      /\ seq' = [seq EXCEPT ![k] = CONFLICT_WRITE_FLAG]
      /\ UNCHANGED << sided, lock, data, pc, rset, wset, free, okay, mac, torn, backup, wait >>
  BY DEF FlagSeq, Serving, OneSided, sets, ghost, replica
<1>1. Moved(c, k) /\ at'[c][k] = 1 /\ pend' = pend
  BY <1>0, StepMoves DEF Inv
<1>2. k \in wset[c] /\ seq[k] = item[c][k].seq
  BY <1>0 DEF Inv, BatchOK, BatchOf, CheckedOK, CheckedOf, Checked
<1>3. item' = item
  <2>1. item[c][k] \in Copies /\ item \in [Cors -> [Keys -> Copies]]
    BY DEF Inv, Types
  <2>2. [item[c][k] EXCEPT !.seq = seq[k]] = item[c][k]
    BY <1>2, <2>1 DEF Copies
  <2> QED
    BY <1>0, <2>1, <2>2
<1>4. /\ seq' \in [Keys -> Nat] /\ data' \in [Keys -> Nat \X Nat]
      /\ \A j \in Keys : j # k => seq'[j] = seq[j] /\ data'[j] = data[j]
      /\ seq'[k] = CONFLICT_WRITE_FLAG
  BY <1>0 DEF Inv, Types, CONFLICT_WRITE_FLAG
<1>5. WrittenOf(c, k)'
  <2>1. ~torn => Whole(item[c][k]) /\ data[k] = item[c][k].data
    BY <1>0, WriterWhole
  <2>2. ~torn => InPlace(item[c][k], seq'[k], data'[k], 1)
    BY <1>0, <1>4, <2>1 DEF InPlace
  <2> QED
    BY <1>0, <1>1, <1>3, <2>1, <2>2 DEF WrittenOf
<1>6. at'[c][k] > 0
  BY <1>1
<1> QED
  BY <1>0, <1>1, <1>3, <1>4, <1>5, <1>6, WriteStep

LEMMA WriteHalfStep ==
  ASSUME Inv, NEW c \in Cors, NEW k \in Keys, WriteHalf(c, k)
  PROVE  Inv'
<1>1. PICK n \in 1 .. 2 : /\ Serving(c, k, "commit", n)
                          /\ data' = [data EXCEPT ![k][n] = NewData(c)[k][n]]
  BY DEF WriteHalf
<1>0. /\ pc[c] = "commit" /\ k \in pend[c] /\ at[c][k] = n
      /\ "commit" \notin sided /\ Step(c, k)
      /\ UNCHANGED << sided, lock, seq, pc, rset, wset, item, free, okay, mac, torn, backup, wait >>
  BY <1>1 DEF WriteHalf, Serving, OneSided, sets, buffers, ghost, replica
<1>2. Moved(c, k) /\ at'[c][k] = n + 1 /\ pend' = pend
  BY <1>0, <1>1, StepMoves DEF Inv
<1>3. k \in wset[c] /\ Writing(c, k) /\ WrittenOf(c, k)
  BY <1>0 DEF Inv, BatchOK, BatchOf, Writing, RecordOK
<1>4. /\ item[c][k].data \in Nat \X Nat /\ item[c][k].seq \in Nat
      /\ NewData(c)[k] \in Nat \X Nat
      /\ NewData(c)[k] = << item[c][k].data[1] + 1, item[c][k].data[2] + 1 >>
  BY <1>3, NewContents DEF Inv
<1>5. data[k] \in Nat \X Nat /\ NewData(c)[k][n] \in Nat
  BY <1>4 DEF Inv, Types
<1>6. /\ data'[k] = [data[k] EXCEPT ![n] = NewData(c)[k][n]]
      /\ \A j \in Keys : j # k => data'[j] = data[j]
  BY <1>1 DEF Inv, Types
<1>7. /\ data'[k] \in Nat \X Nat
      /\ data'[k] = << IF n = 1 THEN NewData(c)[k][n] ELSE data[k][1],
                       IF n = 2 THEN NewData(c)[k][n] ELSE data[k][2] >>
  BY <1>5, <1>6, HalfSet
<1>8. data' \in [Keys -> Nat \X Nat] /\ seq' \in [Keys -> Nat]
  BY <1>0, <1>1, <1>6, <1>7 DEF Inv, Types
<1>9. WrittenOf(c, k)'
  <2>1. ~torn => Whole(item[c][k]) /\ InPlace(item[c][k], seq[k], data[k], n)
    BY <1>0, <1>3 DEF WrittenOf
  <2>2. at'[c][k] >= 2 => data'[k][1] = item[c][k].data[1] + 1
    BY <1>0, <1>2, <1>3, <1>4, <1>7 DEF WrittenOf
  <2>3. at'[c][k] >= 3 => data'[k][2] = item[c][k].data[2] + 1
    BY <1>0, <1>2, <1>3, <1>4, <1>7 DEF WrittenOf
  <2>4. ~torn => InPlace(item[c][k], seq'[k], data'[k], n + 1)
    <3>1. CASE n = 1
      BY <1>0, <1>4, <1>7, <2>1, <3>1 DEF InPlace
    <3>2. CASE n = 2
      BY <1>0, <1>4, <1>7, <2>1, <3>2 DEF InPlace
    <3> QED
      BY <3>1, <3>2
  <2> QED
    BY <1>0, <1>2, <2>1, <2>2, <2>3, <2>4 DEF WrittenOf
<1>10. at'[c][k] > 0 /\ at[c][k] <= 3
  BY <1>0, <1>2
<1> QED
  BY <1>0, <1>2, <1>6, <1>8, <1>9, <1>10, WriteStep

LEMMA BumpSeqStep ==
  ASSUME Inv, NEW c \in Cors, NEW k \in Keys, BumpSeq(c, k)
  PROVE  Inv'
<1>0. /\ Serving(c, k, "commit", 3) /\ pc[c] = "commit" /\ k \in pend[c] /\ at[c][k] = 3
      /\ "commit" \notin sided /\ Step(c, k)
      /\ seq' = [seq EXCEPT ![k] = item[c][k].seq + 2]
      /\ UNCHANGED << sided, lock, data, pc, rset, wset, item, free, okay, mac, torn, backup, wait >>
  BY DEF BumpSeq, Serving, OneSided, sets, buffers, ghost, replica
<1>1. Moved(c, k) /\ at'[c][k] = 4 /\ pend' = pend
  BY <1>0, StepMoves DEF Inv
<1>2. k \in wset[c] /\ Writing(c, k) /\ WrittenOf(c, k)
  BY <1>0 DEF Inv, BatchOK, BatchOf, Writing, RecordOK
<1>3. item[c][k].data \in Nat \X Nat /\ item[c][k].seq \in Nat
  BY <1>2, NewContents DEF Inv
<1>4. /\ seq' \in [Keys -> Nat] /\ data' \in [Keys -> Nat \X Nat]
      /\ \A j \in Keys : j # k => seq'[j] = seq[j] /\ data'[j] = data[j]
      /\ seq'[k] = item[c][k].seq + 2
  BY <1>0, <1>3 DEF Inv, Types
<1>5. WrittenOf(c, k)'
  <2>1. ~torn => Whole(item[c][k]) /\ InPlace(item[c][k], seq[k], data[k], 3)
    BY <1>0, <1>2 DEF WrittenOf
  <2>2. ~torn => InPlace(item[c][k], seq'[k], data'[k], 4)
    BY <1>0, <1>4, <2>1 DEF InPlace
  <2> QED
    BY <1>0, <1>1, <1>2, <2>1, <2>2 DEF WrittenOf
<1>6. at'[c][k] > 0 /\ at[c][k] <= 3
  BY <1>0, <1>1
<1> QED
  BY <1>0, <1>1, <1>4, <1>5, <1>6, WriteStep

\* The lock is given up on a whole version, the one its backups have.
LEMMA UnlockStep ==
  ASSUME Inv, NEW c \in Cors, NEW k \in Keys, pc[c] = "commit", k \in pend[c],
         at[c][k] > 0, Served(c, k), lock' = [lock EXCEPT ![k] = 0],
         data[k] = << item[c][k].data[1] + 1, item[c][k].data[2] + 1 >>,
         torn \/ seq[k] = item[c][k].seq + 2,
         UNCHANGED << sided, seq, data, pc, rset, wset, item, free, okay, mac, torn, backup, wait >>
  PROVE  Inv'
<1>1. Moved(c, k) /\ at'[c][k] = 0 /\ pend'[c] = pend[c] \ {k}
  BY ServedMoves DEF Inv
<1>2. BatchOK'
  BY <1>1, MovedBatch DEF Inv
<1>3. OthersSame(c)
  BY <1>1 DEF OthersSame, Moved
<1>4. Types'
  BY <1>1 DEF Inv, Types, Moved
<1>5. lock[k] = Word(c) /\ k \in wset[c]
  BY DEF Inv, HoldsOK, MustHold, BatchOK, BatchOf
<1>6. HoldsOK'
  <2>1. \A j \in Keys : MustHold(c, j)' => j # k /\ lock[j] = Word(c)
    BY <1>1 DEF MustHold, Inv, HoldsOK
  <2>2. \A j \in Keys : j # k /\ lock[j] = Word(c) => MayHold(c, j)'
    BY <1>1 DEF MayHold, Inv, HoldsOK
  <2> QED
    BY <1>3, <1>5, <2>1, <2>2, UnlockHolds
<1>7. \A d \in Cors, j \in Keys :
        /\ Writing(d, j)' <=> Writing(d, j) /\ ~(d = c /\ j = k)
        /\ Checked(d, j)' => Checked(d, j)
        /\ Reading(d, j)' => Reading(d, j)
        /\ Writing(d, j)' \/ Reading(d, j)' => at'[d][j] = at[d][j]
  BY <1>1, <1>3 DEF Moved, OthersSame, Writing, Checked, Reading, Rpc
<1>8. CheckedOK'
  BY <1>7 DEF Inv, CheckedOK, CheckedOf
<1>9. torn \/ Whole(item[c][k])
  BY WriterWhole
<1>10. RecordOK'
  <2>1. ASSUME NEW j \in Keys PROVE RecordFree(j)'
    <3>1. CASE j = k
      <4>1. item[c][k].data \in Nat \X Nat /\ item[c][k].seq \in Nat
        BY DEF Inv, Types, Copies
      <4>2. torn \/ (data[k][1] = data[k][2] /\ seq[k] = 2 * data[k][1])
        BY <1>9, <4>1 DEF Whole
      <4> QED
        BY <3>1, <4>2 DEF RecordFree
    <3>2. CASE j # k
      BY <1>7, <3>2 DEF Inv, RecordOK, RecordFree
    <3> QED
      BY <3>1, <3>2
  <2>2. ASSUME NEW d \in Cors, NEW j \in Keys PROVE WrittenOf(d, j)'
    <3>1. WrittenOf(d, j) /\ (Writing(d, j)' => Writing(d, j) /\ at'[d][j] = at[d][j])
      BY <1>7 DEF Inv, RecordOK
    <3> QED
      BY <3>1 DEF WrittenOf
  <2> QED
    BY <2>1, <2>2 DEF RecordOK
<1>11. CopiesOK'
  <2>1. ASSUME NEW d \in Cors, NEW j \in Keys PROVE CopyOf(d, j)'
    <3>1. CopyOf(d, j) /\ Loaded(d)' = Loaded(d) /\ (pc[d] = "validate" => pend'[d] = pend[d])
      BY <1>3 DEF Inv, CopiesOK, OthersSame, Loaded
    <3> QED
      BY <3>1 DEF CopyOf, Rpc
  <2> QED
    BY <2>1 DEF CopiesOK
<1>12. ReadingOK'
  <2>1. ASSUME NEW d \in Cors, NEW j \in Keys PROVE ReadingOf(d, j)'
    <3>1. ReadingOf(d, j)
      BY DEF Inv, ReadingOK
    <3> QED
      BY <1>7, <3>1 DEF ReadingOf
  <2> QED
    BY <2>1 DEF ReadingOK
<1>13. BackupOK'
  <2>1. ASSUME NEW j \in Keys, NEW m \in Macs, m \in mapping_(Home[j]) PROVE BackupOf(j, m)'
    <3>1. BackupOf(j, m)
      BY <2>1 DEF Inv, BackupOK
    <3>2. \A d \in Cors : Applied(d, j, m)' <=> Applied(d, j, m) /\ ~(d = c /\ j = k)
      BY <1>1, <1>3 DEF OthersSame, Applied
    <3>3. CASE j = k
      <4>1. Applied(c, k, m)
        BY <1>5 DEF Applied
      <4>2. \A d \in Cors : Applied(d, k, m) => d = c
        BY <1>5, AppliedAlone
      <4>3. backup[m][k] = data[k]
        BY <3>1, <3>3, <4>1 DEF BackupOf
      <4> QED
        BY <3>2, <3>3, <4>2, <4>3 DEF BackupOf
    <3>4. CASE j # k
      BY <3>1, <3>2, <3>4 DEF BackupOf
    <3> QED
      BY <3>3, <3>4
  <2> QED
    BY <2>1 DEF BackupOK
<1>14. TornOK'
  BY DEF Inv, TornOK, Rpc
<1> QED
  BY <1>2, <1>4, <1>6, <1>8, <1>10, <1>11, <1>12, <1>13, <1>14 DEF Inv

LEMMA WriteUnlockStep ==
  ASSUME Inv, NEW c \in Cors, NEW k \in Keys, WriteUnlock(c, k)
  PROVE  Inv'
<1>1. /\ pc[c] = "commit" /\ k \in pend[c] /\ at[c][k] > 0
      /\ Served(c, k) /\ lock' = [lock EXCEPT ![k] = 0]
      /\ seq[k] = item[c][k].seq + 2 /\ data[k] = NewData(c)[k]
      /\ UNCHANGED << sided, seq, data, pc, rset, wset, item, free, okay, mac, torn, backup, wait >>
  BY DEF WriteUnlock, Serving, sets, buffers, ghost, replica
<1>2. k \in wset[c]
  BY <1>1 DEF Inv, BatchOK, BatchOf
<1>3. data[k] = << item[c][k].data[1] + 1, item[c][k].data[2] + 1 >>
  BY <1>1, <1>2, NewContents DEF Inv
<1> QED
  BY <1>1, <1>3, UnlockStep

LEMMA ZeroLockStep ==
  ASSUME Inv, NEW c \in Cors, NEW k \in Keys, ZeroLock(c, k)
  PROVE  Inv'
<1>1. /\ pc[c] = "commit" /\ k \in pend[c] /\ at[c][k] = 4 /\ "commit" \notin sided
      /\ Served(c, k) /\ lock' = [lock EXCEPT ![k] = 0]
      /\ UNCHANGED << sided, seq, data, pc, rset, wset, item, free, okay, mac, torn, backup, wait >>
  BY DEF ZeroLock, Serving, OneSided, sets, buffers, ghost, replica
<1>2. Writing(c, k) /\ WrittenOf(c, k) /\ data[k] \in Nat \X Nat
  BY <1>1 DEF Writing, Inv, RecordOK, Types
<1>3. data[k][1] = item[c][k].data[1] + 1 /\ data[k][2] = item[c][k].data[2] + 1
  BY <1>1, <1>2 DEF WrittenOf
<1>4. torn \/ seq[k] = item[c][k].seq + 2
  BY <1>1, <1>2 DEF WrittenOf, InPlace
<1>5. data[k] = << item[c][k].data[1] + 1, item[c][k].data[2] + 1 >> /\ at[c][k] > 0
  BY <1>1, <1>2, <1>3
<1> QED
  BY <1>1, <1>4, <1>5, UnlockStep
-----------------------------------------------------------------------------
(* The theorems                                                            *)
-----------------------------------------------------------------------------
LEMMA InvInit == Init => Inv
<1> SUFFICES ASSUME Init PROVE Inv
  OBVIOUS
<1>1. Types
  <2>1. Blank \in Copies
    BY DEF Blank, Copies
  <2> QED
    BY <2>1 DEF Init, Types, Stages
<1>2. BatchOK
  BY DEF Init, BatchOK, BatchOf
<1>3. HoldsOK
  BY WordFacts DEF Init, HoldsOK, MustHold
<1>4. CheckedOK /\ CopiesOK /\ ReadingOK
  BY DEF Init, CheckedOK, CheckedOf, Checked, CopiesOK, CopyOf, Loaded, ReadingOK, ReadingOf, Reading
<1>5. RecordOK
  BY DEF Init, RecordOK, RecordFree, WrittenOf, Writing
<1>6. BackupOK /\ TornOK
  BY DEF Init, BackupOK, BackupOf, Applied, TornOK
<1> QED
  BY <1>1, <1>2, <1>3, <1>4, <1>5, <1>6 DEF Inv

LEMMA InvStutter ==
  ASSUME Inv, UNCHANGED vars
  PROVE  Inv'
<1> USE DEF vars
<1>1. Types' /\ BatchOK'
  BY DEF Inv, Types, BatchOK, BatchOf
<1>2. HoldsOK' /\ CheckedOK'
  BY DEF Inv, HoldsOK, MustHold, MayHold, Word, CheckedOK, CheckedOf, Checked, Whole
<1>3. RecordOK' /\ CopiesOK'
  BY DEF Inv, RecordOK, RecordFree, WrittenOf, Writing, CopiesOK, CopyOf, Rpc, Loaded
<1>4. ReadingOK' /\ BackupOK' /\ TornOK'
  BY DEF Inv, ReadingOK, ReadingOf, Reading, Rpc, TornOK, Writing, BackupOK, BackupOf, Applied
<1> QED
  BY <1>1, <1>2, <1>3, <1>4 DEF Inv

LEMMA InvNext ==
  ASSUME Inv, ReleaseWithLock, [Next]_vars
  PROVE  Inv'
<1>1. ASSUME NEW c \in Cors, NEW k \in Keys,
             \/ ReadRecord(c, k) \/ ReadPart(c, k) \/ ReadDone(c, k)
             \/ GetSeq(c, k) \/ GetHalf(c, k) \/ GetRecheck(c, k)
      PROVE  Inv'
  BY <1>1, ReadRecordStep, ReadPartStep, ReadDoneStep, GetSeqStep, GetHalfStep, GetRecheckStep
<1>2. ASSUME NEW c \in Cors, NEW k \in Keys,
             \/ LockItem(c, k) \/ LockLost(c, k) \/ CheckLocked(c, k)
             \/ ValidateRecord(c, k) \/ ValidateSeq(c, k) \/ ValidateLock(c, k)
             \/ ReleaseItem(c, k)
      PROVE  Inv'
  BY <1>2, LockItemStep, LockLostStep, CheckLockedStep, ValidateRecordStep, ValidateSeqStep,
     ValidateLockStep, ReleaseItemStep
<1>3. ASSUME NEW c \in Cors, NEW k \in Keys,
             \/ WriteRecord(c, k) \/ WriteUnlock(c, k)
             \/ FlagSeq(c, k) \/ WriteHalf(c, k) \/ BumpSeq(c, k) \/ ZeroLock(c, k)
      PROVE  Inv'
  BY <1>3, WriteRecordStep, WriteUnlockStep, FlagSeqStep, WriteHalfStep, BumpSeqStep, ZeroLockStep
<1>4. ASSUME NEW c \in Cors, NEW m \in Macs, Log(c, m) \/ CleanLog(c, m)
      PROVE  Inv'
  BY <1>4, LogStep, CleanLogStep
<1>5. ASSUME NEW c \in Cors, End(c) \/ ReleaseDone(c)
      PROVE  Inv'
  BY <1>5, OverStep DEF End, ReleaseDone
<1>6. ASSUME NEW c \in Cors,
             \/ Begin(c) \/ Commit(c) \/ LockDone(c) \/ ValidateDone(c) \/ LogAck(c)
             \/ LogDone(c) \/ Abort(c)
      PROVE  Inv'
  BY <1>6, BeginStep, CommitStep, LockDoneStep, ValidateDoneStep, LogAckStep, LogDoneStep, AbortStep
<1>7. CASE UNCHANGED vars
  BY <1>7, InvStutter
<1>8. CASE Exhausted
  BY <1>8, InvStutter DEF Exhausted
<1>9. ASSUME NEW c \in Cors, Advance(c) PROVE Inv'
  BY <1>1, <1>2, <1>3, <1>4, <1>5, <1>6, <1>9 DEF Advance
<1> QED
  BY <1>6, <1>7, <1>8, <1>9 DEF Next

\* The inductive invariant holds throughout.
THEOREM Invariance == ASSUME ReleaseWithLock PROVE Spec => []Inv
<1>1. Inv /\ [Next]_vars => Inv'
  BY InvNext
<1> QED
  BY InvInit, <1>1, PTL DEF Spec

\* The types, and what the batch of a stage is made of.
THEOREM TypeCorrect == ASSUME ReleaseWithLock PROVE Spec => []TypeOK
<1>1. Inv => TypeOK
  <2> SUFFICES ASSUME Inv PROVE TypeOK
    OBVIOUS
  <2>1. ASSUME NEW c \in Cors
        PROVE  /\ pend[c] \subseteq rset[c] \cup wset[c]
               /\ \A k \in Keys : at[c][k] \in 0 .. 4 /\ (at[c][k] # 0 => k \in pend[c])
               /\ wait[c] # {} => pc[c] \in {"log", "ack"}
    BY DEF Inv, Types, BatchOK, BatchOf
  <2> QED
    BY <2>1 DEF Inv, Types, TypeOK
<1> QED
  BY <1>1, Invariance, PTL

\* A transaction owns its write set, as it read it, from a successful
\* lock_writes until the write back, and every lock word that is set belongs
\* to a transaction that is going to clear it.
THEOREM LocksAreOwned == ASSUME ReleaseWithLock PROVE Spec => []LocksOwned
<1>1. Inv => LocksOwned
  <2> SUFFICES ASSUME Inv PROVE LocksOwned
    OBVIOUS
  <2>1. ASSUME NEW c \in Cors, pc[c] \in {"validate", "log", "ack"}, NEW k \in wset[c]
        PROVE  lock[k] = Word(c) /\ seq[k] = item[c][k].seq
    <3>1. k \in Keys /\ MustHold(c, k) /\ Checked(c, k)
      BY <2>1 DEF Inv, Types, MustHold, Checked
    <3> QED
      BY <2>1, <3>1 DEF Inv, HoldsOK, CheckedOK, CheckedOf
  <2>2. ASSUME NEW k \in Keys, lock[k] # 0
        PROVE  \E c \in Cors :
                 /\ lock[k] = Word(c) /\ k \in wset[c]
                 /\ pc[c] \in {"lock", "validate", "log", "ack", "release", "commit"}
                 /\ pc[c] \in {"release", "commit"} => k \in pend[c]
    <3>1. PICK c \in Cors : lock[k] = Word(c)
      BY <2>2 DEF Inv, HoldsOK
    <3>2. MayHold(c, k)
      BY <3>1 DEF Inv, HoldsOK
    <3> QED
      BY <3>1, <3>2 DEF MayHold
  <2> QED
    BY <2>1, <2>2 DEF LocksOwned
<1> QED
  BY <1>1, Invariance, PTL

\* Where reads and write-backs go by RPC, no transaction computes on half of a
\* write: every copy it is handed is one version with the sequence word of that
\* version, whatever verbs the other stages use.
THEOREM CopiesAreWhole == ASSUME ReleaseWithLock PROVE Spec => []CopiesWhole
<1>1. Inv => CopiesWhole
  <2> SUFFICES ASSUME Inv, ~OneSided("read"), ~OneSided("commit"), NEW c \in Cors, NEW k \in Loaded(c)
               PROVE  Whole(item[c][k])
    BY DEF CopiesWhole
  <2>1. k \in Keys
    BY DEF Loaded, Inv, Types
  <2>2. CopyOf(c, k) /\ Rpc
    BY <2>1 DEF Inv, CopiesOK, Rpc, OneSided
  <2> QED
    BY <2>2 DEF CopyOf
<1> QED
  BY <1>1, Invariance, PTL

\* A record that nobody has locked is the same on its primary and on all its
\* backups.
THEOREM BackupsFollow == ASSUME ReleaseWithLock PROVE Spec => []BackupsAgree
<1>1. Inv => BackupsAgree
  <2> SUFFICES ASSUME Inv, NEW k \in Keys, lock[k] = 0, NEW m \in mapping_(Home[k])
               PROVE  backup[m][k] = data[k]
    BY DEF BackupsAgree
  <2>1. m \in Macs
    BY Machines, ReplicationAssumption
  <2>2. ASSUME NEW c \in Cors PROVE ~Applied(c, k, m)
    BY WordFacts DEF Applied, Inv, HoldsOK, MustHold
  <2> QED
    BY <2>1, <2>2 DEF Inv, BackupOK, BackupOf
<1> QED
  BY <1>1, Invariance, PTL
=============================================================================
