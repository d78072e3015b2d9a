-------------------------------- MODULE OCC --------------------------------
(***************************************************************************)
(* OCC (src/src/rtx/occ.h, .cc, occ_rdma.h, .cc) with the record           *)
(* operations of local_op_impl.hpp and composed with Replication.  A       *)
(* transaction reads without locking; to commit it locks its write set,    *)
(* validates its read set, logs to the backups and writes back.            *)
(*                                                                         *)
(* Each of the stages goes by RPC or by one-sided verbs: `sided' is the    *)
(* HYBRID_CODE of the build, {} the RPC build and Stages the one-sided     *)
(* one.  Every record is remote (the workers are built with node id -1).   *)
(*                                                                         *)
(* A step is one access to the memory of a record.  A machine may have     *)
(* several worker threads, so that the accesses of different handlers      *)
(* interleave; one handler serves the items of its machine one after the   *)
(* other.  A record is a header, the lock word and the sequence word, and  *)
(* contents that a memcpy moves in two halves.  An RDMA READ or WRITE of a *)
(* record goes over several cache lines (a TPC-C district or customer, the *)
(* strings of bank and YCSB): the header and each half are fetched, or     *)
(* land, at moments of their own and in any order.                         *)
(***************************************************************************)
EXTENDS Replication, FiniteSets

CONSTANTS
  Cors,     \* coroutines: one running transaction each
  Node, Tid, Cid, \* machine, worker and coroutine number of a coroutine
  Txns,     \* Txns[c]: pairs of a read set and a write set
  Builds,   \* the builds looked at, each a set of one-sided stages
  MaxTxns   \* bound: transactions begun in a run of a build

Stages == {"read", "lock", "validate", "release", "commit"}

\* ENCODE_LOCK_CONTENT(mac, tid, cor_id + 1); the handlers use the same
\* worker number as the requester, append_req sends to the worker of its own.
Word(c) == Node[c] * 65536 + Tid[c] * 1024 + Cid[c] + 1

ASSUME OCCAssumption ==
  /\ Node \in [Cors -> Macs]
  /\ Tid \in [Cors -> 0 .. 63]
  /\ Cid \in [Cors -> 0 .. 1022]
  /\ \A c, d \in Cors : c # d => << Node[c], Tid[c], Cid[c] >> # << Node[d], Tid[d], Cid[d] >>
  /\ \A c \in Cors : \A t \in Txns[c] :
       t[1] \subseteq Keys /\ t[2] \subseteq Keys /\ t[1] \cap t[2] = {}
  /\ Builds \subseteq SUBSET Stages
  /\ MaxTxns \in [Builds -> Nat]

CONFLICT_WRITE_FLAG == 73

VARIABLES
  sided,   \* the build
  lock,    \* lock[k]: header->lock, 0 when free
  seq,     \* seq[k]: header->seq
  data,    \* data[k]: the two halves of the contents, the number of a version
  pc,      \* pc[c]: the stage of the transaction
  rset,    \* rset[c]: keys of read_set_
  wset,    \* wset[c]: keys of write_set_
  item,    \* item[c][k]: sequence word and contents buffered for k
  free,    \* free[c]: write items whose buffered lock word is 0
  pend,    \* pend[c]: items of the batch under way not yet served
  at,      \* at[c][k]: accesses of the operation under way on k done so far
  okay,    \* okay[c]: no failure in the batch under way
  mac,     \* mac[c]: mac_set_ of write_batch_helper_
  done,    \* the committed transactions, what they read and what they wrote
  begun,   \* transactions begun so far
  split,   \* a validation saw the sequence word before and the lock after a write
  torn     \* a transaction was committed with a copy that is no version

record == << lock, seq, data >>
ghost == << done, begun, split, torn >>
replica == << backup, wait >>
sets == << rset, wset >>
buffers == << item, free >>
vars == << sided, lock, seq, data, pc, rset, wset, item, free, pend, at, okay,
           mac, done, begun, split, torn, backup, wait >>

Blank == [seq |-> 0, data |-> << 0, 0 >>]

Init ==
  /\ sided \in Builds
  /\ lock = [k \in Keys |-> 0]
  /\ seq = [k \in Keys |-> 0]
  /\ data = [k \in Keys |-> << 0, 0 >>]
  /\ backup = [m \in Macs |-> [k \in Keys |-> << 0, 0 >>]]
  /\ pc = [c \in Cors |-> "idle"]
  /\ rset = [c \in Cors |-> {}]
  /\ wset = [c \in Cors |-> {}]
  /\ item = [c \in Cors |-> [k \in Keys |-> Blank]]
  /\ free = [c \in Cors |-> {}]
  /\ pend = [c \in Cors |-> {}]
  /\ at = [c \in Cors |-> [k \in Keys |-> 0]]
  /\ okay = [c \in Cors |-> TRUE]
  /\ mac = [c \in Cors |-> {}]
  /\ wait = [c \in Cors |-> {}]
  /\ done = {}
  /\ begun = 0
  /\ split = FALSE
  /\ torn = FALSE
-----------------------------------------------------------------------------
\* A stage begins with its batch, all of it to be served.
Stage(c, label, S) ==
  /\ pc' = [pc EXCEPT ![c] = label]
  /\ pend' = [pend EXCEPT ![c] = S]

OneSided(s) == s \in sided

\* The item is next: a handler serves the items of its machine one by one,
\* the verbs of a batch are all in flight at once.
Serving(c, k, s, n) ==
  /\ pc[c] = s /\ k \in pend[c] /\ at[c][k] = n
  /\ OneSided(s) \/ \A j \in pend[c] \ {k} : Home[j] = Home[k] => at[c][j] = 0

\* The operation on the item goes on to its next access.
Step(c, k) == at' = [at EXCEPT ![c][k] = @ + 1] /\ UNCHANGED pend

\* The item is served.
Served(c, k) ==
  /\ pend' = [pend EXCEPT ![c] = @ \ {k}]
  /\ at' = [at EXCEPT ![c][k] = 0]

\* Faulty variant: the rest of the items is dropped in the middle of one.
FailedMidway(c, k) ==
  /\ okay' = [okay EXCEPT ![c] = FALSE]
  /\ pend' = [pend EXCEPT ![c] = {}]
  /\ UNCHANGED at

\* The item failed: the handler breaks and leaves the rest of its machine's
\* items alone; verbs are all served before anything is looked at.
Failed(c, k) ==
  /\ okay' = [okay EXCEPT ![c] = FALSE]
  /\ at' = [at EXCEPT ![c][k] = 0]
  /\ pend' = [pend EXCEPT ![c] =
       IF OneSided(pc[c]) THEN @ \ {k} ELSE { j \in @ : Home[j] # Home[k] }]

\* begin() clears the sets, the calls of the transaction append to them.  Over
\* RPC the first load sends the batch; a one-sided call reads at once.
Begin(c) ==
  /\ pc[c] = "idle" /\ begun < MaxTxns[sided]
  /\ begun' = begun + 1
  /\ \E t \in Txns[c] :
       /\ rset' = [rset EXCEPT ![c] = t[1]]
       /\ wset' = [wset EXCEPT ![c] = t[2]]
       /\ Stage(c, "read", t[1] \cup t[2])
  /\ UNCHANGED << sided, record, buffers, at, okay, mac, done, split, torn, replica >>

\* The end of commit(), won or lost: gc_readset and gc_writeset free the
\* buffers and mac_set_ is cleared.
Over(c) ==
  /\ Stage(c, "idle", {})
  /\ rset' = [rset EXCEPT ![c] = {}]
  /\ wset' = [wset EXCEPT ![c] = {}]
  /\ item' = [item EXCEPT ![c] = [k \in Keys |-> Blank]]
  /\ free' = [free EXCEPT ![c] = {}]
  /\ okay' = [okay EXCEPT ![c] = TRUE]
  /\ mac' = [mac EXCEPT ![c] = {}]
  /\ UNCHANGED << sided, record, at, ghost, replica >>
-----------------------------------------------------------------------------
\* What the read leaves in the lock word of the buffered header of a write:
\* the word of the record after an RDMA READ; after an RPC reply the memory is
\* fresh from Rmalloc and holds anything, unless the lock stage fills it in.
BufferedLock(c, k) ==
  CASE k \notin wset[c]  -> {free[c]}
    [] OneSided("read")  -> {IF lock[k] = 0 THEN free[c] \cup {k} ELSE free[c] \ {k}}
    [] OTHER             -> IF OneSided("release") /\ ~OneSided("lock")
                            THEN {free[c], free[c] \cup {k}}
                            ELSE {free[c]}

SetBufferedLock(c, k) ==
  \E f \in BufferedLock(c, k) : free' = [free EXCEPT ![c] = f]

\* rdma_read_val: the READ of the whole record with its header is under way.
ReadRecord(c, k) ==
  /\ Serving(c, k, "read", 0) /\ OneSided("read")
  /\ item' = [item EXCEPT ![c][k] = [seq |-> seq[k], data |-> data[k]]]
  /\ SetBufferedLock(c, k)
  /\ Step(c, k)
  /\ UNCHANGED << sided, record, pc, sets, okay, mac, ghost, replica >>

\* Until it completes, the header or a half may turn out to have been fetched
\* later than the rest.
ReadPart(c, k) ==
  /\ Serving(c, k, "read", 1) /\ OneSided("read")
  /\ \/ /\ item' = [item EXCEPT ![c][k].seq = seq[k]]
        /\ SetBufferedLock(c, k)
     \/ /\ \E n \in 1 .. 2 : item' = [item EXCEPT ![c][k].data[n] = data[k][n]]
        /\ UNCHANGED free
  /\ UNCHANGED << sided, record, pc, sets, pend, at, okay, mac, ghost, replica >>

ReadDone(c, k) ==
  /\ Serving(c, k, "read", 1) /\ OneSided("read")
  /\ Served(c, k)
  /\ UNCHANGED << sided, record, pc, sets, buffers, okay, mac, ghost, replica >>

\* local_get_op in read_write_rpc_handler: the sequence word, the contents,
\* the sequence word again; from the start if it has changed.
GetSeq(c, k) ==
  /\ Serving(c, k, "read", 0) /\ ~OneSided("read")
  /\ item' = [item EXCEPT ![c][k].seq = seq[k]]
  /\ Step(c, k)
  /\ UNCHANGED << sided, record, pc, sets, free, okay, mac, ghost, replica >>

GetHalf(c, k) ==
  /\ ~OneSided("read")
  /\ \E n \in 1 .. 2 :
       /\ Serving(c, k, "read", n)
       /\ item' = [item EXCEPT ![c][k].data[n] = data[k][n]]
  /\ Step(c, k)
  /\ UNCHANGED << sided, record, pc, sets, free, okay, mac, ghost, replica >>

\* Faulty variant: the first look at the sequence word is trusted.
GetRecheckNever(c, k) ==
  /\ Serving(c, k, "read", 3) /\ ~OneSided("read")
  /\ SetBufferedLock(c, k) /\ Served(c, k)
  /\ UNCHANGED << sided, record, pc, sets, item, okay, mac, ghost, replica >>

GetRecheck(c, k) ==
  /\ Serving(c, k, "read", 3) /\ ~OneSided("read")
  /\ IF seq[k] # item[c][k].seq \/ item[c][k].seq = CONFLICT_WRITE_FLAG
     THEN at' = [at EXCEPT ![c][k] = 0] /\ UNCHANGED << pend, free >>
     ELSE SetBufferedLock(c, k) /\ Served(c, k)
  /\ UNCHANGED << sided, record, pc, sets, item, okay, mac, ghost, replica >>

\* commit(): lock_writes sends the write set and fills mac_set_.
Commit(c) ==
  /\ pc[c] = "read" /\ pend[c] = {}
  /\ Stage(c, "lock", wset[c])
  /\ mac' = [mac EXCEPT ![c] = { Home[k] : k \in wset[c] }]
  /\ UNCHANGED << sided, record, sets, buffers, at, okay, ghost, replica >>
-----------------------------------------------------------------------------
\* The buffered lock word after the lock stage: the old word where the
\* compare-and-swap is one-sided; over RPC only a reply that reports the item
\* as locked sets it, and only in a build that releases with verbs.
MarkLocked(c, k, won) ==
  free' = [free EXCEPT ![c] =
    IF OneSided("lock") THEN (IF won THEN @ \cup {k} ELSE @ \ {k})
    ELSE IF won /\ OneSided("release") THEN @ \cup {k} ELSE @]

\* Faulty variant: the word is set without being looked at.
LockItemBlindly(c, k) ==
  /\ Serving(c, k, "lock", 0)
  /\ lock' = [lock EXCEPT ![k] = Word(c)]
  /\ MarkLocked(c, k, TRUE)
  /\ Step(c, k)
  /\ UNCHANGED << sided, seq, data, pc, sets, item, okay, mac, ghost, replica >>

\* The compare-and-swap of local_try_lock_op, or the RDMA one.  The READ
\* posted behind a one-sided swap is made even if the swap lost.
LockItem(c, k) ==
  /\ Serving(c, k, "lock", 0)
  /\ lock[k] = 0
  /\ lock' = [lock EXCEPT ![k] = Word(c)]
  /\ MarkLocked(c, k, TRUE)
  /\ Step(c, k)
  /\ UNCHANGED << sided, seq, data, pc, sets, item, okay, mac, ghost, replica >>

LockLost(c, k) ==
  /\ Serving(c, k, "lock", 0)
  /\ lock[k] # 0
  /\ MarkLocked(c, k, FALSE)
  /\ Failed(c, k)
  /\ UNCHANGED << sided, record, pc, sets, item, mac, ghost, replica >>

\* The sequence word of the locked record against the one that was read.  A
\* record that fails here stays locked until the release.
CheckLocked(c, k) ==
  /\ Serving(c, k, "lock", 1)
  /\ IF seq[k] = item[c][k].seq
     THEN Served(c, k) /\ UNCHANGED okay
     ELSE Failed(c, k)
  /\ UNCHANGED << sided, record, pc, sets, buffers, mac, ghost, replica >>

LockDone(c) ==
  /\ pc[c] = "lock" /\ pend[c] = {} /\ okay[c]
  /\ Stage(c, "validate", rset[c])
  /\ UNCHANGED << sided, record, sets, buffers, at, okay, mac, ghost, replica >>
-----------------------------------------------------------------------------
\* One READ fetches the lock and the sequence word.
ValidateRecord(c, k) ==
  /\ Serving(c, k, "validate", 0) /\ OneSided("validate")
  /\ IF seq[k] = item[c][k].seq /\ lock[k] = 0
     THEN Served(c, k) /\ UNCHANGED okay
     ELSE Failed(c, k)
  /\ UNCHANGED << sided, record, pc, sets, buffers, mac, ghost, replica >>

\* local_validate_op looks at the sequence word first and at the lock then.
ValidateSeq(c, k) ==
  /\ Serving(c, k, "validate", 0) /\ ~OneSided("validate")
  /\ IF seq[k] = item[c][k].seq
     THEN Step(c, k) /\ UNCHANGED okay
     ELSE Failed(c, k)
  /\ UNCHANGED << sided, record, pc, sets, buffers, mac, ghost, replica >>

\* Faulty variant: only the version counts.
ValidateLockIgnored(c, k) ==
  /\ Serving(c, k, "validate", 1) /\ ~OneSided("validate")
  /\ split' = (split \/ seq[k] # item[c][k].seq)
  /\ Served(c, k) /\ UNCHANGED okay
  /\ UNCHANGED << sided, record, pc, sets, buffers, mac, done, begun, torn, replica >>

ValidateLock(c, k) ==
  /\ Serving(c, k, "validate", 1) /\ ~OneSided("validate")
  /\ IF lock[k] = 0
     THEN /\ Served(c, k) /\ UNCHANGED okay
          /\ split' = (split \/ seq[k] # item[c][k].seq)
     ELSE Failed(c, k) /\ UNCHANGED split
  /\ UNCHANGED << sided, record, pc, sets, buffers, mac, done, begun, torn, replica >>

\* What a transaction leaves in the history: the versions it read.
Committed(c) ==
  [id |-> Cardinality(done), w |-> wset[c],
   r |-> [k \in rset[c] \cup wset[c] |-> item[c][k].data[1]]]

\* One version with the sequence word of that version.
Whole(i) == i.data[1] = i.data[2] /\ i.seq = 2 * i.data[1]

\* The transaction is committed.  A writer logs if there are backups.
ValidateDone(c) ==
  /\ pc[c] = "validate" /\ pend[c] = {} /\ okay[c]
  /\ done' = done \cup {Committed(c)}
  /\ torn' = (torn \/ \E k \in rset[c] \cup wset[c] : ~Whole(item[c][k]))
  /\ IF wset[c] # {} /\ rep_factor_ > 0
     THEN Stage(c, "log", {}) /\ Broadcast(c, LogMachines(mac[c], Node[c]))
     ELSE Stage(c, "commit", wset[c]) /\ UNCHANGED wait
  /\ UNCHANGED << sided, record, sets, buffers, at, okay, mac, begun, split, backup >>
-----------------------------------------------------------------------------
\* log_remote: the entries, then the acknowledgments that apply them.
Log(c, m) ==
  /\ pc[c] = "log"
  /\ LogEntry(c, m)
  /\ UNCHANGED << sided, record, pc, sets, buffers, pend, at, okay, mac, ghost >>

LogAck(c) ==
  /\ pc[c] = "log" /\ Answered(c)
  /\ Stage(c, "ack", {})
  /\ Broadcast(c, LogMachines(mac[c], Node[c]))
  /\ UNCHANGED << sided, record, sets, buffers, at, okay, mac, ghost, backup >>

\* The contents the transaction computed from its copy.
NewData(c) == [k \in wset[c] |-> << item[c][k].data[1] + 1, item[c][k].data[2] + 1 >>]

CleanLog(c, m) ==
  /\ pc[c] = "ack"
  /\ clean_log(c, m, wset[c], NewData(c))
  /\ UNCHANGED << sided, record, pc, sets, buffers, pend, at, okay, mac, ghost >>

LogDone(c) ==
  /\ pc[c] = "ack" /\ Answered(c)
  /\ Stage(c, "commit", wset[c])
  /\ UNCHANGED << sided, record, sets, buffers, at, okay, mac, ghost, replica >>
-----------------------------------------------------------------------------
\* write_back_w_rdma: one WRITE of the sequence word and the contents, whose
\* parts land in any order, and behind it one that zeroes the lock.
WriteRecord(c, k) ==
  /\ OneSided("commit") /\ \E n \in 0 .. 1 : Serving(c, k, "commit", n)
  /\ \/ /\ seq[k] # item[c][k].seq + 2
        /\ seq' = [seq EXCEPT ![k] = item[c][k].seq + 2]
        /\ UNCHANGED data
     \/ /\ \E n \in 1 .. 2 :
             /\ data[k][n] # NewData(c)[k][n]
             /\ data' = [data EXCEPT ![k][n] = NewData(c)[k][n]]
        /\ UNCHANGED seq
  /\ at' = [at EXCEPT ![c][k] = 1]
  /\ UNCHANGED << sided, lock, pc, sets, buffers, pend, okay, mac, ghost, replica >>

WriteUnlock(c, k) ==
  /\ Serving(c, k, "commit", 1) /\ OneSided("commit")
  /\ seq[k] = item[c][k].seq + 2 /\ data[k] = NewData(c)[k]
  /\ lock' = [lock EXCEPT ![k] = 0]
  /\ Served(c, k)
  /\ UNCHANGED << sided, seq, data, pc, sets, buffers, okay, mac, ghost, replica >>

\* inplace_write_op in commit_oneshot_handler: the sequence word is flagged
\* (the model keeps old_seq in the item, whose own number is used up), the
\* contents are overwritten, the word is counted up and the lock zeroed.
FlagSeq(c, k) ==
  /\ Serving(c, k, "commit", 0) /\ ~OneSided("commit")
  /\ item' = [item EXCEPT ![c][k].seq = seq[k]]
  /\ seq' = [seq EXCEPT ![k] = CONFLICT_WRITE_FLAG]
  /\ Step(c, k)
  /\ UNCHANGED << sided, lock, data, pc, sets, free, okay, mac, ghost, replica >>

WriteHalf(c, k) ==
  /\ ~OneSided("commit")
  /\ \E n \in 1 .. 2 :
       /\ Serving(c, k, "commit", n)
       /\ data' = [data EXCEPT ![k][n] = NewData(c)[k][n]]
  /\ Step(c, k)
  /\ UNCHANGED << sided, lock, seq, pc, sets, buffers, okay, mac, ghost, replica >>

\* Faulty variant: the flag is left in place.
BumpSeqForgotten(c, k) ==
  /\ Serving(c, k, "commit", 3) /\ ~OneSided("commit")
  /\ Step(c, k)
  /\ UNCHANGED << sided, record, pc, sets, buffers, okay, mac, ghost, replica >>

BumpSeq(c, k) ==
  /\ Serving(c, k, "commit", 3) /\ ~OneSided("commit")
  /\ seq' = [seq EXCEPT ![k] = item[c][k].seq + 2]
  /\ Step(c, k)
  /\ UNCHANGED << sided, lock, data, pc, sets, buffers, okay, mac, ghost, replica >>

ZeroLock(c, k) ==
  /\ Serving(c, k, "commit", 4) /\ ~OneSided("commit")
  /\ lock' = [lock EXCEPT ![k] = 0]
  /\ Served(c, k)
  /\ UNCHANGED << sided, seq, data, pc, sets, buffers, okay, mac, ghost, replica >>

End(c) ==
  /\ pc[c] = "commit" /\ pend[c] = {}
  /\ Over(c)
-----------------------------------------------------------------------------
\* Over RPC the whole write set is sent; verbs are posted for the items whose
\* buffered lock word is 0.
ToRelease(c) == IF OneSided("release") THEN wset[c] \cap free[c] ELSE wset[c]

\* lock_writes or validate_reads has failed.
Abort(c) ==
  /\ pc[c] \in {"lock", "validate"} /\ pend[c] = {} /\ ~okay[c]
  /\ Stage(c, "release", ToRelease(c))
  /\ UNCHANGED << sided, record, sets, buffers, at, okay, mac, ghost, replica >>

\* local_try_release_op swaps the word of the coroutine for 0; the RDMA WRITE
\* zeroes the word whatever it holds.
ReleaseItem(c, k) ==
  /\ Serving(c, k, "release", 0)
  /\ lock' = [lock EXCEPT ![k] = IF OneSided("release") \/ @ = Word(c) THEN 0 ELSE @]
  /\ Served(c, k)
  /\ UNCHANGED << sided, seq, data, pc, sets, buffers, okay, mac, ghost, replica >>

ReleaseDone(c) ==
  /\ pc[c] = "release" /\ pend[c] = {}
  /\ Over(c)
-----------------------------------------------------------------------------
Advance(c) ==
  \/ \E k \in Keys :
       \/ ReadRecord(c, k) \/ ReadPart(c, k) \/ ReadDone(c, k)
       \/ GetSeq(c, k) \/ GetHalf(c, k) \/ GetRecheck(c, k)
       \/ LockItem(c, k) \/ LockLost(c, k) \/ CheckLocked(c, k)
       \/ ValidateRecord(c, k) \/ ValidateSeq(c, k) \/ ValidateLock(c, k)
       \/ WriteRecord(c, k) \/ WriteUnlock(c, k)
       \/ FlagSeq(c, k) \/ WriteHalf(c, k) \/ BumpSeq(c, k) \/ ZeroLock(c, k)
       \/ ReleaseItem(c, k)
  \/ \E m \in Macs : Log(c, m) \/ CleanLog(c, m)
  \/ Commit(c) \/ LockDone(c) \/ ValidateDone(c) \/ LogAck(c) \/ LogDone(c)
  \/ End(c) \/ Abort(c) \/ ReleaseDone(c)

\* The bound on the number of transactions is reached and all of them ended.
Exhausted ==
  /\ \A c \in Cors : pc[c] = "idle"
  /\ begun = MaxTxns[sided]
  /\ UNCHANGED vars

Next == (\E c \in Cors : Begin(c) \/ Advance(c)) \/ Exhausted

Spec == Init /\ [][Next]_vars

\* A coroutine that has work is scheduled again and its requests complete.
FairSpec == Spec /\ \A c \in Cors : WF_vars(Advance(c))
-----------------------------------------------------------------------------
Copies == [seq : Nat, data : Nat \X Nat]

\* Types, and what the batch of a stage is made of: an operation is under way
\* only on an item still to be served, and a coroutine only waits for backups
\* while it logs.
TypeOK ==
  /\ sided \in Builds
  /\ lock \in [Keys -> Nat] /\ seq \in [Keys -> Nat] /\ data \in [Keys -> Nat \X Nat]
  /\ pc \in [Cors -> Stages \cup {"idle", "log", "ack"}]
  /\ rset \in [Cors -> SUBSET Keys] /\ wset \in [Cors -> SUBSET Keys]
  /\ item \in [Cors -> [Keys -> Copies]]
  /\ free \in [Cors -> SUBSET Keys]
  /\ okay \in [Cors -> BOOLEAN]
  /\ mac \in [Cors -> SUBSET Macs] /\ wait \in [Cors -> SUBSET Macs]
  /\ backup \in [Macs -> [Keys -> Nat \X Nat]]
  /\ \A c \in Cors :
       /\ pend[c] \subseteq rset[c] \cup wset[c]
       /\ \A k \in Keys : at[c][k] \in 0 .. 4 /\ (at[c][k] # 0 => k \in pend[c])
       /\ wait[c] # {} => pc[c] \in {"log", "ack"}

\* The items whose contents the transaction can use.
Loaded(c) == (rset[c] \cup wset[c]) \ (IF pc[c] = "read" THEN pend[c] ELSE {})

\* No transaction computes on half of a write, where reads and write-backs go
\* by RPC: every copy handed to it, also to one that will not commit, is one
\* version with the sequence word of that version (the retry loop of
\* local_get_op against inplace_write_op).  A READ is not checked again, and a
\* WRITE does not flag the sequence word: with either one the sequence word of
\* one version can come with contents of another, and no later stage notices.
CopiesWhole ==
  ~OneSided("read") /\ ~OneSided("commit") =>
    \A c \in Cors : \A k \in Loaded(c) : Whole(item[c][k])

\* What check_lock_content asserts in a checked build, and more: from a
\* successful lock_writes until the write back a transaction owns all of its
\* write set as it read it, and a lock word that is set belongs to a
\* transaction that is going to clear it.
LocksOwned ==
  /\ \A c \in Cors : pc[c] \in {"validate", "log", "ack"} =>
       \A k \in wset[c] : lock[k] = Word(c) /\ seq[k] = item[c][k].seq
  /\ \A k \in Keys : lock[k] # 0 =>
       \E c \in Cors :
         /\ lock[k] = Word(c) /\ k \in wset[c]
         /\ pc[c] \in {"lock", "validate", "log", "ack", "release", "commit"}
         /\ pc[c] \in {"release", "commit"} => k \in pend[c]

\* t comes before u in every serial order: u saw a write of t, or u overwrote
\* what t saw.
Before(t, u) ==
  \E k \in DOMAIN t.r \cap DOMAIN u.r :
    \/ k \in t.w /\ t.r[k] < u.r[k]
    \/ k \in u.w /\ t.r[k] <= u.r[k]

\* The committed transactions are serializable: every set of them has one that
\* no other must precede.  lock_writes, validate_reads and write_back are three
\* rounds, so this depends on their order.  The claim stops where a validation
\* over RPC read the sequence word before and the lock word after a write of
\* another worker thread, and where a copy that is no version was committed
\* (by CopiesWhole, with one-sided reads or write-backs only).
Serializable ==
  split \/ torn \/
           \A S \in SUBSET done : S # {} =>
             \E t \in S : \A u \in S \ {t} : ~Before(u, t)

\* A record that nobody has locked is the same on its primary and on all its
\* backups: log_remote and clean_log are over before the lock is given up, and
\* mac_set_ led them to the right machines.
BackupsAgree ==
  \A k \in Keys : lock[k] = 0 =>
    \A m \in mapping_(Home[k]) : backup[m][k] = data[k]

\* Every transaction ends: nothing waits for a lock, and a reader that meets a
\* writer goes round only while that writer is writing.
EveryTxnEnds == \A c \in Cors : pc[c] # "idle" ~> pc[c] = "idle"
=============================================================================
