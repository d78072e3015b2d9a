------------------------------- MODULE TwoPL -------------------------------
(***************************************************************************)
(* The two-phase-locking protocols NOWAIT (src/src/rtx/nowait_rdma.h, .cc) *)
(* and WAITDIE (src/src/rtx/waitdie_rdma.h, .cc and global_lock_manager.h) *)
(* over RPC or over one-sided RDMA verbs.                                  *)
(*                                                                         *)
(* Coroutines run transactions one after another.  Each read and each      *)
(* write call appends an item to the read or the write set and takes the   *)
(* lock word of the record (read locks are exclusive too); commit writes   *)
(* the write set back, unlocking record by record, and then releases the   *)
(* read locks.  A lock call that fails releases everything else and ends   *)
(* the transaction.  Locks are taken by a compare-and-swap at the server   *)
(* (by a handler, or by the network card), so any number of coroutines,    *)
(* worker threads and machines interleave at that granularity.  A batched  *)
(* release or write-back is served record by record, in any order across   *)
(* machines.  RC queue pairs deliver each request exactly once.            *)
(***************************************************************************)
EXTENDS Integers

CONSTANTS
  Cors,       \* coroutines: one running transaction each
  Keys,       \* records
  Values,     \* contents of a record
  Id,         \* Id[c] = node * 80 + worker * 10 + coroutine + 1
  Clocks,     \* readings of get_now()
  WordSpace,  \* number of lock words, 2^64 in the code
  WaitDie,    \* TRUE: WAITDIE, FALSE: NOWAIT
  OneSided,   \* TRUE: ONE_SIDED_READ = 1, FALSE: ONE_SIDED_READ = 0
  Local       \* pairs <<c, k>> with pid = node_id_: k is in c's own memory

\* Ids are positive and fit the 10 low bits of a start time; the lock word
\* keeps at least those bits.  (Ids are meant to be distinct: only NoWaitCycle
\* and NoDeadlock below depend on it.)  The local paths of the one-sided build are
\* assert(false).
ASSUME TwoPLAssumption ==
  /\ Id \in [Cors -> 1 .. 1023]
  /\ Clocks \subseteq Nat
  /\ WordSpace \in Nat \ {0}
  /\ WordSpace % 524288 = 0
  /\ Values # {}
  /\ WaitDie \in BOOLEAN
  /\ OneSided \in BOOLEAN
  /\ Local \subseteq Cors \X Keys
  /\ OneSided => Local = {}

VARIABLES
  lock,   \* lock[k]: header->lock, 0 when free
  value,  \* value[k]: the record behind the header
  pc,     \* pc[c]: where the coroutine is
  ts,     \* ts[c]: txn_start_time
  rset,   \* rset[c]: keys of read_set_
  wset,   \* wset[c]: keys of write_set_
  last,   \* last[c]: the item just appended, until its lock call returns
  buf,    \* buf[c][k]: contents of the item's data_ptr
  reply,  \* reply[c]: the record left in reply_buf_ by the last data reply
  pend,   \* pend[c]: items of the batch under way not yet served
  wrote   \* wrote[c]: items of pend[c] written back but not yet unlocked

store == << lock, value >>
sets == << ts, rset, wset, last >>
vars == << lock, value, pc, ts, rset, wset, last, buf, reply, pend, wrote >>

\* malloc'ed and zeroed buffers hold some value before anything is copied.
Zero == CHOOSE v \in Values : TRUE

Init ==
  /\ lock = [k \in Keys |-> 0]
  /\ value \in [Keys -> Values]
  /\ pc = [c \in Cors |-> "idle"]
  /\ ts = [c \in Cors |-> 0]
  /\ rset = [c \in Cors |-> {}]
  /\ wset = [c \in Cors |-> {}]
  /\ last = [c \in Cors |-> {}]
  /\ buf = [c \in Cors |-> [k \in Keys |-> Zero]]
  /\ reply = [c \in Cors |-> Zero]
  /\ pend = [c \in Cors |-> {}]
  /\ wrote = [c \in Cors |-> {}]
-----------------------------------------------------------------------------
\* Lock words: the shift by 9 drops the high bits of the clock, never the id.
R_LEASE(t) == (t * 512) % WordSpace

LockWord(c, k) == R_LEASE(ts[c]) + (IF k \in wset[c] THEN 1 ELSE 0)

\* Faulty variant: whoever finds the word taken waits.
MustWaitAlways(c, k) == TRUE

\* An older transaction waits for the lock.  lock_rpc_handler and the local
\* path compare the plain lease, the one-sided path the word it would install.
MustWait(c, k) ==
  /\ WaitDie
  /\ (IF OneSided THEN LockWord(c, k) ELSE R_LEASE(ts[c])) < lock[k]

Goto(c, label) == pc' = [pc EXCEPT ![c] = label]
-----------------------------------------------------------------------------
\* begin(): stamp the transaction with the wall clock and the coroutine's id.
Begin(c) ==
  /\ pc[c] = "idle"
  /\ \E t \in Clocks : ts' = [ts EXCEPT ![c] = t * 1024 + Id[c]]
  /\ Goto(c, "exec")
  /\ UNCHANGED << lock, value, rset, wset, last, buf, reply, pend, wrote >>

\* local_read and local_write copy the record before the lock call;
\* remote_read and remote_write only allocate the buffer.
Append(c, k) ==
  /\ last' = [last EXCEPT ![c] = {k}]
  /\ buf' = IF << c, k >> \in Local
            THEN [buf EXCEPT ![c][k] = value[k]]
            ELSE buf
  /\ Goto(c, "lock")
  /\ UNCHANGED << lock, value, ts, reply, pend, wrote >>

\* The callers ask for a record once per transaction.
Fresh(c, k) == pc[c] = "exec" /\ k \notin rset[c] \cup wset[c]

Read(c, k) ==
  /\ Fresh(c, k)
  /\ rset' = [rset EXCEPT ![c] = @ \cup {k}]
  /\ Append(c, k)
  /\ UNCHANGED wset

Write(c, k) ==
  /\ Fresh(c, k)
  /\ wset' = [wset EXCEPT ![c] = @ \cup {k}]
  /\ Append(c, k)
  /\ UNCHANGED rset

\* The call that appended the item returns its index.
Return(c) ==
  /\ last' = [last EXCEPT ![c] = {}]
  /\ Goto(c, "exec")

\* Faulty variant: release_all is left at its default, so the item whose
\* lock was refused is released as well.
FailReleasingAll(c) ==
  /\ Goto(c, "relr")
  /\ pend' = [pend EXCEPT ![c] = rset[c]]
  /\ UNCHANGED << lock, value, ts, rset, wset, last, buf, reply, wrote >>

\* The call failed: release_reads, then release_writes, leaving out the last
\* item of the set the call appended to.
Fail(c) ==
  /\ Goto(c, "relr")
  /\ pend' = [pend EXCEPT ![c] = rset[c] \ last[c]]
  /\ UNCHANGED << lock, value, ts, rset, wset, last, buf, reply, wrote >>

\* Faulty variant: a plain store where the code compares and swaps.
LockGrantedBlindly(c, k) ==
  /\ pc[c] = "lock" /\ k \in last[c]
  /\ lock' = [lock EXCEPT ![k] = LockWord(c, k)]
  /\ IF << c, k >> \in Local
     THEN Return(c)
     ELSE Goto(c, "copy") /\ UNCHANGED last
  /\ UNCHANGED << value, ts, rset, wset, buf, reply, pend, wrote >>

\* The compare-and-swap finds the word free and installs the caller's word.
\* A local caller is done; a remote one still gets the record.
LockGranted(c, k) ==
  /\ pc[c] = "lock" /\ k \in last[c]
  /\ lock[k] = 0
  /\ lock' = [lock EXCEPT ![k] = LockWord(c, k)]
  /\ IF << c, k >> \in Local
     THEN Return(c)
     ELSE Goto(c, "copy") /\ UNCHANGED last
  /\ UNCHANGED << value, ts, rset, wset, buf, reply, pend, wrote >>

\* The word is taken and the caller may not wait.
LockFailed(c, k) ==
  /\ pc[c] = "lock" /\ k \in last[c]
  /\ lock[k] # 0 /\ ~MustWait(c, k)
  /\ Fail(c)

\* lock_rpc_handler parks the request with add_to_waitlist and sends no reply.
LockParked(c, k) ==
  /\ pc[c] = "lock" /\ k \in last[c]
  /\ lock[k] # 0 /\ MustWait(c, k)
  /\ ~OneSided /\ << c, k >> \notin Local
  /\ Goto(c, "wait")
  /\ UNCHANGED << store, sets, buf, reply, pend, wrote >>

\* The one-sided and the local paths try again; nothing has changed.  Between
\* two tries a one-sided caller yields its thread, a local one does not.
LockRetried(c, k) ==
  /\ pc[c] = "lock" /\ k \in last[c]
  /\ lock[k] # 0 /\ MustWait(c, k)
  /\ OneSided \/ << c, k >> \in Local
  /\ UNCHANGED vars

\* Faulty variant: the reply is not copied into the item's buffer.
CopyRecordForgotten(c, k) ==
  /\ pc[c] = "copy" /\ k \in last[c]
  /\ reply' = IF OneSided THEN reply ELSE [reply EXCEPT ![c] = value[k]]
  /\ Return(c)
  /\ UNCHANGED << store, ts, rset, wset, buf, pend, wrote >>

\* The record follows the granted lock: memcpy into the RPC reply, or the
\* RDMA READ posted behind the CAS on the same queue pair.
CopyRecord(c, k) ==
  /\ pc[c] = "copy" /\ k \in last[c]
  /\ buf' = [buf EXCEPT ![c][k] = value[k]]
  /\ reply' = IF OneSided THEN reply ELSE [reply EXCEPT ![c] = value[k]]
  /\ Return(c)
  /\ UNCHANGED << store, ts, rset, wset, pend, wrote >>

\* Faulty variant: the waiter is granted the lock without looking at it.
NotifyGrantedBlindly(c, k) ==
  /\ pc[c] = "wait" /\ k \in last[c]
  /\ lock' = [lock EXCEPT ![k] = LockWord(c, k)]
  /\ buf' = [buf EXCEPT ![c][k] = reply[c]]
  /\ Return(c)
  /\ UNCHANGED << value, ts, rset, wset, reply, pend, wrote >>

\* check_to_notify finds the word of a parked request free: it installs the
\* word and replies with the status byte alone, so that the requester copies
\* whatever reply_buf_ still holds.
NotifyGranted(c, k) ==
  /\ pc[c] = "wait" /\ k \in last[c]
  /\ lock[k] = 0
  /\ lock' = [lock EXCEPT ![k] = LockWord(c, k)]
  /\ buf' = [buf EXCEPT ![c][k] = reply[c]]
  /\ Return(c)
  /\ UNCHANGED << value, ts, rset, wset, reply, pend, wrote >>

\* Faulty variant: the wait list never refuses a parked request.
NotifyFailedNever(c, k) == FALSE /\ Fail(c)

\* Faulty variant: once parked, a request is never refused.
StillWaitsAlways(c, k) == TRUE

\* check_to_notify compares the word a parked request would install with the
\* word it finds: it may be another one than when the request was parked.
StillWaits(c, k) == LockWord(c, k) < lock[k]

\* The parked request is no longer older than the holder: it fails.
NotifyFailed(c, k) ==
  /\ pc[c] = "wait" /\ k \in last[c]
  /\ lock[k] # 0 /\ ~StillWaits(c, k)
  /\ Fail(c)

\* The parked request goes on waiting.
NotifyLater(c, k) ==
  /\ pc[c] = "wait" /\ k \in last[c]
  /\ lock[k] # 0 /\ StillWaits(c, k)
  /\ UNCHANGED vars
-----------------------------------------------------------------------------
\* Faulty variant: the word is released by subtracting a write word.
FreedBySubtraction(c, k) == lock[k] - (R_LEASE(ts[c]) + 1)

\* Releases: the RPC handler and the RDMA write zero the word whatever it
\* holds; local_try_release_op swaps it only if it is the caller's.
Freed(c, k) ==
  IF << c, k >> \in Local /\ lock[k] # LockWord(c, k) THEN lock[k] ELSE 0

ReleaseItem(c, k) ==
  /\ pc[c] \in {"relr", "relw", "relc"} /\ k \in pend[c]
  /\ lock' = [lock EXCEPT ![k] = Freed(c, k)]
  /\ pend' = [pend EXCEPT ![c] = @ \ {k}]
  /\ UNCHANGED << value, pc, sets, buf, reply, wrote >>

\* All replies of release_reads have arrived: release_writes is sent.
ReleaseReadsDone(c) ==
  /\ pc[c] = "relr" /\ pend[c] = {}
  /\ Goto(c, "relw")
  /\ pend' = [pend EXCEPT ![c] = wset[c] \ last[c]]
  /\ UNCHANGED << store, sets, buf, reply, wrote >>

\* The transaction is over: gc_readset and gc_writeset free the items.
End(c) ==
  /\ pc[c] \in {"relw", "relc"} /\ pend[c] = {}
  /\ Goto(c, "idle")
  /\ rset' = [rset EXCEPT ![c] = {}]
  /\ wset' = [wset EXCEPT ![c] = {}]
  /\ last' = [last EXCEPT ![c] = {}]
  /\ buf' = [buf EXCEPT ![c] = [k \in Keys |-> Zero]]
  /\ UNCHANGED << lock, value, ts, reply, pend, wrote >>

\* The transaction has put its new contents into the buffers of the write
\* set and commits: the write-back of the whole write set is sent.
Commit(c) ==
  /\ pc[c] = "exec"
  /\ \E new \in [wset[c] -> Values] :
       buf' = [buf EXCEPT ![c] =
                 [k \in Keys |-> IF k \in wset[c] THEN new[k] ELSE @[k]]]
  /\ Goto(c, "wb")
  /\ pend' = [pend EXCEPT ![c] = wset[c]]
  /\ UNCHANGED << store, sets, reply, wrote >>

\* Faulty variant: only the unlock is posted, the record is not written.
WriteItemLost(c, k) ==
  /\ pc[c] = "wb" /\ k \in pend[c] \ wrote[c]
  /\ wrote' = [wrote EXCEPT ![c] = @ \cup {k}]
  /\ UNCHANGED << lock, value, pc, sets, buf, reply, pend >>

\* inplace_write_op, or the first of the two chained RDMA writes.
WriteItem(c, k) ==
  /\ pc[c] = "wb" /\ k \in pend[c] \ wrote[c]
  /\ value' = [value EXCEPT ![k] = buf[c][k]]
  /\ wrote' = [wrote EXCEPT ![c] = @ \cup {k}]
  /\ UNCHANGED << lock, pc, sets, buf, reply, pend >>

\* The unlock that follows the write of the record.
UnlockItem(c, k) ==
  /\ pc[c] = "wb" /\ k \in wrote[c]
  /\ lock' = [lock EXCEPT ![k] = 0]
  /\ wrote' = [wrote EXCEPT ![c] = @ \ {k}]
  /\ pend' = [pend EXCEPT ![c] = @ \ {k}]
  /\ UNCHANGED << value, pc, sets, buf, reply >>

\* All replies of write_back have arrived: release_reads is sent.
WriteBackDone(c) ==
  /\ pc[c] = "wb" /\ pend[c] = {}
  /\ Goto(c, "relc")
  /\ pend' = [pend EXCEPT ![c] = rset[c]]
  /\ UNCHANGED << store, sets, buf, reply, wrote >>
-----------------------------------------------------------------------------
\* Everything a started transaction does.
Step(c) ==
  \/ \E k \in Keys :
       \/ Read(c, k) \/ Write(c, k)
       \/ LockGranted(c, k) \/ LockFailed(c, k) \/ LockParked(c, k)
       \/ LockRetried(c, k) \/ CopyRecord(c, k)
       \/ NotifyGranted(c, k) \/ NotifyFailed(c, k) \/ NotifyLater(c, k)
       \/ ReleaseItem(c, k) \/ WriteItem(c, k) \/ UnlockItem(c, k)
  \/ ReleaseReadsDone(c) \/ End(c) \/ Commit(c) \/ WriteBackDone(c)

Next == \E c \in Cors : Begin(c) \/ Step(c)

Spec == Init /\ [][Next]_vars

\* A local caller that waits goes round without yielding: neither the other
\* coroutines of its thread nor the handlers and the wait list that the thread
\* serves for the workers of other machines get their turn.
Spinning(c) ==
  /\ pc[c] = "lock"
  /\ \E k \in last[c] : << c, k >> \in Local /\ lock[k] # 0 /\ MustWait(c, k)

Hindered(c) == \E d \in Cors \ {c} : Spinning(d)

\* The worker loop polls requests, completions and the wait list for ever and
\* resumes every coroutine that is ready: no started transaction is neglected,
\* except while a local caller spins, who may have the thread it needs.
FairSpec == Spec /\ \A c \in Cors : WF_vars(Step(c) /\ ~Hindered(c))
-----------------------------------------------------------------------------
\* A transaction that has not yet committed or failed.
Active(c) == pc[c] \in {"exec", "lock", "copy", "wait"}

\* The items whose read or write call has returned successfully.
Locked(c) == (rset[c] \cup wset[c]) \ last[c]

\* The records whose lock word belongs to c.
Held(c) == { k \in Keys :
  \/ pc[c] \in {"exec", "lock", "wait"} /\ k \in Locked(c)
  \/ pc[c] = "copy" /\ k \in rset[c] \cup wset[c]
  \/ pc[c] = "relr" /\ k \in pend[c] \cup (wset[c] \ last[c])
  \/ pc[c] \in {"relw", "relc"} /\ k \in pend[c]
  \/ pc[c] = "wb" /\ k \in pend[c] \cup rset[c] }

\* Every variable has its type.
TypeOK ==
  /\ lock \in [Keys -> Nat]
  /\ value \in [Keys -> Values]
  /\ pc \in [Cors -> {"idle", "exec", "lock", "wait", "copy",
                      "relr", "relw", "wb", "relc"}]
  /\ ts \in [Cors -> Nat]
  /\ rset \in [Cors -> SUBSET Keys]
  /\ wset \in [Cors -> SUBSET Keys]
  /\ last \in [Cors -> SUBSET Keys]
  /\ buf \in [Cors -> [Keys -> Values]]
  /\ reply \in [Cors -> Values]
  /\ pend \in [Cors -> SUBSET Keys]
  /\ wrote \in [Cors -> SUBSET Keys]

\* A running transaction carries a stamp of its own coroutine.
StampOK ==
  \A c \in Cors : pc[c] # "idle" => \E t \in Clocks : ts[c] = t * 1024 + Id[c]

\* How the sets of a transaction relate at each point of its life.
PhaseOf(c) ==
  /\ rset[c] \cap wset[c] = {}
  /\ last[c] \subseteq rset[c] \cup wset[c]
  /\ \A j, k \in last[c] : j = k
  /\ pc[c] \in {"idle", "exec", "wb", "relc"} => last[c] = {}
  /\ pc[c] = "idle" => rset[c] = {} /\ wset[c] = {}
  /\ pc[c] = "idle" \/ Active(c) => pend[c] = {}
  /\ pc[c] # "wb" => wrote[c] = {}
  /\ pc[c] = "wb" => wrote[c] \subseteq pend[c] /\ pend[c] \subseteq wset[c]
  /\ pc[c] = "relr" => pend[c] \subseteq rset[c] \ last[c]
  /\ pc[c] = "relw" => pend[c] \subseteq wset[c] \ last[c]
  /\ pc[c] = "relc" => pend[c] \subseteq rset[c]
  /\ pc[c] = "wait" => WaitDie /\ ~OneSided

PhaseOK == \A c \in Cors : PhaseOf(c)

\* A lock word is non-zero exactly while one transaction holds the record,
\* and it is then that transaction's word: two transactions never hold the
\* same record, no word is leaked by a failed or finished transaction, and
\* the words release_rpc_handler asserts (nowait_rdma.cc, lines 755 and 766)
\* are the words it finds.
LockOwnership ==
  \A k \in Keys :
    /\ lock[k] # 0 => \E c \in Cors : k \in Held(c)
    /\ \A c \in Cors : k \in Held(c) => lock[k] = LockWord(c, k) /\ lock[k] # 0
    /\ \A c, d \in Cors : k \in Held(c) \cap Held(d) => c = d

\* "get the read lock of the record and actually read" (nowait_rdma.h:444):
\* what a read or write call handed to a running transaction is the contents
\* of the record for as long as the transaction runs.
LockedReadsCurrent ==
  \A c \in Cors : Active(c) => \A k \in Locked(c) : buf[c][k] = value[k]

\* The refinement mapping to the serial store: a transaction takes effect
\* when commit sends the write-back, so records still to be written count
\* with their new contents.
Pending(c) == IF pc[c] = "wb" THEN pend[c] \ wrote[c] ELSE {}

AbsStore == [k \in Keys |->
  IF \E c \in Cors : k \in Pending(c)
  THEN buf[CHOOSE c \in Cors : k \in Pending(c)][k]
  ELSE value[k]]

AbsSeen == [c \in Cors |->
  [k \in (IF Active(c) THEN Locked(c) ELSE {}) |-> buf[c][k]]]

AbsStatus == [c \in Cors |->
  IF Active(c) THEN "active"
  ELSE IF pc[c] \in {"relr", "relw"} THEN "aborted"
  ELSE IF pc[c] \in {"wb", "relc"} THEN "committed"
  ELSE "idle"]

Serial == INSTANCE SerialStore
            WITH Txns <- Cors, store <- AbsStore, seen <- AbsSeen,
                 status <- AbsStatus

\* Committed transactions are strictly serializable: every step of the lock
\* protocol is a step of the serial store or leaves it alone.
Serializable == Serial!Spec

\* c asks for a record that d holds and goes on waiting as long as d holds it.
WaitsFor(c, d) ==
  \E k \in last[c] :
    /\ k \in Held(d)
    /\ \/ pc[c] = "lock" /\ MustWait(c, k)
       \/ pc[c] = "wait" /\ StillWaits(c, k)

\* Waiting never closes a cycle: in every set of coroutines there is one that
\* waits for none of them.  Neither overtaking on the wait list nor a wrapped
\* lock word, nor the comparison of a bare lease with a writer's word, makes
\* two transactions each the older one.
NoWaitCycle ==
  \A D \in SUBSET Cors : D # {} => \E c \in D : \A d \in D : ~WaitsFor(c, d)

\* A transaction that begins ends, whatever the others do: nobody waits
\* under NOWAIT, so retries elsewhere cannot hold it up.
EveryTxnEnds == \A c \in Cors : (pc[c] # "idle") ~> (pc[c] = "idle")

\* Waiting cannot close a cycle: once no transaction begins any more, every
\* coroutine comes to rest, even though a parked request may be overtaken by
\* an older one that takes the lock first.  One thing can prevent it, and
\* nothing else: a local caller that goes on spinning because the thread it
\* keeps busy is the one that would have to free the record.
NoDeadlock ==
  <>[][\A c \in Cors : ~Begin(c)]_vars =>
    \/ <>[](\A c \in Cors : pc[c] = "idle")
    \/ <>[](\E c \in Cors : Spinning(c))
=============================================================================
