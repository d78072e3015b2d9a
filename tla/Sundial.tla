------------------------------ MODULE Sundial ------------------------------
(***************************************************************************)
(* SUNDIAL (src/src/rtx/sundial_rdma.h, .cc): logical leases.  The header  *)
(* of a record holds a lock word and a lease [wts, rts]; a transaction     *)
(* reads without locking, locks what it writes, and picks a commit id that *)
(* lies in every lease it read and behind every lease it overwrites.  The  *)
(* leases that end before the commit id are renewed when it commits.       *)
(*                                                                         *)
(* A step is one access to a word of the header or to a half of the        *)
(* contents, and the steps of all coroutines interleave freely: a machine  *)
(* serves RPCs with several worker threads, and an RDMA READ or WRITE of a *)
(* record goes over several cache lines.  Nothing in the code joins the    *)
(* accesses: a copy is a look at the record in which every part may turn   *)
(* out to be of a later moment, and a new version lands part by part.      *)
(***************************************************************************)
EXTENDS Integers, Sequences

CONSTANTS
  Cors,      \* coroutines: one running transaction each
  Keys,      \* records
  Home,      \* Home[k]: the machine that stores record k
  Id,        \* Id[c] = node * 200 + worker * 20 + coroutine + 1
  Clocks,    \* readings of get_now()
  Reads,     \* Reads[c]: the records the transactions of c may read
  Writes,    \* Writes[c]: the records the transactions of c may write
  MaxTxns    \* bound: transactions begun in a run

ASSUME SundialAssumption ==
  /\ Id \in [Cors -> 1 .. 2047]
  /\ \A c, d \in Cors : Id[c] = Id[d] => c = d
  /\ Clocks \subseteq Nat
  /\ Reads \in [Cors -> SUBSET Keys]
  /\ Writes \in [Cors -> SUBSET Keys]
  /\ MaxTxns \in Nat

VARIABLES
  verbs,   \* the build: TRUE for ONE_SIDED_READ = 1, FALSE for RPC
  lock,    \* lock[k]: header->lock, 0 when free
  seq,     \* seq[k]: header->seq, the pair of WTS and RTS
  data,    \* data[k]: of which version each half of the contents is
  hist,    \* hist[k]: commit ids of the versions of k that were written
  lease,   \* lease[k][i]: the latest commit id of a committed reader of version i
  pc,      \* pc[c]: where the coroutine is
  ts,      \* ts[c]: txn_start_time
  cid,     \* cid[c]: commit_id_, kept from one transaction to the next
  rset,    \* rset[c]: keys of read_set_
  wset,    \* wset[c]: keys of write_set_
  last,    \* last[c]: the item whose read or write call has not returned
  item,    \* item[c][k]: wts and rts of the item, then those it will write
  ver,     \* ver[c][k]: the contents at data_ptr
  hdr,     \* hdr[c][k]: the header a renewal has looked at
  pend,    \* pend[c]: items of the batch under way not yet served
  open,    \* open[c]: items of pend[c] whose service has begun
  left,    \* left[c][k]: halves (1, 2) and word (3) that have not landed
  renewed, \* renewed[c]: all_renew_status
  begun,   \* transactions begun so far
  stray,   \* records of which a release zeroed the lock of another transaction
  raced,   \* records whose header a renewal put back: see RenewItem
  over     \* over[c]: records written while c copied them

record == << lock, seq, data, hist, lease >>
ghost == << begun, stray, raced, over >>
txn == << ts, cid, rset, wset, last, item, ver >>
batch == << hdr, pend, open, left, renewed >>
vars == << verbs, lock, seq, data, hist, lease, pc, ts, cid, rset, wset, last,
           item, ver, hdr, pend, open, left, renewed, begun, stray, raced, over >>

Lease(w, r) == [wts |-> w, rts |-> r]
Larger(a, b) == IF a > b THEN a ELSE b

\* Both halves of the contents of version v.
Contents(v) == [n \in 1 .. 2 |-> v]

\* CONFLICT_WRITE_FLAG, 73, read as a lease.
ConflictFlag == Lease(0, 73)

Init ==
  /\ verbs \in BOOLEAN
  /\ lock = [k \in Keys |-> 0]
  /\ seq = [k \in Keys |-> Lease(0, 0)]
  /\ data = [k \in Keys |-> Contents(1)]
  /\ hist = [k \in Keys |-> << 0 >>]
  /\ lease = [k \in Keys |-> << 0 >>]
  /\ pc = [c \in Cors |-> "idle"]
  /\ ts = [c \in Cors |-> 0]
  /\ cid = [c \in Cors |-> 0]
  /\ rset = [c \in Cors |-> {}]
  /\ wset = [c \in Cors |-> {}]
  /\ last = [c \in Cors |-> {}]
  /\ item = [c \in Cors |-> [k \in Keys |-> Lease(0, 0)]]
  /\ ver = [c \in Cors |-> [k \in Keys |-> Contents(0)]]
  /\ hdr = [c \in Cors |-> [k \in Keys |-> << 0, Lease(0, 0) >>]]
  /\ pend = [c \in Cors |-> {}]
  /\ open = [c \in Cors |-> {}]
  /\ left = [c \in Cors |-> [k \in Keys |-> {}]]
  /\ renewed = [c \in Cors |-> TRUE]
  /\ begun = 0
  /\ stray = {}
  /\ raced = {}
  /\ over = [c \in Cors |-> {}]

Goto(c, label) == pc' = [pc EXCEPT ![c] = label]
Serve(c, S) == pend' = [pend EXCEPT ![c] = S]
-----------------------------------------------------------------------------
\* The transaction is over.  begin() clears the sets; nothing looks at them
\* between the end of a transaction and the next begin(), so that the model
\* clears them here, together with the buffers that die with them.
Over(c) ==
  /\ Goto(c, "idle")
  /\ rset' = [rset EXCEPT ![c] = {}]
  /\ wset' = [wset EXCEPT ![c] = {}]
  /\ last' = [last EXCEPT ![c] = {}]
  /\ item' = [item EXCEPT ![c] = [k \in Keys |-> Lease(0, 0)]]
  /\ ver' = [ver EXCEPT ![c] = [k \in Keys |-> Contents(0)]]
  /\ hdr' = [hdr EXCEPT ![c] = [k \in Keys |-> << 0, Lease(0, 0) >>]]
  /\ renewed' = [renewed EXCEPT ![c] = TRUE]
  /\ over' = [over EXCEPT ![c] = {}]

\* begin(): the transaction is stamped; commit_id_ stays.
Begin(c) ==
  /\ pc[c] = "idle" /\ begun < MaxTxns
  /\ begun' = begun + 1
  /\ \E t \in Clocks : ts' = [ts EXCEPT ![c] = t * 2048 + Id[c]]
  /\ Goto(c, "exec")
  /\ UNCHANGED << verbs, record, cid, rset, wset, last, item, ver, batch,
                  stray, raced, over >>

\* The callers ask for a record once per transaction.
Fresh(c, k) == pc[c] = "exec" /\ k \notin rset[c] \cup wset[c]

\* remote_read and remote_write append the item and send its request.
Read(c, k) ==
  /\ Fresh(c, k) /\ k \in Reads[c]
  /\ rset' = [rset EXCEPT ![c] = @ \cup {k}]
  /\ last' = [last EXCEPT ![c] = {k}]
  /\ Goto(c, "read")
  /\ UNCHANGED << verbs, record, ts, cid, wset, item, ver, batch, ghost >>

Write(c, k) ==
  /\ Fresh(c, k) /\ k \in Writes[c]
  /\ wset' = [wset EXCEPT ![c] = @ \cup {k}]
  /\ last' = [last EXCEPT ![c] = {k}]
  /\ Goto(c, "lock")
  /\ UNCHANGED << verbs, record, ts, cid, rset, item, ver, batch, ghost >>

\* The call returns the index of its item.
Return(c) == last' = [last EXCEPT ![c] = {}] /\ Goto(c, "exec")

\* The call fails: release_writes frees all of the write set but the item
\* whose lock was refused, and the transaction is over.
Fail(c) ==
  /\ Goto(c, "relf")
  /\ Serve(c, wset[c] \ last[c])
  /\ UNCHANGED << verbs, record, txn, hdr, open, left, renewed, ghost >>

\* The copy of a record and its lease: prepare_buf in the handlers, the RDMA
\* READ of try_read_rdma ("atomicly read?"), or the one posted behind the
\* compare-and-swap of try_lock_read_rdma.  A read copies whether or not the
\* record is locked, and no copy looks whether it is being written.
ReadRecord(c, k) ==
  /\ pc[c] \in {"read", "copy"} /\ k \in last[c]
  /\ item' = [item EXCEPT ![c][k] = seq[k]]
  /\ ver' = [ver EXCEPT ![c][k] = data[k]]
  /\ over' = [over EXCEPT ![c] =
       IF \E d \in Cors : pc[d] = "upd" /\ k \in open[d] THEN @ \cup {k} ELSE @]
  /\ Goto(c, "reading")
  /\ UNCHANGED << verbs, record, ts, cid, rset, wset, last, batch, begun,
                  stray, raced >>

\* Until it is done the lease or a half may turn out to be of a later moment.
ReadPart(c, k) ==
  /\ pc[c] = "reading" /\ k \in last[c]
  /\ \/ /\ item' = [item EXCEPT ![c][k] = seq[k]]
        /\ UNCHANGED ver
     \/ /\ \E n \in 1 .. 2 : ver' = [ver EXCEPT ![c][k][n] = data[k][n]]
        /\ UNCHANGED item
  /\ UNCHANGED << verbs, record, pc, ts, cid, rset, wset, last, batch, ghost >>

\* A reader commits in the lease of what it read, a writer behind the lease of
\* what it overwrites.  The one-sided read goes on to look once more.
ReadDone(c, k) ==
  /\ pc[c] = "reading" /\ k \in last[c]
  /\ IF verbs /\ k \in rset[c]
     THEN Goto(c, "reread") /\ UNCHANGED << cid, last >>
     ELSE /\ Return(c)
          /\ cid' = [cid EXCEPT ![c] = Larger(@,
               IF k \in rset[c] THEN item[c][k].wts ELSE item[c][k].rts + 1)]
  /\ UNCHANGED << verbs, record, ts, rset, wset, item, ver, batch, ghost >>

\* The second READ of try_read_rdma: the version must still be the same.
RereadOK(c, k) ==
  /\ pc[c] = "reread" /\ k \in last[c]
  /\ seq[k].wts = item[c][k].wts
  /\ cid' = [cid EXCEPT ![c] = Larger(@, item[c][k].wts)]
  /\ Return(c)
  /\ UNCHANGED << verbs, record, ts, rset, wset, item, ver, batch, ghost >>

RereadFailed(c, k) ==
  /\ pc[c] = "reread" /\ k \in last[c]
  /\ seq[k].wts # item[c][k].wts
  /\ Fail(c)
-----------------------------------------------------------------------------
\* Faulty variants: the lock is taken whatever the word; an older transaction
\* waits, and so does a younger one.
LockGrantedBlindly(c, k) ==
  /\ pc[c] = "lock" /\ k \in last[c]
  /\ lock' = [lock EXCEPT ![k] = ts[c]]
  /\ Goto(c, "copy")
  /\ UNCHANGED << verbs, seq, data, hist, lease, txn, batch, ghost >>
MustWaitAlways(c, k) == TRUE

\* The older transaction waits.
MustWait(c, k) == ts[c] < lock[k]

\* The word is free and the compare-and-swap installs the stamp; the copy of
\* the record comes next.
LockGranted(c, k) ==
  /\ pc[c] = "lock" /\ k \in last[c]
  /\ lock[k] = 0
  /\ lock' = [lock EXCEPT ![k] = ts[c]]
  /\ Goto(c, "copy")
  /\ UNCHANGED << verbs, seq, data, hist, lease, txn, batch, ghost >>

LockFailed(c, k) ==
  /\ pc[c] = "lock" /\ k \in last[c]
  /\ lock[k] # 0 /\ ~MustWait(c, k)
  /\ Fail(c)

\* lock_read_rpc_handler parks the request and sends no reply.
LockParked(c, k) ==
  /\ pc[c] = "lock" /\ k \in last[c]
  /\ lock[k] # 0 /\ MustWait(c, k) /\ ~verbs
  /\ Goto(c, "wait")
  /\ UNCHANGED << verbs, record, txn, batch, ghost >>

\* try_lock_read_rdma yields and tries again.
LockRetried(c, k) ==
  /\ pc[c] = "lock" /\ k \in last[c]
  /\ lock[k] # 0 /\ MustWait(c, k) /\ verbs
  /\ UNCHANGED vars

\* check_to_notify serves a parked request: it locks and copies, refuses, or
\* leaves the request where it is.
NotifyGranted(c, k) ==
  /\ pc[c] = "wait" /\ k \in last[c]
  /\ lock[k] = 0
  /\ lock' = [lock EXCEPT ![k] = ts[c]]
  /\ Goto(c, "copy")
  /\ UNCHANGED << verbs, seq, data, hist, lease, txn, batch, ghost >>

NotifyFailed(c, k) ==
  /\ pc[c] = "wait" /\ k \in last[c]
  /\ lock[k] # 0 /\ ~MustWait(c, k)
  /\ Fail(c)

NotifyLater(c, k) ==
  /\ pc[c] = "wait" /\ k \in last[c]
  /\ lock[k] # 0 /\ MustWait(c, k)
  /\ UNCHANGED vars
-----------------------------------------------------------------------------
\* Faulty variant: the request is answered and the word left alone.
ReleaseItemKept(c, k) ==
  /\ pc[c] \in {"relf", "relp", "relc"} /\ k \in pend[c]
  /\ Serve(c, pend[c] \ {k})
  /\ stray' = IF lock[k] \in {0, ts[c]} THEN stray ELSE stray \cup {k}
  /\ UNCHANGED << verbs, record, pc, txn, hdr, open, left, renewed, begun,
                  raced, over >>

\* release_rpc_handler and the RDMA WRITE of release_writes zero the word
\* whatever it holds.
ReleaseItem(c, k) ==
  /\ pc[c] \in {"relf", "relp", "relc"} /\ k \in pend[c]
  /\ lock' = [lock EXCEPT ![k] = 0]
  /\ Serve(c, pend[c] \ {k})
  /\ stray' = IF lock[k] \in {0, ts[c]} THEN stray ELSE stray \cup {k}
  /\ UNCHANGED << verbs, seq, data, hist, lease, pc, txn, hdr, open, left,
                  renewed, begun, raced, over >>

\* The batch is answered.  prepare() has released the write set; commit(),
\* which sees only that prepare() failed, releases it once more.
ReleaseDone(c) ==
  /\ pc[c] \in {"relf", "relp", "relc"} /\ pend[c] = {}
  /\ IF pc[c] = "relp"
     THEN /\ Goto(c, "relc")
          /\ Serve(c, wset[c])
          /\ UNCHANGED << txn, hdr, renewed, over >>
     ELSE Over(c) /\ UNCHANGED << ts, cid, pend >>
  /\ UNCHANGED << verbs, record, open, left, begun, stray, raced >>
-----------------------------------------------------------------------------
\* prepare(): over RPC only the leases that end before the commit id are sent
\* for renewal; the one-sided path fetches every header first.
Prepare(c) ==
  /\ pc[c] = "exec"
  /\ renewed' = [renewed EXCEPT ![c] = TRUE]
  /\ IF verbs
     THEN Goto(c, "fetch") /\ Serve(c, rset[c])
     ELSE /\ Goto(c, "renew")
          /\ Serve(c, { k \in rset[c] : item[c][k].rts < cid[c] })
  /\ UNCHANGED << verbs, record, txn, hdr, open, left, ghost >>

\* A look at the header: try_renew_all_lease_rdma reads those of the whole
\* read set before it renews any, renew_lease_local one after the other.
FetchHeader(c, k) ==
  /\ pc[c] = (IF verbs THEN "fetch" ELSE "renew") /\ k \in pend[c] \ open[c]
  /\ hdr' = [hdr EXCEPT ![c][k] = << lock[k], seq[k] >>]
  /\ open' = [open EXCEPT ![c] = @ \cup {k}]
  /\ UNCHANGED << verbs, record, pc, txn, pend, left, renewed, ghost >>

\* One of its two words may be of a later moment.
FetchPart(c, k) ==
  /\ pc[c] = (IF verbs THEN "fetch" ELSE "renew") /\ k \in open[c]
  /\ hdr' = [hdr EXCEPT ![c][k] = << lock[k], @[2] >>]
     \/ hdr' = [hdr EXCEPT ![c][k] = << @[1], seq[k] >>]
  /\ UNCHANGED << verbs, record, pc, txn, pend, open, left, renewed, ghost >>

FetchDone(c) ==
  /\ pc[c] = "fetch" /\ open[c] = pend[c]
  /\ Goto(c, "renew")
  /\ UNCHANGED << verbs, record, txn, batch, ghost >>

\* Faulty variant: the lock word is not looked at.
RenewableLocked(c, k) == item[c][k].wts = hdr[c][k][2].wts

\* renew_lease_local: same version, and nobody about to overwrite it unless
\* the lease reaches the commit id already.
Renewable(c, k) ==
  LET l == hdr[c][k][1] h == hdr[c][k][2]
  IN item[c][k].wts = h.wts /\ ~(cid[c] > h.rts /\ l # 0)

\* The store of a renewal puts the header back: since the renewal looked at
\* it the record was locked, or got a new version, or a longer lease.
PutsBack(c, k) ==
  /\ hdr[c][k] # << lock[k], seq[k] >>
  /\ \/ lock[k] # 0
     \/ seq[k].wts # hdr[c][k][2].wts
     \/ seq[k].rts > cid[c]

Served(c, k) ==
  /\ Serve(c, pend[c] \ {k})
  /\ open' = [open EXCEPT ![c] = @ \ {k}]

\* The lease is extended to the commit id with a plain store ("atomic?").
RenewItem(c, k) ==
  /\ pc[c] = "renew" /\ k \in open[c]
  /\ Renewable(c, k)
  /\ LET h == hdr[c][k][2] IN
       IF h.rts < cid[c]
       THEN /\ seq' = [seq EXCEPT ![k] = Lease(h.wts, cid[c])]
            /\ raced' = IF PutsBack(c, k) THEN raced \cup {k} ELSE raced
       ELSE UNCHANGED << seq, raced >>
  /\ Served(c, k)
  /\ UNCHANGED << verbs, lock, data, hist, lease, pc, txn, hdr, left, renewed,
                  begun, stray, over >>

\* A refused renewal: the handlers go on with the other items, the one-sided
\* loop returns at once.
RenewRefused(c, k) ==
  /\ pc[c] = "renew" /\ k \in open[c]
  /\ ~Renewable(c, k)
  /\ IF verbs
     THEN /\ Goto(c, "relp") /\ Serve(c, wset[c])
          /\ open' = [open EXCEPT ![c] = {}]
          /\ UNCHANGED renewed
     ELSE /\ renewed' = [renewed EXCEPT ![c] = FALSE]
          /\ Served(c, k)
          /\ UNCHANGED pc
  /\ UNCHANGED << verbs, record, txn, hdr, left, ghost >>

\* All replies are in and one of them is a failure: prepare() releases.
PrepareFailed(c) ==
  /\ pc[c] = "renew" /\ pend[c] = {} /\ ~renewed[c]
  /\ Goto(c, "relp")
  /\ Serve(c, wset[c])
  /\ UNCHANGED << verbs, record, txn, hdr, open, left, renewed, ghost >>

\* The header that came with the copy is that of version i.
ReadVersion(c, k, i) == i \in DOMAIN hist[k] /\ item[c][k].wts = hist[k][i]

\* Every lease holds at the commit id: the transaction is committed, and
\* try_update sends the write set.
Commit(c) ==
  /\ pc[c] = "renew" /\ pend[c] = {} /\ renewed[c]
  /\ lease' = [k \in Keys |-> [i \in DOMAIN lease[k] |->
       IF k \in rset[c] /\ ReadVersion(c, k, i)
       THEN Larger(lease[k][i], cid[c]) ELSE lease[k][i]]]
  /\ Goto(c, "upd")
  /\ Serve(c, wset[c])
  /\ UNCHANGED << verbs, lock, seq, data, hist, txn, hdr, open, left, renewed,
                  ghost >>

\* Faulty variant: the word is counted down.
UpdatedBackwards(c, k) ==
  IF verbs THEN Lease(cid[c], cid[c]) ELSE Lease(seq[k].wts, seq[k].rts - 2)

\* The header of the new version: the one-sided path writes the commit id as
\* both ends of the lease; inplace_write_op adds 2 to the word and leaves the
\* commit id in node->read_lock, which nobody reads.
Updated(c, k) ==
  IF verbs THEN Lease(cid[c], cid[c]) ELSE Lease(seq[k].wts, seq[k].rts + 2)

\* The new version is on its way: the RDMA WRITE of sequence word and contents
\* is posted; inplace_write_op has flagged the word.  The items of a machine
\* are served one after the other, by the handler or by the queue pair.
UpdateItem(c, k) ==
  /\ pc[c] = "upd" /\ k \in pend[c] \ open[c]
  /\ \A j \in open[c] : Home[j] # Home[k]
  /\ item' = [item EXCEPT ![c][k] = Updated(c, k)]
  /\ ver' = [ver EXCEPT ![c][k] = Contents(Len(hist[k]) + 1)]
  /\ left' = [left EXCEPT ![c][k] = 1 .. 3]
  /\ open' = [open EXCEPT ![c] = @ \cup {k}]
  /\ seq' = IF verbs THEN seq ELSE [seq EXCEPT ![k] = ConflictFlag]
  /\ hist' = [hist EXCEPT ![k] = Append(@, cid[c])]
  /\ lease' = [lease EXCEPT ![k] = Append(@, 0)]
  /\ over' = [d \in Cors |->
       IF pc[d] = "reading" /\ k \in last[d] THEN over[d] \cup {k} ELSE over[d]]
  /\ UNCHANGED << verbs, lock, data, pc, ts, cid, rset, wset, last, hdr, pend,
                  renewed, begun, stray, raced >>

\* inplace_write_op copies the contents and then stores the word; over verbs
\* the word lands at any moment.  Of the halves, which nothing else tells
\* apart, the one that lands first is the first.
UpdatePart(c, k) ==
  /\ pc[c] = "upd" /\ k \in open[c]
  /\ \E n \in left[c][k] :
       /\ (verbs /\ n = 3) \/ \A m \in left[c][k] : n <= m
       /\ left' = [left EXCEPT ![c][k] = @ \ {n}]
       /\ IF n = 3
          THEN /\ seq' = [seq EXCEPT ![k] = item[c][k]]
               /\ UNCHANGED data
          ELSE /\ data' = [data EXCEPT ![k][n] = ver[c][k][n]]
               /\ UNCHANGED seq
  /\ UNCHANGED << verbs, lock, hist, lease, pc, txn, hdr, pend, open, renewed,
                  ghost >>

\* The lock word is zeroed behind all of them.
UnlockItem(c, k) ==
  /\ pc[c] = "upd" /\ k \in open[c]
  /\ left[c][k] = {}
  /\ lock' = [lock EXCEPT ![k] = 0]
  /\ Served(c, k)
  /\ UNCHANGED << verbs, seq, data, hist, lease, pc, txn, hdr, left, renewed,
                  ghost >>

End(c) ==
  /\ pc[c] = "upd" /\ pend[c] = {}
  /\ Over(c)
  /\ UNCHANGED << verbs, record, ts, cid, pend, open, left, begun, stray,
                  raced >>
-----------------------------------------------------------------------------
Step(c) ==
  \/ \E k \in Keys :
       \/ Read(c, k) \/ Write(c, k)
       \/ ReadRecord(c, k) \/ ReadPart(c, k) \/ ReadDone(c, k)
       \/ RereadOK(c, k) \/ RereadFailed(c, k)
       \/ LockGranted(c, k) \/ LockFailed(c, k)
       \/ LockParked(c, k) \/ LockRetried(c, k)
       \/ NotifyGranted(c, k) \/ NotifyFailed(c, k) \/ NotifyLater(c, k)
       \/ ReleaseItem(c, k) \/ FetchHeader(c, k) \/ FetchPart(c, k)
       \/ RenewItem(c, k) \/ RenewRefused(c, k)
       \/ UpdateItem(c, k) \/ UpdatePart(c, k) \/ UnlockItem(c, k)
  \/ ReleaseDone(c) \/ Prepare(c) \/ FetchDone(c) \/ PrepareFailed(c)
  \/ Commit(c) \/ End(c)

Next == \E c \in Cors : Begin(c) \/ Step(c)

\* The bound on the number of transactions is reached and all of them ended.
Exhausted ==
  /\ \A c \in Cors : pc[c] = "idle"
  /\ begun = MaxTxns
  /\ UNCHANGED vars

Spec == Init /\ [][Next \/ Exhausted]_vars

\* The worker loop polls requests, completions and the wait list for ever.
FairSpec == Spec /\ \A c \in Cors : WF_vars(Step(c))
-----------------------------------------------------------------------------
Header == [wts : Nat, rts : Nat]

\* Every variable has its type.
TypeOK ==
  /\ verbs \in BOOLEAN
  /\ lock \in [Keys -> Nat]
  /\ seq \in [Keys -> Header]
  /\ data \in [Keys -> [1 .. 2 -> Nat]]
  /\ hist \in [Keys -> Seq(Nat)]
  /\ lease \in [Keys -> Seq(Nat)]
  /\ \A k \in Keys : Len(lease[k]) = Len(hist[k]) /\ Len(hist[k]) > 0
  /\ pc \in [Cors -> {"idle", "exec", "read", "reading", "reread", "lock", "copy",
                      "wait", "relf", "relp", "relc", "fetch", "renew", "upd"}]
  /\ ts \in [Cors -> Nat]
  /\ cid \in [Cors -> Nat]
  /\ rset \in [Cors -> SUBSET Keys]
  /\ wset \in [Cors -> SUBSET Keys]
  /\ last \in [Cors -> SUBSET Keys]
  /\ item \in [Cors -> [Keys -> Header]]
  /\ ver \in [Cors -> [Keys -> [1 .. 2 -> Nat]]]
  /\ hdr \in [Cors -> [Keys -> Nat \X Header]]
  /\ pend \in [Cors -> SUBSET Keys]
  /\ open \in [Cors -> SUBSET Keys]
  /\ left \in [Cors -> [Keys -> SUBSET (1 .. 3)]]
  /\ renewed \in [Cors -> BOOLEAN]
  /\ begun \in 0 .. MaxTxns
  /\ stray \subseteq Keys
  /\ raced \subseteq Keys
  /\ over \in [Cors -> SUBSET Keys]

\* The records a transaction has locked and not yet given back.
Holds(c) ==
  IF pc[c] \in {"exec", "read", "reread", "lock", "wait", "fetch", "renew"}
  THEN wset[c] \ last[c]
  ELSE IF pc[c] \in {"copy", "reading"} THEN wset[c]
  ELSE IF pc[c] \in {"relf", "relp", "upd"} THEN pend[c]
  ELSE {}

\* Whatever happens, no lock word outlives its transaction: a word that is
\* not zero is the stamp of a transaction that still has to free it.
NoLockLeaked ==
  \A k \in Keys : lock[k] # 0 =>
    \E c \in Cors : k \in Holds(c) /\ lock[k] = ts[c]

\* Until the release that commit() repeats after a failed prepare() hits a
\* record somebody else has locked meanwhile, its locks exclude each other, and
\* the contents handed out with a lock are whole, the newest, and in place
\* until the write set is written: no update is lost.
LocksExclude ==
  \A c \in Cors : \A k \in Holds(c) \ stray :
    /\ lock[k] = ts[c]
    /\ \A d \in Cors \ {c} : k \notin Holds(d)
    /\ k \notin last[c] \cup open[c] =>
         ver[c][k] = data[k] /\ data[k] = Contents(Len(hist[k]))

\* The one-sided build orders transactions by their commit ids: a version is
\* installed behind the versions before it and behind every transaction that
\* committed with a lease on one of those, and the contents a transaction read
\* are those of the version of its lease unless they were being written while
\* it copied them.  Two things break it for a record, and nothing else: the
\* repeated release, and a renewal that puts back a header.
LeasesOrder ==
  verbs => \A k \in Keys \ (stray \cup raced) :
    /\ \A i \in 1 .. Len(hist[k]) - 1 :
         hist[k][i] < hist[k][i + 1] /\ lease[k][i] < hist[k][i + 1]
    /\ \A c \in Cors : k \in rset[c] \ (last[c] \cup over[c]) =>
         \E i \in 1 .. Len(hist[k]) :
           ReadVersion(c, k, i) /\ ver[c][k] = Contents(i)

\* release_writes asserts "l == txn_start_time" where it looks at the word
\* before it frees it (sundial_rdma.cc, line 871): it never frees the lock of
\* another transaction.
ReleasesOwnLock == stray = {}

\* Waiting cannot close a cycle: once no transaction begins any more, every
\* coroutine comes to rest.
NoDeadlock ==
  <>[][\A c \in Cors : ~Begin(c)]_vars => <>[](\A c \in Cors : pc[c] = "idle")
=============================================================================
