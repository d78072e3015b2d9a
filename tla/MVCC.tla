-------------------------------- MODULE MVCC --------------------------------
(***************************************************************************)
(* Multi-version concurrency control (src/src/rtx/mvcc_rdma.h, .cc) over   *)
(* RPC or over one-sided RDMA verbs.                                       *)
(*                                                                         *)
(* A record has a lock word, a read stamp rts and MVCC_VERSION_NUM slots,  *)
(* each a write stamp and the contents written under it.  A transaction    *)
(* carries one stamp for all it does: a read takes the newest version      *)
(* below the stamp, a write takes the lock, is refused if the record was   *)
(* read or written above the stamp, and overwrites the oldest slot when    *)
(* the transaction commits.  The benchmarks pass -1 as node id, so every   *)
(* access is remote.                                                       *)
(*                                                                         *)
(* Worker threads of a machine serve requests concurrently and network     *)
(* cards access the memory beside them, so a step here is one access to a  *)
(* header or one copy of a slot.  The one-sided write-back is one WRITE of *)
(* all stamps and all slots, which land in any order.  The contents of a   *)
(* version are named by the stamp of the transaction that produced them,   *)
(* and a record is one word long.                                          *)
(***************************************************************************)
EXTENDS Integers, FiniteSets

CONSTANTS
  Cors,       \* coroutines: one running transaction each
  Keys,       \* records
  Id,         \* Id[c] = node * 80 + worker * 10 + coroutine + 1
  V,          \* MVCC_VERSION_NUM
  Until,      \* bound: coroutine c stamps with the readings 1 .. Until[c]
  Builds      \* values of ONE_SIDED_READ that are compared: TRUE for verbs

\* try_lock_read_rdma keeps a stamp in an int: its readings stay below 2^21.
ASSUME MVCCAssumption ==
  /\ Cors # {} /\ IsFiniteSet(Cors)
  /\ Id \in [Cors -> 1 .. 1023]
  /\ \A c, d \in Cors : Id[c] = Id[d] => c = d
  /\ V \in Nat \ {0}
  /\ Until \in [Cors -> Nat]
  /\ Builds \subseteq BOOLEAN
  /\ TRUE \in Builds => \A c \in Cors : Until[c] < 2097152

Slots == 0 .. V - 1

VARIABLES
  verbs,    \* ONE_SIDED_READ, fixed by the compilation
  lock,     \* header->lock, 0 when free
  rts,      \* header->rts
  wts,      \* wts[k][i]: header->wts[i], 0 in a slot never written
  data,     \* data[k][i]: contents of slot i
  clock,    \* clock[c]: cnt_timer
  ts,       \* ts[c]: txn_start_time
  pc,       \* pc[c]: where the coroutine, or the handler it waits for, is
  rset,     \* rset[c]: records read
  wset,     \* wset[c]: records of write_set_
  last,     \* last[c]: the record of the call under way
  slot,     \* slot[c][k]: pos, the slot to read or to overwrite
  base,     \* base[c][k]: maxpos, the slot of the version a write starts from
  before,   \* before[c]: before_reading_wts
  buf,      \* buf[c][k]: contents of the item's data_ptr
  pend,     \* pend[c]: items of the batch under way not yet served
  stamped,  \* stamped[c]: items of pend[c] whose write stamp is installed
  served    \* history: <<k, w, t>> when a read of k at t was given version w

header == << lock, rts, wts >>
txn == << clock, ts, rset, wset, last >>
item == << slot, base, before, buf >>
batch == << pend, stamped >>
vars == << verbs, header, data, txn, pc, item, batch, served >>

\* The loaders write the first version under stamp 1 into slot 0.
Init ==
  /\ verbs \in Builds
  /\ lock = [k \in Keys |-> 0]
  /\ rts = [k \in Keys |-> 0]
  /\ wts = [k \in Keys |-> [i \in Slots |-> IF i = 0 THEN 1 ELSE 0]]
  /\ data = wts
  /\ clock = [c \in Cors |-> 0]
  /\ ts = [c \in Cors |-> 0]
  /\ pc = [c \in Cors |-> "idle"]
  /\ rset = [c \in Cors |-> {}]
  /\ wset = [c \in Cors |-> {}]
  /\ last = [c \in Cors |-> {}]
  /\ slot = [c \in Cors |-> [k \in Keys |-> 0]]
  /\ base = [c \in Cors |-> [k \in Keys |-> 0]]
  /\ before = [c \in Cors |-> 0]
  /\ buf = [c \in Cors |-> [k \in Keys |-> 0]]
  /\ pend = [c \in Cors |-> {}]
  /\ stamped = [c \in Cors |-> {}]
  /\ served = {}
-----------------------------------------------------------------------------
\* check_read looks at the lock word first: an earlier write is under way.
EarlierWrite(c, k) == lock[k] # 0 /\ lock[k] < ts[c]

\* The rest of check_read: the slots with the newest version below the stamp
\* (none when all the versions are newer).
Readable(c, k) ==
  { i \in Slots : /\ 0 < wts[k][i] /\ wts[k][i] < ts[c]
                  /\ \A j \in Slots : wts[k][j] < ts[c] => wts[k][j] <= wts[k][i] }

\* The newest slot, and the oldest one as the scan finds it: the first with
\* the smallest stamp.
Newest(k) == CHOOSE i \in Slots : \A j \in Slots : wts[k][j] <= wts[k][i]
Oldest(k) ==
  CHOOSE i \in Slots :
    \A j \in Slots : wts[k][i] < wts[k][j] \/ (wts[k][i] = wts[k][j] /\ i <= j)

\* check_write: the largest stamp of the header above the caller's, or 0.
LargestStamp(k) ==
  IF rts[k] > wts[k][Newest(k)] THEN rts[k] ELSE wts[k][Newest(k)]

check_write(c, k) == IF LargestStamp(k) > ts[c] THEN LargestStamp(k) ELSE 0

Goto(c, label) == pc' = [pc EXCEPT ![c] = label]

\* Faulty variant: the stamp is taken for a clock reading.
CatchUpUnshifted(c, t) == clock' = [clock EXCEPT ![c] = t]

\* LOCK_UPDATE_TS: the coroutine's clock moves up to the stamp that refused
\* it, so that its next transaction is stamped above.
CatchUp(c, t) == clock' = [clock EXCEPT ![c] = t \div 1024]

\* Faulty variant: the refused item is released with the others.
FailAlways(c, all) ==
  /\ Goto(c, "rel")
  /\ pend' = [pend EXCEPT ![c] = wset[c]]
  /\ UNCHANGED << data, ts, rset, wset, last, item, stamped, served >>

\* A call failed: release_writes(all), where all tells whether the item just
\* appended is released too.
Fail(c, all) ==
  /\ Goto(c, "rel")
  /\ pend' = [pend EXCEPT ![c] = IF all THEN wset[c] ELSE wset[c] \ last[c]]
  /\ UNCHANGED << data, ts, rset, wset, last, item, stamped, served >>
-----------------------------------------------------------------------------
\* begin(): the next stamp of the coroutine's own clock.
Begin(c) ==
  /\ pc[c] = "idle" /\ clock[c] < Until[c]
  /\ clock' = [clock EXCEPT ![c] = @ + 1]
  /\ ts' = [ts EXCEPT ![c] = (clock[c] + 1) * 1024 + Id[c]]
  /\ Goto(c, "exec")
  /\ UNCHANGED << header, data, rset, wset, last, item, batch, served >>

\* remote_read of a record the transaction has not touched yet.  (For one it
\* has, the item's contents are copied and nobody else is concerned.)
Read(c, k) ==
  /\ pc[c] = "exec" /\ k \notin rset[c] \cup wset[c]
  /\ last' = [last EXCEPT ![c] = {k}]
  /\ Goto(c, "rcheck")
  /\ UNCHANGED << header, data, clock, ts, rset, wset, item, batch, served >>

\* read_rpc_handler and try_read_rdma: the lock word ...
ReadCheck(c, k) ==
  /\ pc[c] = "rcheck" /\ k \in last[c]
  /\ IF EarlierWrite(c, k)
     THEN Fail(c, TRUE)
     ELSE /\ Goto(c, "rpick")
          /\ UNCHANGED << data, ts, rset, wset, last, item, batch, served >>
  /\ UNCHANGED << header, clock >>

\* ... and then the write stamps.  One-sided reads note the stamp here.
ReadPick(c, k) ==
  /\ pc[c] = "rpick" /\ k \in last[c]
  /\ \/ /\ Readable(c, k) = {}
        /\ Fail(c, TRUE)
     \/ /\ \E i \in Readable(c, k) :
             /\ slot' = [slot EXCEPT ![c][k] = i]
             /\ before' = [before EXCEPT ![c] = IF verbs THEN wts[k][i] ELSE @]
        /\ Goto(c, IF verbs THEN "rcopy" ELSE "rmark")
        /\ UNCHANGED << data, ts, rset, wset, last, base, buf, batch, served >>
  /\ UNCHANGED << header, clock >>

\* Faulty variant: the read leaves no stamp.
ReadMarkNever(c, k) ==
  /\ pc[c] = "rmark" /\ k \in last[c]
  /\ Goto(c, "rnote")
  /\ UNCHANGED << lock, rts, wts, data, txn, item, batch, served >>

\* The handler raises rts to the reader's stamp.  (try_read_rdma prepares a
\* compare-and-swap for it, which it never posts.)
ReadMark(c, k) ==
  /\ pc[c] = "rmark" /\ k \in last[c]
  /\ rts' = [rts EXCEPT ![k] = IF ts[c] > @ THEN ts[c] ELSE @]
  /\ Goto(c, "rnote")
  /\ UNCHANGED << lock, wts, data, txn, item, batch, served >>

ReadNote(c, k) ==
  /\ pc[c] = "rnote" /\ k \in last[c]
  /\ before' = [before EXCEPT ![c] = wts[k][slot[c][k]]]
  /\ Goto(c, "rcopy")
  /\ UNCHANGED << header, data, txn, slot, base, buf, batch, served >>

ReadCopy(c, k) ==
  /\ pc[c] = "rcopy" /\ k \in last[c]
  /\ buf' = [buf EXCEPT ![c][k] = data[k][slot[c][k]]]
  /\ Goto(c, "rrecheck")
  /\ UNCHANGED << header, data, txn, slot, base, before, batch, served >>

\* The second check_read, which must find the same version again.
ReadRecheck(c, k) ==
  /\ pc[c] = "rrecheck" /\ k \in last[c]
  /\ IF EarlierWrite(c, k)
     THEN Fail(c, TRUE)
     ELSE /\ Goto(c, "rdone")
          /\ UNCHANGED << data, ts, rset, wset, last, item, batch, served >>
  /\ UNCHANGED << header, clock >>

\* The RPC reply is the slot number followed by the record, and
\* process_received_data copies it from the slot number on.
Received(c, k) == IF verbs THEN buf[c][k] ELSE slot[c][k]

ReadDone(c, k) ==
  /\ pc[c] = "rdone" /\ k \in last[c]
  /\ IF slot[c][k] \in Readable(c, k) /\ wts[k][slot[c][k]] = before[c]
     THEN /\ rset' = [rset EXCEPT ![c] = @ \cup {k}]
          /\ last' = [last EXCEPT ![c] = {}]
          /\ buf' = [buf EXCEPT ![c][k] = Received(c, k)]
          /\ served' = served \cup {<< k, before[c], ts[c] >>}
          /\ Goto(c, "exec")
          /\ UNCHANGED << data, ts, wset, slot, base, before, batch >>
     ELSE Fail(c, TRUE)
  /\ UNCHANGED << header, clock >>
-----------------------------------------------------------------------------
\* remote_write of a record that is not in the write set yet.
Write(c, k) ==
  /\ pc[c] = "exec" /\ k \notin wset[c]
  /\ wset' = [wset EXCEPT ![c] = @ \cup {k}]
  /\ last' = [last EXCEPT ![c] = {k}]
  /\ Goto(c, "wcheck")
  /\ UNCHANGED << header, data, clock, ts, rset, item, batch, served >>

\* The checks before the lock is tried, all made again under the lock:
\* check_write, and in the handler a lock word above the caller's stamp.
WriteCheck(c, k) ==
  /\ pc[c] = "wcheck" /\ k \in last[c]
  /\ \/ /\ check_write(c, k) # 0
        /\ CatchUp(c, check_write(c, k))
        /\ Fail(c, FALSE)
     \/ /\ check_write(c, k) = 0 /\ ~verbs /\ lock[k] > ts[c]
        /\ CatchUp(c, lock[k])
        /\ Fail(c, FALSE)
     \/ /\ check_write(c, k) = 0 /\ (verbs \/ lock[k] <= ts[c])
        /\ Goto(c, "wlock")
        /\ UNCHANGED << data, txn, item, batch, served >>
  /\ UNCHANGED header

\* The compare-and-swap.  MVCC_NOWAIT is defined: a taken word is a failure,
\* which moves the clock in the one-sided build only.
WriteLock(c, k) ==
  /\ pc[c] = "wlock" /\ k \in last[c]
  /\ \/ /\ lock[k] = 0
        /\ lock' = [lock EXCEPT ![k] = ts[c]]
        /\ Goto(c, "wrecheck")
        /\ UNCHANGED << data, txn, item, batch, served >>
     \/ /\ lock[k] # 0
        /\ IF verbs /\ lock[k] > ts[c]
           THEN CatchUp(c, lock[k])
           ELSE UNCHANGED clock
        /\ Fail(c, FALSE)
        /\ UNCHANGED lock
  /\ UNCHANGED << rts, wts >>

\* Faulty variant: reads that came in since the first check are ignored.
WriteRecheckLoose(c, k) ==
  /\ pc[c] = "wrecheck" /\ k \in last[c]
  /\ slot' = [slot EXCEPT ![c][k] = Oldest(k)]
  /\ base' = [base EXCEPT ![c][k] = Newest(k)]
  /\ buf' = [buf EXCEPT ![c][k] = data[k][Newest(k)]]
  /\ last' = [last EXCEPT ![c] = {}]
  /\ Goto(c, "exec")
  /\ UNCHANGED << header, data, clock, ts, rset, wset, before, batch, served >>

\* Under the lock: refused if the record was read or written above the stamp
\* (the handler unlocks, the one-sided build releases the item with the
\* others), otherwise the newest version is handed out and the oldest slot
\* is the one to overwrite.
WriteRecheck(c, k) ==
  /\ pc[c] = "wrecheck" /\ k \in last[c]
  /\ \/ /\ check_write(c, k) # 0
        /\ CatchUp(c, IF rts[k] > ts[c] THEN rts[k] ELSE wts[k][Newest(k)])
        /\ lock' = IF verbs THEN lock ELSE [lock EXCEPT ![k] = 0]
        /\ Fail(c, verbs)
     \/ /\ check_write(c, k) = 0
        /\ slot' = [slot EXCEPT ![c][k] = Oldest(k)]
        /\ base' = [base EXCEPT ![c][k] = Newest(k)]
        /\ buf' = [buf EXCEPT ![c][k] = data[k][Newest(k)]]
        /\ last' = [last EXCEPT ![c] = {}]
        /\ Goto(c, "exec")
        /\ UNCHANGED << lock, data, clock, ts, rset, wset, before, batch, served >>
  /\ UNCHANGED << rts, wts >>
-----------------------------------------------------------------------------
\* release_writes: release_rpc_handler, or an RDMA write of 0.
ReleaseItem(c, k) ==
  /\ pc[c] = "rel" /\ k \in pend[c]
  /\ lock' = [lock EXCEPT ![k] = 0]
  /\ pend' = [pend EXCEPT ![c] = @ \ {k}]
  /\ UNCHANGED << rts, wts, data, txn, pc, item, stamped, served >>

\* commit(): the update of the whole write set is sent.
Commit(c) ==
  /\ pc[c] = "exec"
  /\ pend' = [pend EXCEPT ![c] = wset[c]]
  /\ Goto(c, "upd")
  /\ UNCHANGED << header, data, txn, item, stamped, served >>

\* update_rpc_handler stores the write stamp, then the contents, then the lock.
\* Over verbs the stamps and the slots come with one WRITE, in any order, and
\* the lock with one behind it.
UpdateStamp(c, k) ==
  /\ pc[c] = "upd" /\ k \in pend[c] \ stamped[c]
  /\ wts' = [wts EXCEPT ![k][slot[c][k]] = ts[c]]
  /\ stamped' = [stamped EXCEPT ![c] = @ \cup {k}]
  /\ UNCHANGED << lock, rts, data, txn, pc, item, pend, served >>

\* The slots whose contents change.  In the one-sided build the transaction
\* works in place, on the newest slot of its copy of the whole block, and
\* try_update_rdma copies that slot to the oldest one and writes all of them.
Changed(c, k) == IF verbs THEN {slot[c][k], base[c][k]} ELSE {slot[c][k]}

\* The slots of the record are changing.
Updating(c, k) == pc[c] = "upd" /\ k \in pend[c] /\ (verbs \/ k \in stamped[c])

UpdateData(c, k) ==
  /\ Updating(c, k)
  /\ \E i \in Changed(c, k) :
       /\ data[k][i] # ts[c]
       /\ data' = [data EXCEPT ![k][i] = ts[c]]
  /\ UNCHANGED << header, txn, pc, item, batch, served >>

\* Faulty variant: the lock is given back before the contents are written.
UpdateUnlockEarly(c, k) ==
  /\ pc[c] = "upd" /\ k \in stamped[c]
  /\ lock' = [lock EXCEPT ![k] = 0]
  /\ pend' = [pend EXCEPT ![c] = @ \ {k}]
  /\ stamped' = [stamped EXCEPT ![c] = @ \ {k}]
  /\ UNCHANGED << rts, wts, data, txn, pc, item, served >>

UpdateUnlock(c, k) ==
  /\ pc[c] = "upd" /\ k \in stamped[c]
  /\ \A i \in Changed(c, k) : data[k][i] = ts[c]
  /\ lock' = [lock EXCEPT ![k] = 0]
  /\ pend' = [pend EXCEPT ![c] = @ \ {k}]
  /\ stamped' = [stamped EXCEPT ![c] = @ \ {k}]
  /\ UNCHANGED << rts, wts, data, txn, pc, item, served >>

\* The batch has been answered and the transaction is over; begin() of the
\* next one clears the sets.
End(c) ==
  /\ pc[c] \in {"rel", "upd"} /\ pend[c] = {}
  /\ Goto(c, "idle")
  /\ rset' = [rset EXCEPT ![c] = {}]
  /\ wset' = [wset EXCEPT ![c] = {}]
  /\ last' = [last EXCEPT ![c] = {}]
  /\ slot' = [slot EXCEPT ![c] = [k \in Keys |-> 0]]
  /\ base' = [base EXCEPT ![c] = [k \in Keys |-> 0]]
  /\ before' = [before EXCEPT ![c] = 0]
  /\ buf' = [buf EXCEPT ![c] = [k \in Keys |-> 0]]
  /\ UNCHANGED << header, data, clock, ts, batch, served >>
-----------------------------------------------------------------------------
Step(c) ==
  \/ \E k \in Keys :
       \/ Read(c, k) \/ ReadCheck(c, k) \/ ReadPick(c, k) \/ ReadMark(c, k)
       \/ ReadNote(c, k) \/ ReadCopy(c, k) \/ ReadRecheck(c, k) \/ ReadDone(c, k)
       \/ Write(c, k) \/ WriteCheck(c, k) \/ WriteLock(c, k) \/ WriteRecheck(c, k)
       \/ ReleaseItem(c, k)
       \/ UpdateStamp(c, k) \/ UpdateData(c, k) \/ UpdateUnlock(c, k)
  \/ Commit(c) \/ End(c)

Next ==
  /\ \E c \in Cors : Begin(c) \/ Step(c)
  /\ UNCHANGED verbs

Spec == Init /\ [][Next]_vars
-----------------------------------------------------------------------------
MaxClock ==
  CHOOSE n \in { Until[c] : c \in Cors } : \A c \in Cors : Until[c] <= n

Stamps == 0 .. MaxClock * 1024 + 1023

\* Every variable has its type; the clocks stay within their bound because a
\* refusal moves a clock up to one that another coroutine has reached.
TypeOK ==
  /\ verbs \in BOOLEAN
  /\ lock \in [Keys -> Stamps]
  /\ rts \in [Keys -> Stamps]
  /\ wts \in [Keys -> [Slots -> Stamps]]
  /\ data \in [Keys -> [Slots -> Stamps]]
  /\ clock \in [Cors -> 0 .. MaxClock]
  /\ ts \in [Cors -> Stamps]
  /\ pc \in [Cors -> {"idle", "exec", "rcheck", "rpick", "rmark", "rnote",
                      "rcopy", "rrecheck", "rdone", "wcheck", "wlock",
                      "wrecheck", "rel", "upd"}]
  /\ rset \in [Cors -> SUBSET Keys]
  /\ wset \in [Cors -> SUBSET Keys]
  /\ last \in [Cors -> SUBSET Keys]
  /\ slot \in [Cors -> [Keys -> Slots]]
  /\ base \in [Cors -> [Keys -> Slots]]
  /\ before \in [Cors -> Stamps]
  /\ buf \in [Cors -> [Keys -> Stamps \cup Slots]]
  /\ pend \in [Cors -> SUBSET Keys]
  /\ stamped \in [Cors -> SUBSET Keys]
  /\ served \subseteq Keys \X Stamps \X Stamps

\* The records whose lock word belongs to c.
Held(c) ==
  CASE pc[c] = "idle" -> {}
    [] pc[c] \in {"wcheck", "wlock"} -> wset[c] \ last[c]
    [] pc[c] \in {"rel", "upd"} -> pend[c]
    [] OTHER -> wset[c]

\* The write calls that have returned.
Granted(c) == wset[c] \ last[c]

\* A lock word is non-zero exactly while one transaction holds the record,
\* and then it is its stamp: what release_rpc_handler and update_rpc_handler
\* assert (mvcc_rdma.cc, lines 552 and 573), and no refused or failed call
\* leaves a record locked.
LockOwnership ==
  \A k \in Keys :
    /\ lock[k] # 0 => \E c \in Cors : k \in Held(c)
    /\ \A c \in Cors : k \in Held(c) => lock[k] = ts[c]
    /\ \A c, d \in Cors : k \in Held(c) \cap Held(d) => c = d

\* A read that has been answered stays right: nobody installs a version
\* between the one it was given and its stamp, however the reader's stamp and
\* the writer's lock cross each other at the record.  With one stamp per
\* transaction the order of the stamps is then a serial order.
ReadsStable ==
  \A r \in served : \A i \in Slots : ~(r[2] < wts[r[1]][i] /\ wts[r[1]][i] < r[3])

\* Where the handler raises rts before it copies the version (read_rpc_handler)
\* the reads are stable; one-sided reads leave no stamp.
ServedReadsStable == ~verbs => ReadsStable

\* A transaction that writes a record works on its newest version until it
\* installs its own above it: no update is lost.
LockedLatest ==
  \A c \in Cors : pc[c] \notin {"idle", "rel"} =>
    \A k \in (IF pc[c] = "upd" THEN pend[c] \ stamped[c] ELSE Granted(c)) :
      /\ buf[c][k] = wts[k][Newest(k)]
      /\ wts[k][Newest(k)] < ts[c]

\* The slots with the version that came after the one in slot i.
Later(k, i) ==
  { j \in Slots :
      /\ wts[k][i] < wts[k][j]
      /\ \A l \in Slots : wts[k][i] < wts[k][l] => wts[k][j] <= wts[k][l] }

\* Over RPC a slot has the contents of the version its stamp names.  Over verbs
\* only the newest one does: the contents of every other version have been
\* overwritten with those of the version after it.
SlotContents(k, i) ==
  IF verbs /\ wts[k][i] # 0 /\ Later(k, i) # {}
  THEN \E j \in Later(k, i) : data[k][i] = wts[k][j]
  ELSE data[k][i] = wts[k][i]

\* Every slot holds the contents that SlotContents says, except those that the
\* holder of the lock is writing, and no two slots have the same stamp: over
\* RPC a version keeps its contents until its slot is used again, and over
\* verbs the newest version, which the next writer starts from, is right.
VersionsIntact ==
  \A k \in Keys, i \in Slots :
    /\ \/ SlotContents(k, i)
       \/ \E c \in Cors : lock[k] = ts[c] /\ Updating(c, k) /\ i \in Changed(c, k)
    /\ \A j \in Slots : wts[k][i] = wts[k][j] => i = j \/ wts[k][i] = 0

\* "read the data here" (mvcc_rdma.cc:152): what a read hands to the
\* transaction is the contents of a version older than the transaction.
ReadsReturnRecord ==
  \A c \in Cors : pc[c] # "idle" =>
    \A k \in rset[c] \ wset[c] : << k, buf[c][k], ts[c] >> \in served
=============================================================================
