# RCC: a TLA+ development

RCC (`src/README.md`) is a framework of distributed concurrency-control
protocols on top of DrTM+H: every machine stores a partition of the records and
runs worker threads; every thread runs coroutines, each with one transaction at
a time; transactions access records of other machines by RPC or by one-sided
RDMA verbs. The main code is `src/src/rtx`; `src/src/core` is the coroutine,
RPC and RDMA scheduling layer below it.

All paths below are relative to `src/src/`. "RPC build" means
`ONE_SIDED_READ 0`, "one-sided build" `ONE_SIDED_READ 1`; a hybrid build
(`ONE_SIDED_READ 2`) chooses phase by phase.

## Inventory

| Component | State | Operations | Interacts through | What is hard | What makes it correct |
|---|---|---|---|---|---|
| NOWAIT (`rtx/nowait_rdma.*`) | lock word and contents of each record; read and write set, start time of each transaction | begin, read, write, commit, abort; handlers for lock, release, write-back | RPC handlers at the record's machine, or CAS/READ/WRITE by the network card | lock calls of all machines interleave; releases store 0 unconditionally; a failing call must release exactly what was taken | one owner per lock word, no leaked lock, reads stay current, strict serializability, every transaction ends |
| WAITDIE (`rtx/waitdie_rdma.*`, `rtx/global_lock_manager.h`) | the same, and the server's wait list | the same, and check_to_notify from the event loop | the same | waiting, overtaking, late grants; order of wrapped lock words | the same, and no deadlock |
| MVCC (`rtx/mvcc_rdma.*`) | lock, read stamp and a few stamped versions per record; a clock per coroutine | begin, read, write, commit, abort; handlers read, lock_read, release, update | the same | a reader's stamp crosses a writer's lock; versions are overwritten under readers; refusals move clocks | reads stay right, no lost update, a known content of every version |
| OCC (`rtx/occ*`) | lock and sequence word per record; read and write set, buffered headers | read, lock_writes, validate_reads, log_remote, write-back, release | the same, each stage by RPC or by verbs | lock, validation and write-back are rounds of their own; copies and in-place writes overlap | whole copies, serializability, owned locks, backups that agree, every transaction ends |
| SUNDIAL (`rtx/sundial_rdma.*`) | lock, wts and rts per record; commit id per transaction | read, lock_read, renew_lease, update, release | the same, and the wait list | renewal without a lock; release on several error paths | order by commit ids, exclusion, no leaked lock, no deadlock |
| DSLR (`rtx/dslr.*`) | four 16-bit ticket counters per record | acquire shared/exclusive, release, reset | fetch-and-add and CAS verbs | counters at their limit, leases, resets by others | mutual exclusion, progress |
| CALVIN (`rtx/calvin_rdma.h`) | read and write sets | read, write, commit | a sequencer that is not in the repository | - | - |
| Replication (`rtx/view.*`, `*logger*`, `*log_cleaner*`, `log_mem_manager.hpp`) | backup stores, machine set of a batch | log_remote, log_ack, clean_log | RDMA writes or RPC to the backups | the destination set is left over from another batch | an unlocked record agrees with its backups |
| Two-phase commit (`rtx/*2pc*`, `two_phase_*`) | a mailbox byte per coroutine | prepare, decide | RDMA writes | compiled out (`TX_TWO_PHASE_COMMIT_STYLE 0`) | - |
| Scheduler (`core/routine.*`, `rworker*`, `rrpc.*`, `rdma_sched.*`) | an intrusive list of routines, reply and completion counters, timers | yields, posting, polling, dispatch | called by every protocol at every network access | two kinds of answers, timers and a list that is relinked by all of them | no lost or double wake-up, the list is a queue, nobody starves |
| Stores (`memstore/`) | B+ trees and hash tables; iterators that keep a leaf and an index | GetWithInsert, Get, Seek, Next, Prev | hardware transactions with a fallback lock | splits of full nodes; an iterator used again after its leaf was filled or split | an ordered set: nothing lost, nothing skipped |
| Framework, benchmarks, `db/`, third party | - | start-up, workloads, the predecessor's transactions, messaging | - | - | - |

## Modules

| Module | Models |
|---|---|
| `SerialStore` | abstract: a store whose transactions commit in one step, with everything they saw still current |
| `TwoPL` | NOWAIT and WAITDIE, RPC and one-sided; refines `SerialStore` |
| `MCTwoPL` | small instances of `TwoPL` |
| `TwoPLProofs` | lock ownership, currency of reads and refinement of `SerialStore`, proved |
| `MVCC`, `MCMVCC` | multi-version concurrency control, RPC and one-sided |
| `MVCCProofs` | ownership, stable reads, no lost update and the contents of the slots, proved |
| `Sundial`, `MCSundial` | SUNDIAL's leases, RPC and one-sided, with the wait list |
| `SundialProofs` | no leaked lock, exclusion and order of the leases, proved |
| `Replication` | views, log rounds and the log cleaner |
| `OCC`, `MCOCC` | OCC in RPC, one-sided and hybrid builds; extends `Replication` |
| `OCCProofs` | ownership, whole copies over RPC and agreement of the backups, proved |
| `OCCSerial` | serializability of OCC, proved; extends `OCCProofs` |
| `DSLR`, `MCDSLR` | the ticket lock word of the DSLR lock manager |
| `DSLRProofs` | exclusion and the count of tickets, proved |
| `BPlusTree`, `MCBPlusTree` | the B+ tree of the local tables and its iterators |
| `BPlusTreeProofs` | array bounds, the ordered list of leaves and the ordered set, proved |
| `RunQueue` | abstract: a queue of runnable routines |
| `Scheduler` | the coroutine scheduler of a worker thread; refines `RunQueue` |
| `SchedulerProofs` | the list invariant, exact wake-ups and refinement of `RunQueue`, proved |

### TwoPL

State: `lock[k]` and `value[k]` are the record's header and contents; everything
else belongs to a coroutine: its start time `ts`, its read and write sets, the
item whose lock call is under way (`last`), the item buffers `buf`, the reply
buffer, and the batch under way (`pend`, `wrote`). `pc` is the point the
coroutine has reached: running (`exec`), in a lock call (`lock`, `wait`,
`copy`), aborting (`relr`, `relw`), or committing (`wb`, `relc`).

One step is one access to a lock word or to a record, which is the granularity
at which handlers of several threads and network cards interleave. `Begin`,
`Read`, `Write`, `Commit`, `End` are the calls of a transaction. `LockGranted`,
`LockFailed`, `LockParked`, `LockRetried` and `CopyRecord` are the lock calls of
all builds (they differ in what the caller compares and in how it waits);
`NotifyGranted`, `NotifyFailed` and `NotifyLater` are check_to_notify.
`ReleaseItem`, `WriteItem`, `UnlockItem` are the items of a batch, which
different machines serve in any order. Lock words keep their width: `R_LEASE`
drops the bits that do not fit `WordSpace` (2^64 in the code, two readings of the
clock in the runs). `Local` tells which records are on the coroutine's own
machine. The transaction's new contents are any values, chosen at commit.
A transaction asks for a record once, as the benchmarks do, which remove duplicate
keys beforehand.

A WAITDIE request for a local record that has to wait spins on the lock word
without yielding (`rtx/waitdie_rdma.cc:320`, `394`), so that the other coroutines of its
thread, and the handlers that the thread serves, stand still. `Spinning(c)` is this
state, and `Hindered(c)` says that somebody else spins; see Fairness.

The refinement mapping puts the commit point where `commit()` sends the
write-back: from then on a record that is still to be written counts with its
new contents, and its lock keeps everybody else away.

### MVCC

State: the header (`lock`, `rts`, `wts[i]`) and the slots' `data`; per coroutine
`cnt_timer` (`clock`), the stamp, the sets, the chosen slot, the noted stamp and
the buffers. Contents are named by the stamp of the transaction that wrote them.
Steps are single accesses: check_read is two (lock word, then stamps), and raising
`rts`, noting the stamp and copying are one each. The update handler stores the
stamp, the contents of the victim slot and the unlock in this order. The one-sided
update does more: the transaction's data pointer is the newest slot of the block it
has fetched (`rtx/mvcc_rdma.cc:724`), which it changes in place, copies to the victim
slot and writes back as a whole (`917` to `933`). So two slots change (`Changed`), stamp
and slots land in any order, and the version that was newest keeps its stamp with the
contents of its successor. `VersionsIntact` says exactly this. `served` is a history variable: which version each
answered read was given. A record is one word long, so that a receiver that
starts one word early gets the slot number. The benchmarks pass -1 as node id,
which makes every access remote, so the branches for local records are left out.
`verbs` is the build; it is chosen once and never changes, so that one run covers
both.

### Sundial

State: the header (`lock`, `seq` with its two halves wts and rts) and two halves of the
contents (`data`); per coroutine the stamp, `commit_id_` (kept from one transaction to the
next), the sets, the leases and contents copied, and the batch under way with the
items whose service has begun (`open`) and the parts that have not landed
(`left`). `hist` and `lease` are history variables: the commit ids of a record's versions,
and for each version the latest commit id of a committed transaction that read it.

One step is one access to a word of the header or to a half of the contents: handlers
of several worker threads interleave, and a READ or WRITE of a record goes over
several cache lines ("atomicly read?", `rtx/sundial_rdma.cc:493`). A copy is
`ReadRecord`, then any number of `ReadPart` in which a part turns out to be of a
later moment, then `ReadDone`. A write is `UpdateItem`, three `UpdatePart` (over RPC
contents and then the word, over verbs the word at any moment) and `UnlockItem`. A
renewal looks at the header (`FetchHeader`, `FetchPart`) and stores later
(`RenewItem`), over RPC too.

A call to `read` takes no lock, and over verbs looks at the lease once more (`Reread...`);
a call to `write` locks (`LockGranted`, `LockFailed`, `LockParked` with `Notify...`, or
`LockRetried`) and copies. `Prepare` to `PrepareFailed` are prepare() with the renewals;
after a failure `ReleaseDone` leads from the release of prepare() (`relp`) to the one of
commit() (`relc`). `Updated` is the header a write leaves: the commit id twice over verbs,
but over RPC inplace_write_op counts the word up by 2 and puts the commit id in a field
of the index node that nobody reads, so that wts never changes there; claims about commit
ids are therefore made for the one-sided build only.

Three events break the claims, each for the record concerned only, and the model
records them: `stray`, a release zeroed the lock of another transaction; `raced`, a
renewal stored over a header that had been locked, given to a new version or renewed
further since it was looked at (`PutsBack`); and `over[c]`, the record was written while
`c` copied it, so that `c` may have the new lease with old contents and the second look
agrees. All three are reached: TLC violates `LocksExclude` without the first, and
`LeasesOrder` without any of the three.

### OCC and Replication

State: lock and sequence word and two halves of the contents of each record; per
coroutine the sets, the buffered sequence words and contents, `free` (the write
items whose buffered lock word is 0, which is what a one-sided release goes
by), and the batch of the current stage. `sided` is the set of stages that the
build runs over verbs: `{}` is the RPC build, all stages the one-sided one, and
others are hybrids (`HYBRID_CODE`). Handlers are modelled access by access, so
that those of several worker threads interleave: local_get_op (`GetSeq`,
`GetHalf`, `GetRecheck`), local_try_lock_op and the check of the sequence
(`LockItem`, `CheckLocked`), local_validate_op (`ValidateSeq`, `ValidateLock`),
inplace_write_op (`FlagSeq` to `ZeroLock`). Within one handler the items of a
machine follow each other, and the first failure ends it (`Serving`, `Failed`).
A record with its 16-byte header is longer than a cache line in the benchmarks (TPC-C
districts and customers, `app/tpcc/tpcc_schema.h:99`; the 64-byte strings of SmallBank
and YCSB, `app/smallbank/bank_schema.h:47`, `72`), so that a one-sided READ (`ReadRecord`,
`ReadPart`, `ReadDone`) and the WRITE of a write-back (`WriteRecord`) fetch and store the sequence
word and each half at moments of their own and in any order. Nothing in the code
notices a READ that overlaps a WRITE: `torn` records that a transaction was committed
with a copy that is no version.
The buffered lock word of a write read over RPC is memory fresh from the
allocator: any value (`BufferedLock`).

`Replication` has the backups' copies and the answers still awaited. The machines
an entry goes to come from `mac_set_` of the write batch, which lock_writes
filled (`LogMachines`); `clean_log` applies what the view says the
machine backs up. `done` is the history of committed transactions with the
versions they read; `split` records that local_validate_op compared the sequence
word before and the lock word after another thread's whole write. `CopiesWhole` is
claimed for the builds whose reads and write-backs go by RPC, `Serializable` up to
`split` and `torn`; TLC violates both over verbs without the restriction.

### DSLR

State: the 64-bit word as one number with four lanes (`Lane` values each), so
that a lane that overflows or is decremented below zero runs into the next;
per coroutine the request, the word its ticket came from, its duty to reset
and `last_lock`. One step is one verb and the decision that follows. Time is
abstract: a held lock may be within its lease or not (`Release`, `Expire`), and a
shared request that backed off may find that two leases have passed
(`ForceReset`). `leaked` counts the tickets nobody will give back. The model has one
record, while `last_lock` (`rtx/dslr.h:77`) is one word per coroutine for all of them: with
several records the code may force a reset after comparing with the word of another
record, which the guard of `ForceReset` leaves out. `TypeOK` bounds the lanes that give
out tickets (MAXX, MAXS); the lanes that count the served ones are compared
with them by `TicketsCounted`.

### BPlusTree

State: the nodes in the order of their allocation, leaves with `keys`, `left`,
`right` and `seq`, inner nodes with `keys` and `kids`; root and depth; and an
iterator (`node_`, `seq_`, `leaf_index`, `key_`). `keys[]` and `values[]` are
always moved together, so that a key stands for its entry. Every call runs in one
RTM region (or under its fallback lock) and is one step: `Put` (the loader, before
the workers start), `GetWithInsert`, `Seek`, `IterNext`, `IterPrev`. An insert
descends (`Path`) and returns along its path (`Returns`, one element per recursive
call of the code): `LeafInsert` and `InnerInsert` return the new sibling, the key that separates it (which the code
leaves in `keys[NENT - 1]` of a new inner node) and whether it has that one entry
only. Iterators write nothing but their own fields, so one is as good as many.

### Scheduler

The list is modelled pointer by pointer (`next`, `prev`, `tailer`), with the
stale pointers of routines that are off the list. One step is what happens
between two context switches or at one polled event; the routine that runs is
`current`. Only the master polls. The mapping to `RunQueue` follows `next_` from
the header. `YieldNext` and `IndirectYieldTimeout` are guarded by `Idle`, which the
functions do not test: it is the discipline of their callers, all of which collect
what they asked for with indirect_yield first. A one-shot routine runs to its end in one
turn. Its callback is handed a yield function too, but all routines of the pool have the
master's id 0, so that none could be woken by what it waits for.

## Runs

| Run | Expect | Shows |
|---|---|---|
| `nowait` | pass | RPC build of NOWAIT: type, ownership, current reads, strict serializability (refinement), termination of every transaction |
| `waitdie` | pass | WAITDIE over RPC, three coroutines, the wait list and a record in a coroutine's own memory: ownership, no cycle of waiting transactions, everyone comes to rest unless a local request spins for ever |
| `waitdie_rpc_stale` | violation | a late grant carries no record |
| `mvcc` | pass | both builds of MVCC: ownership, no lost update, the contents of every slot; over RPC also stable reads |
| `mvcc_verbs_rts` | violation | a one-sided read leaves no read stamp |
| `mvcc_rpc_layout` | violation | a read reply is unpacked one word early |
| `sundial` | pass | both builds of SUNDIAL, word by word: no leaked lock, exclusion and no lost update (up to `stray`), over verbs order by commit id and contents that fit the lease (up to `stray`, `raced`, `over`), no deadlock |
| `sundial_release` | violation | the second release after a failed renewal frees another transaction's lock |
| `occ` | pass | five builds of OCC with backups: whole copies over RPC, owned locks, serializability (up to `split` and `torn`), agreement of the backups, termination |
| `dslr` | pass | the ticket word: exclusion, exact count of tickets, every call returns unless a ticket was lost |
| `bplustree` | pass | nodes within their arrays, leaf list and index agree, inserts and iterator steps are those of an ordered set |
| `scheduler` | pass | the list implements a queue, wake-ups are exact, no coroutine starves |

Bounds. Two coroutines conflict on one record and two records give every
order of two locks; the wait list has three coroutines because overtaking needs a
holder, a parked request and an overtaker. Two values tell old contents from
new; runs about locks alone use one. Lock words that wrap and WAITDIE over
one-sided verbs have no run of their own: `LocksOwned` covers every build and
every clock, and the one-sided wait is the retry (`LockRetried`) that the local
record of `waitdie` takes. MVCC has two slots, so that the third
version overwrites the first; one coroutine runs two transactions and the other
one, which gives every order of three stamps; the two records are symmetric, because
no action tells one from the other. Over verbs, where the parts of a block land in any
order, the second coroutine's transaction has one record (`MCBound`), which leaves one
coroutine that writes both under the eyes of the other. SUNDIAL has three transactions in
all over three coroutines: a reader and writer whose renewal fails, a writer that
makes it fail, and a third that takes the lock between the two releases; one
coroutine reads, and one record only, which keeps the run small and loses no conflict
of a reader with writers. Both records are on one machine, so that a write set is written
item by item, and the two halves of the contents land in one order, since nothing
tells them apart. OCC has
transactions that read what the other writes, one that writes both records, and a
reader of both; three of them in the RPC build, two in the others. Three
machines with a replication factor of 1 let a backup differ from every
coroutine's machine. DSLR's lanes are full after two tickets and hold eight
values: three coroutines run past the limit, and five calls contain a fill, a
reset and a second round. The B+ tree has leaves of 4 entries and inner nodes of
3 keys instead of 15 and 15, the smallest sizes with the code's case distinctions
(`TreeAssumption`). The loads are a root that is a leaf, a table loaded downwards
(nodes split in the middle) and one loaded upwards (full nodes, lone children),
both one insert away from a deeper tree; the three inserts that follow can split
the iterator's leaf twice. The scheduler has two coroutines and a one-shot
routine, with up to two requests of each kind outstanding; a third coroutine
multiplies the states by thirty without a new kind of event. Where a run is
bounded in transactions or calls, `Exhausted` lets it stop.

The hybrids of `occ` are those in which reads alone are of the other kind, and the one
whose records are read and written back by RPC only; the theorems about `OCC` cover
the others. The
comment at `rtx/occ_rdma.cc:198` says that a one-sided release "can only work
with lock_w_rdma", and TLC agrees: with RPC locks and one-sided release
`LocksOwned` is violated, although lock_writes has code for that build.

Fairness. `TwoPL`, `Sundial`, `OCC` and `DSLR`: every coroutine with a started
transaction (call) goes on, since the worker loop polls and dispatches for
ever, and so do handlers and network cards. It says nothing about beginning
transactions. NOWAIT and OCC never wait for a lock, so their transactions end
unconditionally; for WAITDIE and SUNDIAL the claim is that waiting closes no cycle
(`NoDeadlock`: once no transaction begins, all come to rest; for WAITDIE also as the
invariant `NoWaitCycle`). `TwoPL!FairSpec` promises a coroutine nothing while it is
`Hindered`: the worker loop does not come round while a local WAITDIE request
spins, and the spinning thread may be the one that would run the holder or serve its
release. `NoDeadlock` therefore has a second outcome, that a local request spins for ever.
It is real: without it TLC finds the property violated.
DSLR's compare-and-swap loop of a reset ends because the others' retries are bounded
(`MaxTries`); a loop that loses against others without end is not excluded by the code.
`Scheduler!FairSpec`: the running routine goes on running (weak fairness), and
an event that is there whenever the master polls is taken: the master's loop
polls all queues before it dispatches, but it does so only while it has the
thread, hence strong fairness for `Poll`.

## Findings

1. A WAITDIE request that was parked is granted by a reply without a record
   (`rtx/global_lock_manager.h:157`); the requester uses the previous reply's.
2. One-sided MVCC reads prepare the update of the read stamp and never post it
   (`rtx/mvcc_rdma.cc:852`).
3. MVCC read replies start with the slot number, which the receiver takes for the
   beginning of the record (`rtx/mvcc_rdma.h:91`).
4. After a failed renewal SUNDIAL releases its write set twice, in prepare() and in
   commit() (`rtx/sundial_rdma.h:389`, `403`), and an unlock zeroes the word
   whoever holds it: the second one can free a record that another transaction
   has locked since. `sundial` shows that nothing else breaks exclusion.

Local read and write calls of the two-phase-locking protocols copy the record
before they lock it (`rtx/nowait_rdma.h:44`), and nothing copies it again; the
branch is live only in TPC-E's hybrid builds with RPC locks, and
`LockedReadsCurrent` is therefore claimed for remote records.

Where a one-sided READ overlaps a WRITE of the same record, nothing tells the reader
that its copy is half old and half new: OCC has no second look (`rtx/occ_rdma.h:143`),
SUNDIAL's compares a lease that may have been new already (`rtx/sundial_rdma.cc:507`). A
one-sided SUNDIAL renewal may put back a header that a writer has changed
(`rtx/sundial_rdma.cc:246`). A one-sided MVCC update overwrites the previous version as
well (`rtx/mvcc_rdma.cc:931`), so that a reader with an older stamp gets contents from its
future. The properties name these as exceptions, and TLC reaches each of them.

TLC also reaches, in both builds of MVCC at the granularity of single accesses,
a read that returns old contents under a new stamp: the reader looks at the lock
word before a writer locks, and at the stamps after the writer has stamped; it
copies before the writer fills the slot, and checks again after the unlock.

## Proofs

Checked by TLAPS, for every value of the constants that satisfies the named
assumption of the module that declares them. Each proof module has one inductive
invariant (`Inv`; `Base` in `TwoPLProofs`), proved with one lemma per action; the
listed theorems follow from it.

**TwoPL** (`TwoPLAssumption`: any coroutines, records, values, ids and clocks, any
word size that is a multiple of 2^19).

- `TypeCorrect`: `Spec => []TypeOK`.
- `LocksOwned`: `Spec => []LockOwnership`, in every build. Ownership alone is not
  inductive: that a granted word is not 0 needs the id bits of the start time
  (`StampOK`, with the arithmetic lemma `LeaseKeepsId`: the bits R_LEASE drops
  are never the id's), and that a release only concerns a record held needs to
  know what a batch may contain at each point (`PhaseOK`). The inductive
  invariant is `Base`, the conjunction of these with `TypeOK`. Distinct ids are
  not needed: mutual exclusion rests on the compare-and-swap, not on the words
  being different.
- `WaitsAcyclic`: `Spec => []NoWaitCycle` if the ids are distinct (`DistinctIds`): the
  safety half of WAITDIE's freedom from deadlock, in every build. A request that
  goes on waiting has a smaller lease than the holder (`WaitsInOrder`). This is not
  just the comparison the code makes: a bare lease, or a lease with the write bit, is
  compared with the holder's word, which may have the write bit too, so the words
  only give "not larger"; equal leases are excluded because a lease keeps its id
  whatever the word drops of the clock (`LeasesDiffer`). In any set of coroutines
  the one with the largest lease then waits for none (`HasLargest`, from the
  library's well-foundedness of the naturals).
- `ReadsCurrent`: `Spec => []LockedReadsCurrent`, and
- `TwoPLSerializable`: `Spec => Serializable`, the refinement of `SerialStore`,
  both under `Exact`: no local records, and WAITDIE only one-sided. These are the
  builds in which every grant is followed by a read of the record; `waitdie_rpc_stale`
  and the local branch described above show that the restriction is needed. The proof shows for each
  action which abstract step it is (`BeginStarts`, `CopyObserves`,
  `RefusalAborts`, `CommitCommits`, `EndFinishes`) or that it is invisible
  (`QuietSteps`, `WriteBackHidden`).

**OCC with Replication** (`OCCAssumption`, `ReplicationAssumption`: any coroutines
with distinct ids, records, placement, replication factor and transactions). All
theorems are under `ReleaseWithLock`: a build that releases over verbs locks over
verbs. That is the comment at `rtx/occ_rdma.cc:198`, and without it `LocksOwned` is
false (see Bounds).

- `TypeCorrect`, `LocksAreOwned`, `CopiesAreWhole`, `BackupsFollow`. Who holds a
  lock has to be known at every point of the lock, log, write and release stages
  (`MustHold` and `MayHold`), together with what each batch may contain
  (`BatchOf`); a record's sequence word, its two halves and its lock are tied
  together at every point of an in-place write (`RecordOK`), and a copy under way
  over RPC is either of one version or doomed to be noticed (`CopiesOK`,
  `ReadingOK`). `CopiesAreWhole` is about the builds whose reads and write-backs go by
  RPC, in which nothing is ever `torn` (`TornOK`); of the others the invariant only
  knows that a transaction past its validation has whole copies unless `torn`.
  Agreement of the backups needs to know that the log went to the machines of
  the write set: `mac_set_` is what lock_writes left (`BatchOf`).
- `OCCSerializable` (in `OCCSerial`). The order is that of the last lock. A
  transaction enters the history only when its reads are validated, so others can
  overtake it after it has taken its place: the invariant (`Order`) keeps a number
  for every transaction of the history and one for every transaction that is
  validating, with what each validated read says about them. From the numbers
  every set of committed transactions has a first one. The exceptions are `split` and
  `torn`, as in the run.

**MVCC** (`MVCCAssumption`: any nonempty finite set of coroutines with distinct
ids, any records, any number of versions; for one-sided builds clock readings below
2^21, where `rtx/mvcc_rdma.cc:625` keeps a result in an int).

- `TypeCorrect`, `LocksAreOwned`, `ReadsAreStable`, `WritersSeeLatest`,
  `VersionsAreIntact`. A stamp is a reading of its coroutine's own clock
  (`StampOf`), and no version carries the stamp of a transaction that has not come
  to its update (`VersionPast`); otherwise two versions could have one name. For
  stability a read is followed from the moment its handler has raised `rts`: once
  it has looked at the lock word for the second time, every writer that has passed
  its own check is above it (`MarkedOf`), and no writer gets between a served
  version and its reader (`ServedOf`). What a slot holds is followed through the update:
  a slot outside `Changed` of the holder has the contents its stamp, or over verbs
  the next larger stamp, names (`VersionOf`), and the holder's new stamp is above all
  others (`InstalledOf`). Finiteness is used for the bound of the clocks only.

**Sundial** (`SundialAssumption`: any coroutines with distinct ids, records, clock
readings, and records each may read and write; both builds).

- `TypeCorrect`, `NoLockIsLeaked`, `LocksExcludeEachOther`, `LeasesAreOrdered`. No lock
  is leaked even after a stray release, which needs only what each batch may contain and
  that stamps differ (`PhaseOf`, `StampOf`). The rest is stated record by record, so that
  a stray release or a race spoils the record it hits and no other. For a record that is
  not `stray`: while nobody writes it its contents are whole and the newest (`DataOf`),
  and whoever has copied it under the lock, or is copying it, has parts of nothing
  else (`HeldOf`). For one that is not `raced` either, in the one-sided build (`Good`): the
  versions and their readers are in order and the word of the header is one that fits a
  version, the newest one's while nobody writes (`OrderOf`, `HeaderFits`); and
  `LeaseOf`, which follows a coroutine from its copy to its commit. Its core is
  `Covered`: a version that a transaction has read, or renewed up to its commit id, is either
  the newest, with a lease that reaches so far, or was overwritten behind that point. A
  reader that no write overlapped has the contents of its lease (`WholeCopy`).

**DSLR** (`DSLRAssumption`: any finite set of coroutines, any limit, any lane with
room for the limit and one more ticket per coroutine; 2^15 and 2^16 in the code).

- `TypeCorrect`, `HoldersExclude`, `LanesCount`. The word is one number; the lemmas
  `DecodeEncode` and those after it show what each fetch-and-add does to the four
  lanes as long as none overflows. The invariant numbers the
  tickets by what was given out before them, not counting those about to be
  reverted (`GivenX`, `GivenS`, `NumberedOK`), and says that they are served in
  this order: the readers still ahead of an exclusive ticket are no more than the
  word counts (`ServedOK`). A full word is reset by the one coroutine whose ticket is the last
  (`DutyOK`). After a forced reset the word stays full, every waiting ticket finds
  itself passed and gives up, and nobody is let in any more (`ForcedOK`).

**Scheduler** (`SchedulerAssumption`: any number of coroutines, one-shot routines and
outstanding requests).

- `TypeCorrect`, `OnlyTheRunningIsActive`, `NoWakeUpIsLost`, and
- `ListIsQueue`: `Spec => ImplementsQueue`, the refinement of `RunQueue`. The
  invariant says that there is a sequence `q` of distinct routines that the
  pointers link in both directions (`Linked`) and that is consistent with the
  counters, timers and the pool (`State`); stale pointers of routines off the list
  are unconstrained, and relinking is shown not to use them (`AppendLinked`,
  `LeaveLinked`). The mapping follows `next_` with the recursive function `Walk`.
  That it satisfies its equation, and that it returns `q`, is shown by least
  counterexample on the natural numbers (`IteratesExist`, `WalkIs`, `ChainIs`);
  that the walk is long enough is the pigeonhole principle (`ListFits`).

**BPlusTree** (`TreeAssumption`: any natural numbers as keys, any leaf size that
leaves two entries on the right of a split, any inner size from 3 on, as with 15 and
15 in the code; any load and any number of inserts).

- `TypeCorrect`, `ListMatches`, and
- `OrderedSet`: `Spec => ActsAsOrderedSet`. The shape of a tree is stated without
  recursion (`Shape`): there is a height for every node and a range, a convex set of
  integers, of the keys that belong below it; an inner node sends to each child
  what its separators cut out of its own range (`KidOK`), the ranges of one height
  are disjoint, and linked leaves have adjacent ranges (`LeafLinks`). While an
  insert is on its way up, a split node's parent still sends it the keys of the
  new sibling: `cov` is what the parent sends, `rng` what the node takes, and
  `Pending` relates the two. One lemma for each thing an insert does shows that the
  shape is kept: a leaf takes a key (`LeafGrows`) or is split (`LeafSplits`), an
  inner node takes the new child (`Attach`), is halved (`Halve`) or leaves the child
  to a node of its own (`Lone`), the root grows (`RootGrows`). `IsReturn` says what
  a call hands to its caller, proved for the leaf (`LeafInsertIs`), for an inner
  node (`InnerInsertIs`), and from there along the path (`CallsReturn`); `InsertIs` is the
  result. `PivotSide` is the case that is least obvious in the code: above the lowest inner
  level the half that takes the new child is chosen by comparing the inserted key,
  not the separator, with the middle key, and both comparisons agree.
  The iterator's part of the invariant (`IterOK`): its key is in the table, in its
  leaf or to the right of it, and a leaf whose `seq` is the iterator's has the key at
  the iterator's index; every insert keeps that (`LeafMoves`, `IterKept`). A walk over
  the leaves skips no key above its bound (`Ahead`, `StepRight`), and stops within as many
  steps as there are nodes because ranges ascend along it (`WalkAscends`,
  `WalkEnds`). The descent, the returns and the walk are recursive functions; that
  each satisfies its equation is shown by least counterexample (`PathExists`,
  `ReturnsExist`, `WalkExists`).

Model-checked only: liveness (`EveryTxnEnds`, `NoDeadlock`, `EveryCoroutineRuns`,
`EveryCallReturns`), which is outside the prover's reach; of WAITDIE's `NoDeadlock`
the safety half is the theorem `WaitsAcyclic`.

Strict serializability of one-sided WAITDIE, the OCC hybrids other than those of
`occ`, and words that wrap have no run of their own: the theorems cover them.

## Not modelled

- Crashes: the code has no recovery. Logs are written and applied, never read
  back, and the contents of the log memory are left out for that reason.
- The message layer below RC queue pairs: each request is delivered once.
- Passive acknowledgements (`PA`, 0 by default), two-phase commit
  (`TX_TWO_PHASE_COMMIT_STYLE` is 0 and participants always vote yes), `EM_FASST`,
  the table-7 special case of the read calls (its caller is commented out).
- CALVIN: only the transaction class is in the repository, without the sequencer
  and scheduler it waits for.
- The log stage of the protocols other than OCC; it is the same code, called
  between lock and write-back. Their models have a replication factor of 0, with
  which log_remote does nothing.
- Local records of MVCC, OCC and SUNDIAL (the workers pass -1 as node id), and of
  the builds in which those branches are asserted away.
- The DSLR stages of OCC (`USE_DSLR`, off by default): only the lock manager.
- Stores beyond the B+ tree of 64-bit keys: hash tables, the tree of composite
  keys (the same code for another key type), deletion (`Delete_rtm` ends the
  program), SeekPrev, SeekToFirst, SeekToLast and the link word that only the
  predecessor's transactions read.
- Framework and benchmarks: the protocols use a store as a map, and a
  benchmark as a source of transactions. Most lines of the repository are of this
  kind: the TPC-E generator under `app/tpce/egen` alone is some 39,000 of about
  99,000 lines, and the TPC-C, TPC-E and SmallBank loaders and transactions,
  start-up code and the predecessor's transaction layer (`db/`) are most of
  the rest. They hold no state that the protocols' correctness depends on beyond
  what the models let vary freely, so the share of lines covered is small although
  the protocols under `rtx/` are covered for the most part.

## Plan

1. `NOWAIT`'s and `OCC`'s retries: whether the wait-free termination that TLC checks
   can be reduced to a measure that every step of a transaction decreases, as an
   action property.
2. The log stage in `TwoPL`, composed with `Replication` as in `OCC`.
